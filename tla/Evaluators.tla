------------------------------ MODULE Evaluators ------------------------------
(***************************************************************************)
(* The Python process that runs installed product evaluators               *)
(* (packages/harness/.../evaluation): which code their modules are.        *)
(*                                                                         *)
(* A module is a sequence of names, of which the first is its root, and a  *)
(* file is <<place, module>>, found in the first place that has it.  The   *)
(* process keeps its modules in sys.modules and asks the finder of         *)
(* _VerifiedImports, while that is installed, for every module not there.  *)
(* A record, made by the admission of a wheel (external), names the files  *)
(* of a distribution and the bytes of its sources; the files may be        *)
(* written over, or hidden by others, at any time, and other code of the   *)
(* process imports what it likes.  Every package here has an __init__.     *)
(***************************************************************************)
EXTENDS Integers, Sequences, FiniteSets, SequencesExt, Functions

CONSTANTS
  Places,         \* sys.path
  Modules,        \* modules that may be on disk
  ImportsOf,      \* modules that one imports when it is executed
  LateImportsOf,  \* modules that the evaluator of an entry module imports
  Suites,         \* [required, installed, admitted, receipts] of an evaluation
  Versions,       \* what the bytes of a file may be
  Tampering,      \* bound of the model: changes of files and other imports
  Evaluations     \* bound of the model: evaluations of this process

NoFile == "none"
Files == {<<p, m>> : p \in ToSet(Places), m \in Modules}

ASSUME EvaluatorsAssumption ==
  /\ Tampering \in Nat /\ Evaluations \in Nat /\ NoFile \notin Versions
  /\ Suites # {} /\ \A s \in Suites : s.required # <<>>
  /\ \A m \in Modules : ToSet(ImportsOf[m]) \subseteq Modules /\ ToSet(LateImportsOf[m]) \subseteq Modules

VARIABLES
  site,           \* the bytes of every file, NoFile for none
  loaded,         \* sys.modules: [place, bytes, verified] of every module
  finders,        \* finders installed in sys.meta_path
  evaluation,     \* the evaluation at work
  tampered,
  evaluated

evaluatorVars == <<site, loaded, finders, evaluation, tampered, evaluated>>

NotLoaded == [place |-> "none", bytes |-> NoFile, verified |-> FALSE]
Resting == [phase |-> "rest", suite |-> CHOOSE s \in Suites : TRUE, k |-> 0,
            inside |-> FALSE, asked |-> <<>>, stack |-> {}]
-----------------------------------------------------------------------------
(***************************************************************************)
(* What a suite has verified.                                              *)
(***************************************************************************)
Admissions(s) == {a \in s.admitted : \E r \in ToSet(s.required) : a.name = r.name}
Owned(s) == {m \in Modules : \E a \in Admissions(s) : \E f \in a.files : f[2][1] = m[1]}
VerifiedFiles(s) == UNION {a.files : a \in Admissions(s)}

\* The verified bytes of a file: none when no record has them as a source.
SourcesOf(s, file) == {a.version : a \in {any \in Admissions(s) : file \in any.sources}}

\* Where PathFinder finds a module: a submodule in the place of its package.
PlacesWith(m) == {i \in DOMAIN Places : site[<<Places[i], m>>] # NoFile}
FoundAt(m, package) ==
  IF Len(m) = 1
  THEN IF PlacesWith(m) = {} THEN "none"
       ELSE Places[CHOOSE i \in PlacesWith(m) : \A j \in PlacesWith(m) : i <= j]
  ELSE IF package # "none" /\ site[<<package, m>>] # NoFile THEN package ELSE "none"

\* A module's packages and the module: the sequence of its first n names.
UpTo(m, n) == SubSeq(m, 1, n)

\* _verify_entry_point_origin
OriginFits(a, m) ==
  LET at[n \in 0..Len(m)] == IF n = 0 THEN "none" ELSE FoundAt(UpTo(m, n), at[n - 1])
  IN \A n \in 1..Len(m) : <<at[n], UpTo(m, n)>> \in a.files

IsBound(s, r) ==
  /\ {e \in s.installed : e.name = r.name} =
       {[name |-> r.name, module |-> r.module, version |-> r.version]}
  /\ r.receipt \in s.receipts
  /\ \E a \in s.admitted :
       a.name = r.name /\ a.module = r.module /\ a.version = r.version /\ OriginFits(a, r.module)

\* _qualified_entry_points, and the agreement of their records on sources.
Qualified(s) ==
  /\ \A k \in DOMAIN s.required : IsBound(s, s.required[k])
  /\ s.receipts = {r.receipt : r \in ToSet(s.required)}
  /\ {a.name : a \in s.admitted} = {r.name : r \in ToSet(s.required)}
  /\ \A f \in VerifiedFiles(s) : Cardinality(SourcesOf(s, f)) <= 1
-----------------------------------------------------------------------------
(***************************************************************************)
(* An evaluation: qualify, load every evaluator, run every evaluator.      *)
(***************************************************************************)
Refusal == [Resting EXCEPT !.phase = "refused"]

Begin ==
  /\ evaluation.phase \in {"rest", "refused", "done"} /\ evaluated < Evaluations
  /\ \E s \in Suites :
       evaluation' = IF Qualified(s)
                     THEN [Resting EXCEPT !.phase = "load", !.suite = s, !.k = 1]
                     ELSE Refusal
  /\ evaluated' = evaluated + 1
  /\ UNCHANGED <<site, loaded, finders, tampered>>

LoadedByVerifier(s, m) == loaded[m].verified

\* check_loaded: the module was compiled from the bytes this suite verified.
LoadedIsVerified(s, m) ==
  loaded[m].verified /\ SourcesOf(s, <<loaded[m].place, m>>) = {loaded[m].bytes}

\* The entrance of _verified_imports.
EnterImports ==
  LET e == evaluation
      module == e.suite.required[e.k].module
      present == {m \in Owned(e.suite) : loaded[m] # NotLoaded}
  IN /\ e.phase \in {"load", "evaluate"} /\ ~e.inside
     /\ IF \A m \in present : LoadedIsVerified(e.suite, m)
        THEN /\ finders' = finders + 1
             /\ evaluation' =
                  [e EXCEPT !.inside = TRUE,
                     !.asked = IF e.phase = "load" THEN <<module>> ELSE LateImportsOf[module]]
        ELSE evaluation' = Refusal /\ UNCHANGED finders
     /\ UNCHANGED <<site, loaded, tampered, evaluated>>

\* Modules whose execution is cut short leave sys.modules.
Unloaded(stack) == [m \in Modules |-> IF m \in stack THEN NotLoaded ELSE loaded[m]]

Exit(next) ==
  /\ finders' = finders - 1
  /\ evaluation' = next
  /\ UNCHANGED <<site, tampered, evaluated>>

Package(m) == IF Len(m) = 1 THEN "none" ELSE loaded[Front(m)].place

\* What find_spec gives for a module: the verified bytes whatever is on disk,
\* for one that nobody verified those on disk, or nothing.
FindSpec(s, m) ==
  LET at == FoundAt(m, Package(m))
      file == <<at, m>>
  IN IF at = "none" THEN NotLoaded
     ELSE IF finders = 0 \/ m \notin Owned(s)
     THEN [place |-> at, bytes |-> site[file], verified |-> FALSE]
     ELSE IF file \notin VerifiedFiles(s) \/ SourcesOf(s, file) = {} THEN NotLoaded
     ELSE [place |-> at, bytes |-> CHOOSE b \in SourcesOf(s, file) : TRUE, verified |-> TRUE]

\* The next module asked for, after its packages; a module on the stack is asked
\* for once more when all it imports has been, and is executed then.
Import ==
  LET e == evaluation
      missing == {n \in 1..Len(Head(e.asked)) : loaded[UpTo(Head(e.asked), n)] = NotLoaded}
      m == UpTo(Head(e.asked), CHOOSE n \in missing : \A o \in missing : n <= o)
      found == FindSpec(e.suite, m)
  IN /\ e.inside /\ e.asked # <<>>
     /\ IF missing = {}
        THEN /\ evaluation' = [e EXCEPT !.asked = Tail(@), !.stack = @ \ {Head(e.asked)}]
             /\ UNCHANGED <<loaded, finders, site, tampered, evaluated>>
        ELSE IF found = NotLoaded
        THEN Exit(Refusal) /\ loaded' = Unloaded(e.stack)
        ELSE /\ loaded' = [loaded EXCEPT ![m] = found]
             /\ evaluation' = [e EXCEPT !.asked = ImportsOf[m] \o <<m>> \o @, !.stack = @ \cup {m}]
             /\ UNCHANGED <<finders, site, tampered, evaluated>>

\* The evaluator is loaded, or has answered: its rows are taken one by one, and
\* one that is refused closes the generator.
Leave ==
  LET e == evaluation
      last == e.k = Len(e.suite.required)
      next == [e EXCEPT !.inside = FALSE,
                 !.k = IF last THEN 1 ELSE @ + 1,
                 !.phase = IF ~last THEN @ ELSE IF @ = "load" THEN "evaluate" ELSE "done"]
  IN /\ e.inside /\ e.asked = <<>> /\ UNCHANGED loaded
     /\ Exit(next) \/ Exit(Refusal)
-----------------------------------------------------------------------------
(***************************************************************************)
(* Others (external).                                                      *)
(***************************************************************************)
Tampered == tampered < Tampering /\ tampered' = tampered + 1

WriteFile ==
  /\ Tampered
  /\ \E f \in Files, b \in Versions \cup {NoFile} : site' = [site EXCEPT ![f] = b]
  /\ UNCHANGED <<loaded, finders, evaluation, evaluated>>

\* Code of the process that is no evaluator imports a module.
ImportElsewhere ==
  /\ Tampered /\ ~evaluation.inside
  /\ \E m \in Modules :
       /\ loaded[m] = NotLoaded /\ (Len(m) > 1 => loaded[Front(m)] # NotLoaded)
       /\ FindSpec(evaluation.suite, m) # NotLoaded
       /\ loaded' = [loaded EXCEPT ![m] = FindSpec(evaluation.suite, m)]
  /\ UNCHANGED <<site, finders, evaluation, evaluated>>

EvaluatorsInit ==
  /\ site \in {[f \in Files |-> IF f[1] # place THEN NoFile ELSE v] :
                 place \in ToSet(Places), v \in Versions}
  /\ loaded = [m \in Modules |-> NotLoaded] /\ finders = 0
  /\ evaluation = Resting /\ tampered = 0 /\ evaluated = 0

EvaluatorsNext == Begin \/ EnterImports \/ Import \/ Leave \/ WriteFile \/ ImportElsewhere

EvaluatorsSpec == EvaluatorsInit /\ [][EvaluatorsNext]_evaluatorVars
-----------------------------------------------------------------------------
\* While an evaluator is loaded or runs, every module under the roots of the
\* qualified wheels is the code of the wheel that this evaluation admitted,
\* though files are replaced or hidden, the process may have imported others
\* before, between or for an earlier evaluation; and outside it, however it
\* ended, nobody's imports are redirected (evaluation.py 99-247 and 353-363).
OnlyVerifiedCodeRuns ==
  LET e == evaluation
  IN IF e.inside
     THEN \A m \in Owned(e.suite) : loaded[m] # NotLoaded =>
            \E a \in e.suite.admitted :
              <<loaded[m].place, m>> \in a.sources /\ loaded[m].bytes = a.version
     ELSE finders = 0
=============================================================================
