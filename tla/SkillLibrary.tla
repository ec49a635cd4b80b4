---------------------------- MODULE SkillLibrary ----------------------------
(***************************************************************************)
(* Skill files (src/axiom/skills/skill_file_store.py and                   *)
(* skill_file_runner.py) and registered skills (registry.py, emitter.py),  *)
(* as the worker threads of Studio and the MCP servers use them at once.   *)
(*                                                                         *)
(* A SELECT takes no lock and a session keeps what it has loaded; only a   *)
(* commit is atomic.  What a YAML text says is given by a constant: the    *)
(* name it declares, whether it parses, and its steps, an if_then followed *)
(* by the steps it guards.  What a step finds, and how a condition turns   *)
(* out, is open.  The definitions marked "Fault" are not part of the       *)
(* specification.                                                          *)
(***************************************************************************)
EXTENDS Integers, Sequences, FiniteSets, Functions, SequencesExt

CONSTANTS
  Callers,      \* threads that serve a request
  Names,        \* names of skill files
  Texts, Says,  \* YAML texts and what they say
  Disk,         \* texts in skills/library
  Processes,    \* entities of type "process"
  Slug,         \* their slugify_skill_name
  None,
  MaxRequests   \* bound

StepTypes == {"fetch_entity", "write_entity", "log_decision", "require_approval", "if_then"}

\* guards: for an if_then, how many of the next steps it guards.
Step == [id : STRING, type : StepTypes, guards : Nat]

ASSUME LibraryAssumption ==
  /\ \A t \in Texts : Says[t].name \in Names /\ Says[t].valid \in BOOLEAN
                      /\ Says[t].steps \in Seq(Step)
  /\ Disk \subseteq Texts
  /\ IsFiniteSet(Processes)
  /\ None \notin Texts \cup Processes \cup Names

\* A row of skill_files.
Row == [text : Texts, current : Nat]
ASSUME NoneAssumption == None \notin Row

VARIABLES
  file,       \* rows of skill_files: promoted text and current version
  versions,   \* rows of skill_file_versions, by version
  runs,       \* history: the runs of skill files
  receipts,   \* receipts "skill_file:<run>:<step id>", with the step that made them
  skills,     \* rows of skills
  req,        \* the request of each caller
  asked       \* number of requests that create something

vars == <<file, versions, runs, receipts, skills, req, asked>>

Idle == [op |-> "none"]

Ask == asked < MaxRequests /\ asked' = asked + 1

Served(c, r) == req' = [req EXCEPT ![c] = r]
Done(c) == Served(c, Idle)

-----------------------------------------------------------------------------
(* Saving a skill file.                                                    *)

\* parse_skill_file_yaml, and the name has to be the file's.
Accepted(n, t) == Says[t].valid /\ Says[t].name = n

\* save_skill_file loads the row; a first save must be valid.
SaveBegin(c, n, t) ==
  /\ req[c] = Idle
  /\ file[n] # None \/ Accepted(n, t)
  /\ Served(c, [op |-> IF file[n] = None THEN "create" ELSE "number",
                name |-> n, text |-> t, row |-> file[n], next |-> 1])
  /\ Ask
  /\ UNCHANGED <<file, versions, runs, receipts, skills>>

\* seed_from_disk
SeedBegin(c, t) ==
  /\ t \in Disk /\ Says[t].valid /\ file[Says[t].name] = None
  /\ SaveBegin(c, Says[t].name, t)

\* The first save commits row and version, unless another made the name.
SaveCreate(c) ==
  LET n == req[c].name IN
  /\ req[c].op = "create"
  /\ IF file[n] = None
     THEN /\ file' = [file EXCEPT ![n] = [text |-> req[c].text, current |-> 1]]
          /\ versions' = [versions EXCEPT ![n] =
               <<[text |-> req[c].text, valid |-> TRUE, loaded |-> None]>>]
     ELSE UNCHANGED <<file, versions>>
  /\ Done(c)
  /\ UNCHANGED <<runs, receipts, skills, asked>>

\* _max_version
NextVersion(n) == Len(versions[n]) + 1

SaveNumber(c) ==
  /\ req[c].op = "number"
  /\ Served(c, [req[c] EXCEPT !.op = "save", !.next = NextVersion(req[c].name)])
  /\ UNCHANGED <<file, versions, runs, receipts, skills, asked>>

\* "Fault": the version alone advances.
PromotedNumber(n, r) ==
  IF Accepted(n, r.text) THEN [file[n] EXCEPT !.current = r.next] ELSE file[n]

\* A valid text is promoted.  The ORM writes the columns that differ from what
\* the session has loaded, so a text equal to that one is not written.
Promoted(n, r) ==
  IF ~ Accepted(n, r.text) THEN file[n]
  ELSE [text |-> IF r.text = r.row.text THEN file[n].text ELSE r.text, current |-> r.next]

\* The version is committed with the promotion, unless its number is taken.
SaveCommit(c) ==
  LET n == req[c].name  r == req[c] IN
  /\ r.op = "save"
  /\ IF r.next = Len(versions[n]) + 1
     THEN /\ versions' = [versions EXCEPT ![n] =
               Append(@, [text |-> r.text, valid |-> Accepted(n, r.text), loaded |-> r.row])]
          /\ file' = [file EXCEPT ![n] = Promoted(n, r)]
     ELSE UNCHANGED <<file, versions>>
  /\ Done(c)
  /\ UNCHANGED <<runs, receipts, skills, asked>>

-----------------------------------------------------------------------------
(* Running a skill file.                                                   *)

StepsOf(r) == Says[runs[r].text].steps
Running(c) == req[c].op = "run"

\* run_skill_file_endpoint reads the promoted text; later saves do not matter.
RunBegin(c, n) ==
  /\ req[c] = Idle /\ file[n] # None
  /\ versions[n][file[n].current].valid
  /\ runs' = Append(runs, [text |-> file[n].text, name |-> n, status |-> "running",
                           done |-> {}, asked |-> {}])
  /\ Served(c, [op |-> "run", run |-> Len(runs) + 1, at |-> 1, half |-> FALSE])
  /\ Ask
  /\ UNCHANGED <<file, versions, receipts, skills>>

\* The step of the run that is next, and its successor.
At(c) == StepsOf(req[c].run)[req[c].at]
Going(c) == Running(c) /\ req[c].at <= Len(StepsOf(req[c].run))

EndRun(c, status) ==
  /\ runs' = [runs EXCEPT ![req[c].run].status = status]
  /\ Done(c)

\* fetch_entity and write_entity do their work in a transaction of its own,
\* before the receipt: the entity is found (or not), or committed (or not).
StepWork(c) ==
  /\ Going(c) /\ ~ req[c].half
  /\ At(c).type \in {"fetch_entity", "write_entity"}
  /\ \/ /\ runs' = [runs EXCEPT ![req[c].run].done = @ \cup {req[c].at}]
        /\ Served(c, [req[c] EXCEPT !.half = TRUE])
     \/ EndRun(c, "failed")
  /\ UNCHANGED <<file, versions, receipts, skills, asked>>

\* "Fault": a receipt that fails is passed over.
ReceiptOptional(c) ==
  /\ Going(c) /\ (req[c].half \/ At(c).type = "log_decision")
  /\ runs' = [runs EXCEPT ![req[c].run].done = @ \cup {req[c].at}]
  /\ Served(c, [req[c] EXCEPT !.half = FALSE, !.at = @ + 1])
  /\ UNCHANGED <<file, versions, skills, receipts, asked>>

\* _write_meta_receipt: the action is named by the step's id, and an action
\* that has a receipt gets no other.  If it fails the step fails.
StepReceipt(c) ==
  /\ Going(c) /\ (req[c].half \/ At(c).type = "log_decision")
  /\ \/ /\ receipts' = IF \E p \in receipts : p.run = req[c].run /\ p.id = At(c).id
                       THEN receipts
                       ELSE receipts \cup {[run |-> req[c].run, id |-> At(c).id, step |-> req[c].at]}
        /\ runs' = [runs EXCEPT ![req[c].run].done = @ \cup {req[c].at}]
        /\ Served(c, [req[c] EXCEPT !.half = FALSE, !.at = @ + 1])
     \/ EndRun(c, "failed") /\ UNCHANGED receipts
  /\ UNCHANGED <<file, versions, skills, asked>>

\* The condition holds, does not, or cannot be evaluated.
StepIf(c) ==
  /\ Going(c) /\ At(c).type = "if_then"
  /\ \/ Served(c, [req[c] EXCEPT !.at = @ + 1]) /\ UNCHANGED runs
     \/ Served(c, [req[c] EXCEPT !.at = @ + 1 + At(c).guards]) /\ UNCHANGED runs
     \/ EndRun(c, "failed")
  /\ UNCHANGED <<file, versions, receipts, skills, asked>>

\* "Fault": only an approval at the top level ends the run.
ApprovalPassedOver(c) ==
  /\ Going(c) /\ At(c).type = "require_approval"
  /\ runs' = [runs EXCEPT ![req[c].run].asked = @ \cup {req[c].at}]
  /\ Served(c, [req[c] EXCEPT !.at = @ + 1])
  /\ UNCHANGED <<file, versions, receipts, skills, asked>>

\* The approval is asked for, also from inside an if_then, and the run ends
\* paused; nothing resumes it.
StepApproval(c) ==
  /\ Going(c) /\ At(c).type = "require_approval"
  /\ \/ /\ runs' = [runs EXCEPT ![req[c].run].asked = @ \cup {req[c].at},
                               ![req[c].run].status = "paused"]
        /\ Done(c)
     \/ EndRun(c, "failed")
  /\ UNCHANGED <<file, versions, receipts, skills, asked>>

RunEnd(c) ==
  /\ Running(c) /\ ~ Going(c)
  /\ EndRun(c, "success")
  /\ UNCHANGED <<file, versions, receipts, skills, asked>>

-----------------------------------------------------------------------------
(* Registered skills.                                                      *)

\* _validate_trigger_config
Triggers == {"valid", "invalid"}

Titled(s) == {i \in DOMAIN skills : skills[i].name = s}

Draft(s, trigger, p) == [name |-> s, status |-> "draft", trigger |-> trigger, process |-> p]

\* register_skill_with_session: a form, SKILL.md or the MCP tool; the trigger's
\* configuration is not looked at, nor the name.
Register(s, trigger) ==
  /\ skills' = Append(skills, Draft(s, trigger, None))
  /\ Ask
  /\ UNCHANGED <<file, versions, runs, receipts, req>>

\* activate_skill_with_session: whatever the status, if the trigger is valid.
Activate(i) ==
  /\ skills[i].trigger = "valid"
  /\ skills' = [skills EXCEPT ![i].status = "active"]
  /\ UNCHANGED <<file, versions, runs, receipts, req, asked>>

Archive(i) ==
  /\ skills' = [skills EXCEPT ![i].status = "archived"]
  /\ UNCHANGED <<file, versions, runs, receipts, req, asked>>

\* compile_skills_from_processes makes its manifests ...
CompileBegin(c, ps) ==
  /\ req[c] = Idle
  /\ Served(c, [op |-> "select", left |-> ps, row |-> 0])
  /\ Ask
  /\ UNCHANGED <<file, versions, runs, receipts, skills>>

\* ... looks for each one's name, which must not be there twice ...
CompileSelect(c) ==
  LET found == Titled(Slug[Head(req[c].left)]) IN
  /\ req[c].op = "select" /\ req[c].left # <<>>
  /\ \/ found = {} /\ Served(c, [req[c] EXCEPT !.op = "compile", !.row = 0])
     \/ /\ Cardinality(found) = 1
        /\ Served(c, [req[c] EXCEPT !.op = "compile", !.row = CHOOSE i \in found : TRUE])
     \/ Cardinality(found) > 1 /\ Done(c)
  /\ UNCHANGED <<file, versions, runs, receipts, skills, asked>>

\* The row it found becomes the process's, whatever its status and its author.
Recompiled(i, p) == [skills[i] EXCEPT !.trigger = "valid", !.process = p]

\* ... and commits it as a new skill or over the one it found.
CompileCommit(c) ==
  LET p == Head(req[c].left) IN
  /\ req[c].op = "compile"
  /\ IF req[c].row = 0
     THEN skills' = Append(skills, Draft(Slug[p], "valid", p))
     ELSE skills' = [skills EXCEPT ![req[c].row] = Recompiled(req[c].row, p)]
  /\ Served(c, [req[c] EXCEPT !.op = "select", !.left = Tail(@)])
  /\ UNCHANGED <<file, versions, runs, receipts, asked>>

CompileEnd(c) ==
  /\ req[c].op = "select" /\ req[c].left = <<>>
  /\ Done(c)
  /\ UNCHANGED <<file, versions, runs, receipts, skills, asked>>

-----------------------------------------------------------------------------

\* The request's process dies, or the database refuses: what was committed stays.
Abort(c) ==
  /\ req[c] # Idle
  /\ IF Running(c) THEN EndRun(c, "raised") ELSE Done(c) /\ UNCHANGED runs
  /\ UNCHANGED <<file, versions, receipts, skills, asked>>

Init ==
  /\ file = [n \in Names |-> None]
  /\ versions = [n \in Names |-> <<>>]
  /\ runs = <<>> /\ receipts = {} /\ skills = <<>>
  /\ req = [c \in Callers |-> Idle] /\ asked = 0

StepOf(c) == StepWork(c) \/ StepReceipt(c) \/ StepIf(c) \/ StepApproval(c) \/ RunEnd(c)

Next ==
  \/ \E c \in Callers :
       \/ \E n \in Names, t \in Texts : SaveBegin(c, n, t)
       \/ \E t \in Texts : SeedBegin(c, t)
       \/ SaveCreate(c) \/ SaveNumber(c) \/ SaveCommit(c)
       \/ \E n \in Names : RunBegin(c, n)
       \/ StepOf(c)
       \/ \E some \in (SUBSET Processes) \ {{}} : \E ps \in SetToSeqs(some) : CompileBegin(c, ps)
       \/ CompileSelect(c) \/ CompileCommit(c) \/ CompileEnd(c)
       \/ Abort(c)
  \/ \E p \in Processes, trigger \in Triggers : Register(Slug[p], trigger)
  \/ \E i \in DOMAIN skills : Activate(i) \/ Archive(i)

Spec == Init /\ [][Next]_vars

-----------------------------------------------------------------------------
(* Properties.                                                             *)

TypeOK ==
  /\ file \in [Names -> {None} \cup Row]
  /\ \A n \in Names : file[n] # None => file[n].current \in DOMAIN versions[n]
  /\ \A r \in DOMAIN runs : runs[r].done \cup runs[r].asked \subseteq DOMAIN StepsOf(r)
  /\ \A p \in receipts : p.run \in DOMAIN runs /\ p.step \in DOMAIN StepsOf(p.run)
  /\ \A i \in DOMAIN skills : skills[i].status \in {"draft", "active", "archived"}

\* current_version points to the latest valid version, however saves overlap.
CurrentIsLatestValid ==
  \A n \in Names : file[n] # None =>
    /\ versions[n][file[n].current].valid
    /\ \A v \in DOMAIN versions[n] : versions[n][v].valid => v <= file[n].current

\* What runs is the text of that version ...
TextIsCurrent(n) == file[n].text = versions[n][file[n].current].text

\* ... or the save that made it repeated the text it had loaded, after another
\* save had been promoted: then the other's text runs under the new number.
OnlyRepeatedTextGetsLost ==
  \A n \in Names : file[n] # None /\ ~ TextIsCurrent(n) =>
    LET new == versions[n][file[n].current] IN
    /\ new.loaded # None /\ new.loaded.text = new.text
    /\ \E v \in (new.loaded.current + 1)..(file[n].current - 1) : versions[n][v].valid

\* Overlapping saves promote in order, and cost no text but one that was
\* saved beside a save that repeated what it had loaded.
PromotionsKeepOrder == TypeOK /\ CurrentIsLatestValid /\ OnlyRepeatedTextGetsLost

DistinctIds(t) == IsInjective([i \in DOMAIN Says[t].steps |-> Says[t].steps[i].id])

\* Steps of a run that did their work and have no receipt of their own.
Unreceipted(r) == {i \in runs[r].done : \A p \in receipts : ~ (p.run = r /\ p.step = i)}

\* Every step that did something has its receipt, but for the one at which the
\* run broke off, when the step ids are distinct (_write_meta_receipt).
StepsAreReceipted ==
  \A r \in DOMAIN runs : DistinctIds(runs[r].text) =>
    /\ runs[r].status \in {"success", "paused"} => Unreceipted(r) = {}
    /\ \A i \in Unreceipted(r), j \in runs[r].done : j <= i

\* Nothing happens in a run after it has asked for an approval, wherever the
\* step stands, and a run that succeeded has asked for none.
ApprovalEndsRun ==
  \A r \in DOMAIN runs : \A a \in runs[r].asked :
    /\ runs[r].status \notin {"running", "success"}
    /\ \A i \in runs[r].done \cup runs[r].asked : i <= a

=============================================================================
