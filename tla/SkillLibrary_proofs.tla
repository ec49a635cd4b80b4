------------------------ MODULE SkillLibrary_proofs ------------------------
(***************************************************************************)
(* Proofs about saving and running skill files, for any number of callers, *)
(* files, texts and requests.                                              *)
(***************************************************************************)
EXTENDS SkillLibrary, SequenceTheorems, FiniteSetTheorems, TLAPS

USE LibraryAssumption, NoneAssumption

-----------------------------------------------------------------------------
(* The inductive invariant.                                                *)

Version == [text : Texts, valid : BOOLEAN, loaded : {None} \cup Row]

Run == [text : Texts, name : Names, status : {"running", "failed", "success", "paused", "raised"},
        done : SUBSET Nat, asked : SUBSET Nat]

Receipt == [run : Nat, id : STRING, step : Nat]

Skill == [name : {Slug[p] : p \in Processes}, status : {"draft", "active", "archived"},
          trigger : Triggers, process : Processes \cup {None}]

SaveRequest == [op : {"create", "number", "save"}, name : Names, text : Texts,
                row : {None} \cup Row, next : Nat]
RunRequest == [op : {"run"}, run : Nat, at : Nat, half : BOOLEAN]
CompileRequest == [op : {"select", "compile"}, left : Seq(Processes), row : Nat]

Types ==
  /\ file \in [Names -> {None} \cup Row]
  /\ versions \in [Names -> Seq(Version)]
  /\ runs \in Seq(Run)
  /\ receipts \subseteq Receipt
  /\ skills \in Seq(Skill)
  /\ req \in [Callers -> {Idle} \cup SaveRequest \cup RunRequest \cup CompileRequest]

\* A file's row and its versions.
FileInv(n) == file[n] # None =>
  /\ file[n].current \in DOMAIN versions[n]
  /\ versions[n][file[n].current].valid
  /\ \A v \in DOMAIN versions[n] : versions[n][v].valid => v <= file[n].current
  /\ TextIsCurrent(n) \/
       LET new == versions[n][file[n].current] IN
       /\ new.loaded # None /\ new.loaded.text = new.text
       /\ \E v \in (new.loaded.current + 1)..(file[n].current - 1) : versions[n][v].valid

\* The row that a save has loaded is the file's, or has been promoted since.
SaverInv(c) == req[c].op \in {"number", "save"} =>
  LET n == req[c].name  row == req[c].row IN
  /\ file[n] # None /\ row # None
  /\ row.current <= file[n].current
  /\ row.current = file[n].current => row.text = file[n].text

\* A run as it stands in the tables.
RunInv(r) ==
  /\ runs[r].done \cup runs[r].asked \subseteq DOMAIN StepsOf(r)
  /\ DistinctIds(runs[r].text) =>
       /\ runs[r].status \in {"success", "paused"} => Unreceipted(r) = {}
       /\ \A i \in Unreceipted(r), j \in runs[r].done : j <= i
  /\ \A a \in runs[r].asked :
       /\ runs[r].status \notin {"running", "success"}
       /\ \A i \in runs[r].done \cup runs[r].asked : i <= a

\* A receipt is of a step of its run, under that step's id.
ReceiptInv(p) ==
  /\ p.run \in DOMAIN runs /\ p.step \in DOMAIN StepsOf(p.run)
  /\ p.id = StepsOf(p.run)[p.step].id

\* A request that runs a file: what is done lies behind it, and so does what
\* has its receipt, but for the work of a step that is half done.
RunnerInv(c) == req[c].op = "run" =>
  LET r == req[c].run  at == req[c].at  half == req[c].half IN
  /\ r \in DOMAIN runs /\ runs[r].status = "running"
  /\ at >= 1
  /\ half => at <= Len(StepsOf(r)) /\ StepsOf(r)[at].type \in {"fetch_entity", "write_entity"}
  /\ \A i \in runs[r].done : i < at \/ (half /\ i = at)
  /\ DistinctIds(runs[r].text) => \A i \in Unreceipted(r) : half /\ i = at

\* No two requests run one run.
RunsApart ==
  \A c, d \in Callers : c # d /\ req[c].op = "run" /\ req[d].op = "run" => req[c].run # req[d].run

\* A compilation that is about to commit has a process to commit, and a row.
CompilerInv(c) ==
  /\ req[c].op = "compile" => req[c].left # <<>>
  /\ req[c].op \in {"select", "compile"} => req[c].row <= Len(skills)

FilesInv == (\A n \in Names : FileInv(n)) /\ (\A c \in Callers : SaverInv(c))
RunsInv ==
  /\ \A r \in DOMAIN runs : RunInv(r)
  /\ \A p \in receipts : ReceiptInv(p)
  /\ \A c \in Callers : RunnerInv(c)
  /\ RunsApart
LibInv == Types /\ FilesInv /\ RunsInv /\ \A c \in Callers : CompilerInv(c)

\* The invariant says what the properties say.
LEMMA LibInvSuffices ==
  LibInv => PromotionsKeepOrder /\ StepsAreReceipted /\ ApprovalEndsRun
<1> SUFFICES ASSUME LibInv PROVE PromotionsKeepOrder /\ StepsAreReceipted /\ ApprovalEndsRun
  OBVIOUS
<1>1. StepsAreReceipted /\ ApprovalEndsRun
  BY DEF LibInv, RunsInv, RunInv, StepsAreReceipted, ApprovalEndsRun
<1>2. TypeOK
  <2>1. \A i \in DOMAIN skills : skills[i].status \in {"draft", "active", "archived"}
    <3>1. \A i \in DOMAIN skills : skills[i] \in Skill
      BY DEF LibInv, Types
    <3> QED BY <3>1 DEF Skill
  <2>2. \A n \in Names : file[n] # None => file[n].current \in DOMAIN versions[n]
    BY DEF LibInv, FilesInv, FileInv
  <2>3. \A r \in DOMAIN runs : runs[r].done \cup runs[r].asked \subseteq DOMAIN StepsOf(r)
    BY DEF LibInv, RunsInv, RunInv
  <2>4. \A p \in receipts : p.run \in DOMAIN runs /\ p.step \in DOMAIN StepsOf(p.run)
    BY DEF LibInv, RunsInv, ReceiptInv
  <2> QED BY <2>1, <2>2, <2>3, <2>4 DEF LibInv, Types, TypeOK
<1>3. CurrentIsLatestValid
  BY DEF LibInv, FilesInv, FileInv, CurrentIsLatestValid
<1>4. OnlyRepeatedTextGetsLost
  BY DEF LibInv, FilesInv, FileInv, OnlyRepeatedTextGetsLost
<1> QED BY <1>1, <1>2, <1>3, <1>4 DEF PromotionsKeepOrder

\* The initial state satisfies the invariant.
LEMMA InitLibInv == Init => LibInv
<1> SUFFICES ASSUME Init PROVE LibInv
  OBVIOUS
<1>1. Types
  BY DEF Init, Types
<1>2. FilesInv
  BY DEF Init, FilesInv, FileInv, SaverInv, Idle
<1>3. RunsInv
  BY DEF Init, RunsInv, RunnerInv, RunsApart, Idle
<1>4. \A c \in Callers : CompilerInv(c)
  BY DEF Init, CompilerInv, Idle
<1> QED BY <1>1, <1>2, <1>3, <1>4 DEF LibInv

-----------------------------------------------------------------------------
(* Requests.                                                               *)

\* A request is told by its operation.
LEMMA Operations ==
  ASSUME Types, NEW c \in Callers
  PROVE  /\ req[c].op \in {"create", "number", "save"} => req[c] \in SaveRequest
         /\ req[c].op = "run" => req[c] \in RunRequest
         /\ req[c].op \in {"select", "compile"} => req[c] \in CompileRequest
         /\ req[c] = Idle => req[c].op = "none"
BY DEF Types, Idle, SaveRequest, RunRequest, CompileRequest

\* Serving a request is of no concern to the others.
LEMMA Serving ==
  ASSUME Types, NEW c \in Callers,
         NEW r \in {Idle} \cup SaveRequest \cup RunRequest \cup CompileRequest, Served(c, r)
  PROVE  /\ req' \in [Callers -> {Idle} \cup SaveRequest \cup RunRequest \cup CompileRequest]
         /\ req'[c] = r
         /\ \A d \in Callers : d # c => req'[d] = req[d]
BY DEF Types, Served

\* A request that is done does nothing.
LEMMA Ending ==
  ASSUME Types, NEW c \in Callers, Done(c)
  PROVE  /\ req' \in [Callers -> {Idle} \cup SaveRequest \cup RunRequest \cup CompileRequest]
         /\ req'[c] = Idle /\ req'[c].op = "none"
         /\ \A d \in Callers : d # c => req'[d] = req[d]
BY DEF Types, Done, Served, Idle

\* What a step that leaves files, runs or skills alone keeps of each.
LEMMA FilesFrame ==
  ASSUME LibInv, UNCHANGED <<file, versions>>,
         \A c \in Callers : req'[c] = req[c] \/ req'[c].op \notin {"number", "save"}
  PROVE  FilesInv'
BY DEF LibInv, FilesInv, FileInv, TextIsCurrent, SaverInv

\* Steps that leave the runs and their receipts.
LEMMA RunsFrame ==
  ASSUME LibInv, UNCHANGED <<runs, receipts>>,
         \A c \in Callers : req'[c] = req[c] \/ req'[c].op # "run"
  PROVE  RunsInv'
<1>1. \A r \in DOMAIN runs' : RunInv(r)'
  BY DEF LibInv, RunsInv, RunInv, StepsOf, Unreceipted
<1>2. \A p \in receipts' : ReceiptInv(p)'
  BY DEF LibInv, RunsInv, ReceiptInv, StepsOf
<1>3. \A c \in Callers : RunnerInv(c)'
  BY DEF LibInv, RunsInv, RunnerInv, StepsOf, Unreceipted
<1>4. RunsApart'
  BY DEF LibInv, RunsInv, RunsApart
<1> QED BY <1>1, <1>2, <1>3, <1>4 DEF RunsInv

\* Steps that leave the registry.
LEMMA SkillsFrame ==
  ASSUME LibInv, UNCHANGED skills,
         \A c \in Callers : req'[c] = req[c] \/ req'[c].op \notin {"select", "compile"}
  PROVE  \A c \in Callers : CompilerInv(c)'
BY DEF LibInv, CompilerInv

-----------------------------------------------------------------------------
(* Saving.                                                                 *)

\* A save that begins has loaded the row as it is.
LEMMA SaveBeginKeeps ==
  ASSUME LibInv, NEW c \in Callers, NEW n \in Names, NEW t \in Texts, SaveBegin(c, n, t)
  PROVE  LibInv'
<1> DEFINE r == [op |-> IF file[n] = None THEN "create" ELSE "number",
                 name |-> n, text |-> t, row |-> file[n], next |-> 1]
<1>1. r \in SaveRequest /\ r.name = n /\ r.row = file[n]
  BY DEF LibInv, Types, SaveRequest
<1>2. UNCHANGED <<file, versions, runs, receipts, skills>> /\ Served(c, r)
  BY DEF SaveBegin
<1>3. r.op \in {"number", "save"} => file[n] # None
  BY <1>1
<1>4. r.op \notin {"run", "select", "compile"}
  OBVIOUS
<1> HIDE DEF r
<1>5. /\ req' \in [Callers -> {Idle} \cup SaveRequest \cup RunRequest \cup CompileRequest]
      /\ req'[c] = r /\ \A d \in Callers : d # c => req'[d] = req[d]
  BY <1>1, <1>2, Serving DEF LibInv
<1>6. Types'
  BY <1>2, <1>5 DEF LibInv, Types
<1>7. RunsInv' /\ \A d \in Callers : CompilerInv(d)'
  BY <1>2, <1>4, <1>5, RunsFrame, SkillsFrame
<1>8. \A m \in Names : FileInv(m)'
  BY <1>2 DEF LibInv, FilesInv, FileInv, TextIsCurrent
<1>9. SaverInv(c)'
  <2>1. file[n] # None => file[n].current \in Int
    BY DEF LibInv, Types, Row
  <2> QED BY <1>1, <1>2, <1>3, <1>5, <2>1 DEF SaverInv
<1>10. \A d \in Callers : SaverInv(d)'
  BY <1>2, <1>5, <1>9 DEF LibInv, FilesInv, SaverInv
<1> QED BY <1>6, <1>7, <1>8, <1>10 DEF LibInv, FilesInv

\* seed_from_disk
LEMMA SeedBeginKeeps ==
  ASSUME LibInv, NEW c \in Callers, NEW t \in Texts, SeedBegin(c, t) PROVE LibInv'
BY SaveBeginKeeps DEF SeedBegin

\* The first save of a file.
LEMMA SaveCreateKeeps == ASSUME LibInv, NEW c \in Callers, SaveCreate(c) PROVE LibInv'
<1>1. PICK n \in Names : n = req[c].name
  BY Operations DEF LibInv, SaveCreate, SaveRequest
<1>2. PICK t \in Texts : t = req[c].text
  BY Operations DEF LibInv, SaveCreate, SaveRequest
<1>3. UNCHANGED <<runs, receipts, skills>> /\ Done(c)
  BY DEF SaveCreate
<1>4. /\ req' \in [Callers -> {Idle} \cup SaveRequest \cup RunRequest \cup CompileRequest]
      /\ req'[c].op = "none" /\ \A d \in Callers : d # c => req'[d] = req[d]
  BY <1>3, Ending DEF LibInv
<1>5. RunsInv' /\ \A d \in Callers : CompilerInv(d)'
  BY <1>3, <1>4, RunsFrame, SkillsFrame
<1>6. CASE UNCHANGED <<file, versions>>
  <2>1. Types'
    BY <1>3, <1>4, <1>6 DEF LibInv, Types
  <2> QED BY <1>4, <1>5, <1>6, <2>1, FilesFrame DEF LibInv
<1>7. CASE file[n] = None
  <2> DEFINE row == [text |-> t, current |-> 1]
             version == [text |-> t, valid |-> TRUE, loaded |-> None]
  <2>1. /\ file' = [file EXCEPT ![n] = row]
        /\ versions' = [versions EXCEPT ![n] = <<version>>]
    BY <1>1, <1>2, <1>7 DEF SaveCreate
  <2>2. row \in Row /\ version \in Version /\ <<version>> \in Seq(Version)
    BY DEF Row, Version
  <2>3. Types'
    BY <1>3, <1>4, <2>1, <2>2 DEF LibInv, Types
  <2>4. /\ file'[n] = row /\ versions'[n] = <<version>>
        /\ \A m \in Names : m # n => file'[m] = file[m] /\ versions'[m] = versions[m]
    BY <2>1 DEF LibInv, Types
  <2>5. FileInv(n)'
    BY <2>4 DEF FileInv, TextIsCurrent
  <2>6. \A m \in Names : FileInv(m)'
    BY <2>4, <2>5 DEF LibInv, FilesInv, FileInv, TextIsCurrent
  <2>7. \A d \in Callers : SaverInv(d)'
    <3> SUFFICES ASSUME NEW d \in Callers, req'[d].op \in {"number", "save"}, d # c
                 PROVE  SaverInv(d)'
      BY <1>4 DEF SaverInv
    <3>1. SaverInv(d) /\ req'[d] = req[d] /\ req[d].name \in Names
      BY <1>4, Operations DEF LibInv, FilesInv, SaveRequest
    <3>2. req[d].name # n
      BY <1>4, <1>7, <3>1 DEF SaverInv
    <3> QED BY <2>4, <3>1, <3>2 DEF SaverInv
  <2> QED BY <1>5, <2>3, <2>6, <2>7 DEF LibInv, FilesInv
<1> QED BY <1>1, <1>6, <1>7 DEF SaveCreate

\* A save takes the number of the next version.
LEMMA SaveNumberKeeps == ASSUME LibInv, NEW c \in Callers, SaveNumber(c) PROVE LibInv'
<1>1. PICK r \in SaveRequest : r = req[c]
  BY Operations DEF LibInv, SaveNumber
<1>2. PICK k \in Nat : k = NextVersion(r.name)
  BY DEF LibInv, Types, NextVersion, SaveRequest
<1> DEFINE q == [r EXCEPT !.op = "save", !.next = k]
<1>3. /\ UNCHANGED <<file, versions, runs, receipts, skills>> /\ Served(c, q)
      /\ r.op = "number"
  BY <1>1, <1>2 DEF SaveNumber
<1>4. q \in SaveRequest /\ q.op = "save" /\ q.name = r.name /\ q.row = r.row
  BY DEF SaveRequest
<1> HIDE DEF q
<1>5. /\ req' \in [Callers -> {Idle} \cup SaveRequest \cup RunRequest \cup CompileRequest]
      /\ req'[c] = q /\ \A d \in Callers : d # c => req'[d] = req[d]
  BY <1>3, <1>4, Serving DEF LibInv
<1>6. Types'
  BY <1>3, <1>5 DEF LibInv, Types
<1>7. RunsInv' /\ \A d \in Callers : CompilerInv(d)'
  BY <1>3, <1>4, <1>5, RunsFrame, SkillsFrame
<1>8. \A m \in Names : FileInv(m)'
  BY <1>3 DEF LibInv, FilesInv, FileInv, TextIsCurrent
<1>9. SaverInv(c)'
  BY <1>1, <1>3, <1>4, <1>5 DEF LibInv, FilesInv, SaverInv
<1>10. \A d \in Callers : SaverInv(d)'
  BY <1>3, <1>5, <1>9 DEF LibInv, FilesInv, SaverInv
<1> QED BY <1>6, <1>7, <1>8, <1>10 DEF LibInv, FilesInv

\* What promoting a text makes of a file's row: a text that repeats the one
\* loaded leaves what another save has promoted since under the new number.
LEMMA PromotedRow ==
  ASSUME Types, NEW n \in Names, file[n] \in Row, NEW r \in SaveRequest, r.row \in Row
  PROVE  /\ Promoted(n, r) \in Row
         /\ Accepted(n, r.text) => /\ Promoted(n, r).current = r.next
                                   /\ r.text # r.row.text => Promoted(n, r).text = r.text
                                   /\ r.text = r.row.text => Promoted(n, r).text = file[n].text
         /\ ~ Accepted(n, r.text) => Promoted(n, r) = file[n]
BY DEF Promoted, Row, SaveRequest

\* A version is committed with its promotion.
LEMMA SaveCommitKeeps == ASSUME LibInv, NEW c \in Callers, SaveCommit(c) PROVE LibInv'
<1>1. PICK r \in SaveRequest : r = req[c]
  BY Operations DEF LibInv, SaveCommit
<1>2. PICK n \in Names : n = r.name
  BY DEF SaveRequest
<1>3. UNCHANGED <<runs, receipts, skills>> /\ Done(c) /\ r.op = "save"
  BY <1>1 DEF SaveCommit
<1>4. /\ req' \in [Callers -> {Idle} \cup SaveRequest \cup RunRequest \cup CompileRequest]
      /\ req'[c].op = "none" /\ \A d \in Callers : d # c => req'[d] = req[d]
  BY <1>3, Ending DEF LibInv
<1>5. RunsInv' /\ \A d \in Callers : CompilerInv(d)'
  BY <1>3, <1>4, RunsFrame, SkillsFrame
<1>6. CASE UNCHANGED <<file, versions>>
  <2>1. Types'
    BY <1>3, <1>4, <1>6 DEF LibInv, Types
  <2> QED BY <1>4, <1>5, <1>6, <2>1, FilesFrame DEF LibInv
<1>7. CASE r.next = Len(versions[n]) + 1
  <2> DEFINE version == [text |-> r.text, valid |-> Accepted(n, r.text), loaded |-> r.row]
  <2>1. /\ file' = [file EXCEPT ![n] = Promoted(n, r)]
        /\ versions' = [versions EXCEPT ![n] = Append(versions[n], version)]
    BY <1>1, <1>2, <1>7 DEF SaveCommit
  <2>2. /\ file[n] \in Row /\ r.row \in Row
        /\ r.row.current <= file[n].current
        /\ r.row.current = file[n].current => r.row.text = file[n].text
    BY <1>1, <1>2, <1>3 DEF LibInv, Types, FilesInv, SaverInv, SaveRequest
  <2>3. version \in Version
    BY <2>2 DEF Version, Accepted, SaveRequest
  <2>4. PICK new \in Row : new = Promoted(n, r)
    BY <2>2, PromotedRow DEF LibInv
  <2>5. /\ Accepted(n, r.text) =>
             /\ new.current = r.next
             /\ r.text # r.row.text => new.text = r.text
             /\ r.text = r.row.text => new.text = file[n].text
        /\ ~ Accepted(n, r.text) => new = file[n]
    BY <2>2, <2>4, PromotedRow DEF LibInv
  <2>6. /\ version.text = r.text /\ version.loaded = r.row
        /\ version.valid => Accepted(n, r.text)
        /\ Accepted(n, r.text) => version.valid
    OBVIOUS
  <2> HIDE DEF version
  <2>7. PICK m \in Nat : m = Len(versions[n])
    BY DEF LibInv, Types
  <2>8. /\ Append(versions[n], version) \in Seq(Version)
        /\ DOMAIN Append(versions[n], version) = 1..(m + 1)
        /\ Append(versions[n], version)[m + 1] = version
        /\ DOMAIN versions[n] = 1..m
        /\ \A v \in 1..m : Append(versions[n], version)[v] = versions[n][v]
    BY <2>3, <2>7 DEF LibInv, Types
  <2>9. Types'
    BY <1>3, <1>4, <2>1, <2>4, <2>8 DEF LibInv, Types
  <2>10. /\ file'[n] = new /\ DOMAIN versions'[n] = 1..(m + 1)
         /\ versions'[n][m + 1] = version
         /\ \A v \in 1..m : versions'[n][v] = versions[n][v]
         /\ \A l \in Names : l # n => file'[l] = file[l] /\ versions'[l] = versions[l]
    BY <2>1, <2>4, <2>8 DEF LibInv, Types
  <2>11. /\ file[n] # None /\ FileInv(n) /\ file[n].current \in 1..m
         /\ file[n].current \in Nat /\ r.row.current \in Nat
    BY <2>2, <2>8 DEF LibInv, FilesInv, FileInv, Row
  <2>12. FileInv(n)'
    <3>1. CASE Accepted(n, r.text)
      <4>1. new.current = m + 1 /\ version.valid
        BY <1>7, <2>5, <2>6, <2>7, <3>1
      <4>2. CASE r.text # r.row.text
        <5>1. TextIsCurrent(n)'
          BY <2>5, <2>6, <2>10, <3>1, <4>1, <4>2 DEF TextIsCurrent
        <5> QED BY <2>10, <4>1, <5>1 DEF FileInv
      <4>3. CASE r.text = r.row.text
        <5>1. new.text = file[n].text
          BY <2>5, <3>1, <4>3
        <5>2. CASE file[n].text = r.text
          <6>1. TextIsCurrent(n)'
            BY <2>6, <2>10, <4>1, <5>1, <5>2 DEF TextIsCurrent
          <6> QED BY <2>10, <4>1, <6>1 DEF FileInv
        <5>3. CASE file[n].text # r.text
          <6>1. file[n].current \in (r.row.current + 1)..m
            BY <2>2, <2>11, <4>3, <5>3
          <6>2. versions'[n][file[n].current].valid
            BY <2>10, <2>11 DEF FileInv
          <6>3. version.loaded # None /\ version.loaded.text = version.text
            BY <2>2, <2>6, <4>3
          <6>4. \E v \in (version.loaded.current + 1)..(new.current - 1) : versions'[n][v].valid
            BY <2>6, <4>1, <6>1, <6>2
          <6> QED BY <2>10, <4>1, <6>3, <6>4 DEF FileInv
        <5> QED BY <5>2, <5>3
      <4> QED BY <4>2, <4>3
    <3>2. CASE ~ Accepted(n, r.text)
      <4>1. new = file[n] /\ ~ version.valid
        BY <2>5, <2>6, <3>2
      <4>2. new.current \in 1..m /\ versions'[n][new.current] = versions[n][new.current]
        BY <2>10, <2>11, <4>1
      <4>3. \A v \in 1..(m + 1) : versions'[n][v].valid => v \in 1..m /\ versions[n][v].valid
        BY <2>10, <4>1
      <4>4. /\ versions'[n][new.current].valid
            /\ \A v \in 1..(m + 1) : versions'[n][v].valid => v <= new.current
        BY <2>8, <2>11, <4>1, <4>2, <4>3 DEF FileInv
      <4>5. CASE TextIsCurrent(n)
        BY <2>10, <4>1, <4>2, <4>4, <4>5 DEF FileInv, TextIsCurrent
      <4>6. CASE ~ TextIsCurrent(n)
        <5>1. PICK q \in Version : q = versions[n][new.current]
          BY <2>8, <4>2 DEF LibInv, Types
        <5>2. /\ q.loaded # None /\ q.loaded.text = q.text
              /\ \E v \in (q.loaded.current + 1)..(new.current - 1) : versions[n][v].valid
          BY <2>11, <4>1, <4>6, <5>1 DEF FileInv
        <5>3. q.loaded.current \in Nat
          BY <5>2 DEF Version, Row
        <5>4. \E v \in (q.loaded.current + 1)..(new.current - 1) : versions'[n][v].valid
          <6>1. PICK v \in (q.loaded.current + 1)..(new.current - 1) : versions[n][v].valid
            BY <5>2
          <6>2. v \in 1..m
            BY <4>2, <5>3, <6>1
          <6> QED BY <2>10, <6>1, <6>2
        <5> QED BY <2>10, <4>2, <4>4, <5>1, <5>2, <5>4 DEF FileInv
      <4> QED BY <4>5, <4>6
    <3> QED BY <3>1, <3>2
  <2>13. \A l \in Names : FileInv(l)'
    BY <2>10, <2>12 DEF LibInv, FilesInv, FileInv, TextIsCurrent
  <2>14. /\ new # None /\ file[n].current <= new.current
         /\ new.current = file[n].current => new.text = file[n].text
    BY <1>7, <2>4, <2>5, <2>7, <2>11
  <2>15. \A d \in Callers : SaverInv(d)'
    <3> SUFFICES ASSUME NEW d \in Callers, req'[d].op \in {"number", "save"}, d # c
                 PROVE  SaverInv(d)'
      BY <1>4 DEF SaverInv
    <3>1. SaverInv(d) /\ req'[d] = req[d] /\ req[d] \in SaveRequest
      BY <1>4, Operations DEF LibInv, FilesInv
    <3>2. CASE req[d].name = n
      <4>1. PICK row \in Row : row = req[d].row
        BY <1>4, <3>1 DEF SaverInv, SaveRequest
      <4>2. row.current \in Nat /\ new.current \in Nat
        BY DEF Row
      <4>3. row.current <= file[n].current /\ (row.current = file[n].current => row.text = file[n].text)
        BY <3>1, <3>2, <4>1 DEF SaverInv
      <4>4. row.current <= new.current /\ (row.current = new.current => row.text = new.text)
        BY <2>11, <2>14, <4>2, <4>3
      <4> QED BY <2>10, <2>14, <3>1, <3>2, <4>1, <4>4 DEF SaverInv
    <3>3. CASE req[d].name # n
      BY <2>10, <3>1, <3>3 DEF SaverInv, SaveRequest
    <3> QED BY <3>2, <3>3
  <2> QED BY <1>5, <2>9, <2>13, <2>15 DEF LibInv, FilesInv
<1> QED BY <1>1, <1>2, <1>6, <1>7 DEF SaveCommit

-----------------------------------------------------------------------------
(* Running.                                                                *)

\* What a step of a run may write to its row and to the receipts, so that the
\* other runs do not notice.
LEMMA RunStep ==
  ASSUME LibInv, NEW c \in Callers, NEW r \in DOMAIN runs, req[c].op = "run", req[c].run = r,
         NEW q \in Run, q.text = runs[r].text, runs' = [runs EXCEPT ![r] = q],
         receipts \subseteq receipts',
         \A p \in receipts' : p \in receipts \/ (p.run = r /\ ReceiptInv(p)'),
         \A d \in Callers : d # c => req'[d] = req[d],
         req'[c].op = "run" => req'[c].run = r,
         RunInv(r)', RunnerInv(c)'
  PROVE  RunsInv'
<1>1. /\ DOMAIN runs' = DOMAIN runs /\ runs'[r] = q
      /\ \A s \in DOMAIN runs : s # r => runs'[s] = runs[s]
      /\ \A s \in DOMAIN runs : runs'[s].text = runs[s].text
  BY DEF LibInv, Types
<1>2. \A s \in DOMAIN runs : StepsOf(s)' = StepsOf(s)
  BY <1>1 DEF StepsOf
<1>3. \A s \in DOMAIN runs : s # r => Unreceipted(s)' \subseteq Unreceipted(s)
  BY <1>1 DEF Unreceipted
<1>4. ASSUME NEW s \in DOMAIN runs', s # r PROVE RunInv(s)'
  <2>1. RunInv(s) /\ runs'[s] = runs[s]
    BY <1>1, <1>4 DEF LibInv, RunsInv
  <2> QED BY <1>1, <1>2, <1>3, <1>4, <2>1 DEF RunInv
<1>5. ASSUME NEW p \in receipts' PROVE ReceiptInv(p)'
  <2>1. CASE p \in receipts
    <3>1. ReceiptInv(p)
      BY <2>1 DEF LibInv, RunsInv
    <3> QED BY <1>1, <1>2, <3>1 DEF ReceiptInv
  <2> QED BY <2>1
<1>6. ASSUME NEW d \in Callers, d # c PROVE RunnerInv(d)'
  <2> SUFFICES ASSUME req[d].op = "run" PROVE RunnerInv(d)'
    BY <1>6 DEF RunnerInv
  <2>1. RunnerInv(d) /\ req'[d] = req[d] /\ req[d].run # r
    BY <1>6 DEF LibInv, RunsInv, RunsApart
  <2>2. PICK s \in DOMAIN runs : s = req[d].run
    BY <2>1 DEF RunnerInv
  <2>3. runs'[s] = runs[s] /\ StepsOf(s)' = StepsOf(s) /\ Unreceipted(s)' \subseteq Unreceipted(s)
    BY <1>1, <1>2, <1>3, <2>1, <2>2
  <2>4. req'[d].run = s /\ req'[d].op = "run"
    BY <2>1, <2>2
  <2> QED BY <1>1, <2>1, <2>2, <2>3, <2>4 DEF RunnerInv
<1>7. RunsApart'
  BY DEF LibInv, RunsInv, RunsApart
<1> QED BY <1>4, <1>5, <1>6, <1>7 DEF RunsInv

\* A request that runs a file, and its run.
LEMMA RunnerFacts ==
  ASSUME LibInv, NEW c \in Callers, Running(c)
  PROVE  /\ req[c] \in RunRequest /\ req[c].op = "run"
         /\ req[c].run \in DOMAIN runs /\ runs[req[c].run] \in Run
         /\ runs[req[c].run].asked = {}
         /\ runs[req[c].run].status = "running"
<1>1. req[c] \in RunRequest /\ req[c].op = "run"
  BY Operations DEF LibInv, Running
<1>2. req[c].run \in DOMAIN runs /\ runs[req[c].run].status = "running"
  BY <1>1 DEF LibInv, RunsInv, RunnerInv
<1>3. runs[req[c].run] \in Run
  BY <1>2 DEF LibInv, Types
<1>4. runs[req[c].run].asked = {}
  BY <1>2 DEF LibInv, RunsInv, RunInv
<1> QED BY <1>1, <1>2, <1>3, <1>4

\* A run may end at any time; it ends well only with its receipts.
LEMMA EndRunKeeps ==
  ASSUME LibInv, NEW c \in Callers, Running(c), NEW status \in {"failed", "success", "raised"},
         EndRun(c, status), UNCHANGED <<receipts, file, versions, skills>>,
         status = "success" /\ DistinctIds(runs[req[c].run].text) => Unreceipted(req[c].run) = {}
  PROVE  LibInv'
<1>1. PICK r \in DOMAIN runs : r = req[c].run
  BY RunnerFacts
<1>2. /\ runs[r] \in Run /\ runs[r].asked = {} /\ runs[r].status = "running"
      /\ req[c].op = "run" /\ RunInv(r)
  BY <1>1, RunnerFacts DEF LibInv, RunsInv
<1> DEFINE q == [runs[r] EXCEPT !.status = status]
<1>3. PICK k \in Run : k = q
  BY <1>2 DEF Run
<1>4. /\ k.text = runs[r].text /\ k.done = runs[r].done /\ k.asked = {}
      /\ k.status = status
  BY <1>2, <1>3 DEF Run
<1>5. runs' = [runs EXCEPT ![r] = k] /\ Done(c)
  BY <1>1, <1>3 DEF EndRun
<1> HIDE DEF q
<1>6. /\ req' \in [Callers -> {Idle} \cup SaveRequest \cup RunRequest \cup CompileRequest]
      /\ req'[c].op = "none" /\ \A d \in Callers : d # c => req'[d] = req[d]
  BY <1>5, Ending DEF LibInv
<1>7. Types'
  <2>1. runs' \in Seq(Run)
    BY <1>5, ExceptSeq DEF LibInv, Types
  <2> QED BY <1>6, <2>1 DEF LibInv, Types
<1>8. runs'[r] = k /\ StepsOf(r)' = StepsOf(r) /\ Unreceipted(r)' = Unreceipted(r)
  BY <1>4, <1>5 DEF LibInv, Types, StepsOf, Unreceipted
<1>9. RunInv(r)'
  BY <1>1, <1>2, <1>4, <1>8 DEF RunInv
<1>10. RunnerInv(c)'
  BY <1>6 DEF RunnerInv
<1>11. RunsInv'
  <2>1. \A p \in receipts' : p \in receipts
    OBVIOUS
  <2> QED BY <1>1, <1>2, <1>4, <1>5, <1>6, <1>9, <1>10, <2>1, RunStep
<1> QED BY <1>6, <1>7, <1>11, FilesFrame, SkillsFrame DEF LibInv

\* A run begins with nothing done.
LEMMA RunBeginKeeps ==
  ASSUME LibInv, NEW c \in Callers, NEW n \in Names, RunBegin(c, n) PROVE LibInv'
<1> DEFINE q == [text |-> file[n].text, name |-> n, status |-> "running", done |-> {}, asked |-> {}]
<1>1. PICK k \in Nat : k = Len(runs) /\ DOMAIN runs = 1..k
  <2>1. Len(runs) \in Nat /\ DOMAIN runs = 1..Len(runs)
    BY DEF LibInv, Types
  <2> QED BY <2>1
<1>2. PICK x \in RunRequest : x = [op |-> "run", run |-> k + 1, at |-> 1, half |-> FALSE]
  <2>1. [op |-> "run", run |-> k + 1, at |-> 1, half |-> FALSE] \in RunRequest
    BY DEF RunRequest
  <2> QED BY <2>1
<1>3. /\ UNCHANGED <<file, versions, receipts, skills>> /\ runs' = Append(runs, q)
      /\ Served(c, x) /\ file[n] # None
  BY <1>1, <1>2 DEF RunBegin
<1>4. q \in Run /\ q.done = {} /\ q.asked = {} /\ q.status = "running"
  BY <1>3 DEF LibInv, Types, Row, Run
<1> HIDE DEF q
<1>5. /\ runs' \in Seq(Run) /\ DOMAIN runs' = 1..(k + 1) /\ runs'[k + 1] = q
      /\ \A s \in 1..k : runs'[s] = runs[s]
  BY <1>1, <1>3, <1>4 DEF LibInv, Types
<1>6. /\ req' \in [Callers -> {Idle} \cup SaveRequest \cup RunRequest \cup CompileRequest]
      /\ req'[c] = x /\ \A d \in Callers : d # c => req'[d] = req[d]
  BY <1>3, Serving DEF LibInv
<1>7. Types'
  BY <1>3, <1>5, <1>6 DEF LibInv, Types
<1>8. \A s \in 1..k : StepsOf(s)' = StepsOf(s) /\ Unreceipted(s)' = Unreceipted(s)
  BY <1>3, <1>5 DEF StepsOf, Unreceipted
<1>9. \A s \in DOMAIN runs' : RunInv(s)'
  <2>1. Unreceipted(k + 1)' = {}
    BY <1>4, <1>5 DEF Unreceipted
  <2>2. RunInv(k + 1)'
    BY <1>4, <1>5, <2>1 DEF RunInv
  <2>3. ASSUME NEW s \in 1..k PROVE RunInv(s)'
    BY <1>1, <1>5, <1>8 DEF LibInv, RunsInv, RunInv
  <2>4. DOMAIN runs' = 1..k \cup {k + 1}
    BY <1>5
  <2> QED BY <2>2, <2>3, <2>4
<1>10. \A p \in receipts' : ReceiptInv(p)'
  BY <1>1, <1>3, <1>5, <1>8 DEF LibInv, RunsInv, ReceiptInv
<1>11. RunnerInv(c)'
  <2>1. Unreceipted(k + 1)' = {}
    BY <1>4, <1>5 DEF Unreceipted
  <2>2. req'[c].op = "run" /\ req'[c].run = k + 1 /\ req'[c].at = 1 /\ req'[c].half = FALSE
    BY <1>2, <1>6
  <2> QED BY <1>4, <1>5, <2>1, <2>2 DEF RunnerInv
<1>12. ASSUME NEW d \in Callers, d # c PROVE RunnerInv(d)'
  <2> SUFFICES ASSUME req[d].op = "run" PROVE RunnerInv(d)'
    BY <1>6, <1>12 DEF RunnerInv
  <2>1. RunnerInv(d) /\ req'[d] = req[d]
    BY <1>6, <1>12 DEF LibInv, RunsInv
  <2>2. PICK s \in 1..k : s = req[d].run
    BY <1>1, <2>1 DEF RunnerInv
  <2> QED BY <1>5, <1>8, <2>1, <2>2 DEF RunnerInv
<1>13. RunsApart'
  <2>1. \A d \in Callers : req[d].op = "run" => req[d].run \in 1..k
    BY <1>1 DEF LibInv, RunsInv, RunnerInv
  <2> QED BY <1>2, <1>6, <2>1 DEF LibInv, RunsInv, RunsApart
<1>14. RunsInv'
  BY <1>9, <1>10, <1>11, <1>12, <1>13 DEF RunsInv
<1> QED BY <1>2, <1>3, <1>6, <1>7, <1>14, FilesFrame, SkillsFrame DEF LibInv

\* The request c runs r and is at this step of it.
Standing(c, r, at, half) ==
  /\ req[c] \in RunRequest
  /\ req[c].run = r /\ req[c].at = at /\ req[c].half = half /\ req[c].op = "run"
  /\ At(c) = StepsOf(r)[at]
  /\ runs[r] \in Run /\ runs[r].asked = {} /\ runs[r].status = "running" /\ runs[r].done \subseteq Nat
  /\ Len(StepsOf(r)) \in Nat /\ DOMAIN StepsOf(r) = 1..Len(StepsOf(r)) /\ StepsOf(r) \in Seq(Step)
  /\ Going(c) => at \in DOMAIN StepsOf(r)

\* Where a request is that runs a file.
LEMMA StepFacts ==
  ASSUME LibInv, NEW c \in Callers, Running(c)
  PROVE  \E r \in DOMAIN runs, at \in Nat \ {0}, half \in BOOLEAN : Standing(c, r, at, half)
<1>1. PICK r \in DOMAIN runs : r = req[c].run
  BY RunnerFacts
<1>2. /\ req[c] \in RunRequest /\ req[c].op = "run"
      /\ runs[r] \in Run /\ runs[r].asked = {} /\ runs[r].status = "running"
  BY <1>1, RunnerFacts
<1>3. PICK at \in Nat \ {0} : at = req[c].at
  BY <1>2 DEF LibInv, RunsInv, RunnerInv, RunRequest
<1>4. PICK half \in BOOLEAN : half = req[c].half
  BY <1>2 DEF RunRequest
<1>6. StepsOf(r) \in Seq(Step)
  BY <1>2 DEF StepsOf, Run
<1>7. Len(StepsOf(r)) \in Nat /\ DOMAIN StepsOf(r) = 1..Len(StepsOf(r))
  BY <1>6
<1>8. Going(c) => at \in DOMAIN StepsOf(r)
  BY <1>1, <1>3, <1>7 DEF Going
<1>9. runs[r].done \subseteq Nat
  BY <1>2 DEF Run
<1> QED BY <1>1, <1>2, <1>3, <1>4, <1>6, <1>7, <1>8, <1>9 DEF At, Standing

\* A request that moves on within its run, and a run in which more is done.
LEMMA HalfDone ==
  ASSUME NEW q \in RunRequest
  PROVE  \E x \in RunRequest : /\ x = [q EXCEPT !.half = TRUE]
                               /\ x.half /\ x.run = q.run /\ x.at = q.at /\ x.op = "run"
<1>1. [q EXCEPT !.half = TRUE] \in RunRequest
  BY DEF RunRequest
<1>2. PICK x \in RunRequest : x = [q EXCEPT !.half = TRUE]
  BY <1>1
<1>3. x.half /\ x.run = q.run /\ x.at = q.at /\ x.op = "run"
  BY <1>2 DEF RunRequest
<1> QED BY <1>2, <1>3

\* It goes on to a later step ...
LEMMA Onward ==
  ASSUME NEW q \in RunRequest, NEW n \in Nat
  PROVE  \E x \in RunRequest : /\ x = [q EXCEPT !.half = FALSE, !.at = n]
                               /\ ~ x.half /\ x.run = q.run /\ x.at = n /\ x.op = "run"
<1>1. [q EXCEPT !.half = FALSE, !.at = n] \in RunRequest
  BY DEF RunRequest
<1>2. PICK x \in RunRequest : x = [q EXCEPT !.half = FALSE, !.at = n]
  BY <1>1
<1>3. ~ x.half /\ x.run = q.run /\ x.at = n /\ x.op = "run"
  BY <1>2 DEF RunRequest
<1> QED BY <1>2, <1>3

\* ... or past a step that is done already.
LEMMA Skipped ==
  ASSUME NEW q \in RunRequest, NEW n \in Nat
  PROVE  \E x \in RunRequest : /\ x = [q EXCEPT !.at = n]
                               /\ x.half = q.half /\ x.run = q.run /\ x.at = n /\ x.op = "run"
<1>1. [q EXCEPT !.at = n] \in RunRequest
  BY DEF RunRequest
<1>2. PICK x \in RunRequest : x = [q EXCEPT !.at = n]
  BY <1>1
<1>3. x.half = q.half /\ x.run = q.run /\ x.at = n /\ x.op = "run"
  BY <1>2 DEF RunRequest
<1> QED BY <1>2, <1>3

\* One more step of a run is done.
LEMMA MoreDone ==
  ASSUME NEW w \in Run, NEW at \in Nat
  PROVE  \E q \in Run : /\ q = [w EXCEPT !.done = w.done \cup {at}]
                        /\ q.text = w.text /\ q.done = w.done \cup {at}
                        /\ q.asked = w.asked /\ q.status = w.status
<1>1. [w EXCEPT !.done = w.done \cup {at}] \in Run
  BY DEF Run
<1>2. PICK q \in Run : q = [w EXCEPT !.done = w.done \cup {at}]
  BY <1>1
<1>3. q.text = w.text /\ q.done = w.done \cup {at} /\ q.asked = w.asked /\ q.status = w.status
  BY <1>2 DEF Run
<1> QED BY <1>2, <1>3

\* A run that goes on, with more done and perhaps one more receipt.
LEMMA StepGoesOn ==
  ASSUME LibInv, NEW c \in Callers, NEW r \in DOMAIN runs, req[c].run = r, req[c].op = "run",
         NEW q \in Run, q.text = runs[r].text, runs' = [runs EXCEPT ![r] = q],
         NEW x \in {Idle} \cup RunRequest, x.op = "run" => x.run = r, Served(c, x),
         receipts \subseteq receipts', receipts' \subseteq Receipt,
         \A p \in receipts' : p \in receipts \/ (p.run = r /\ ReceiptInv(p)'),
         UNCHANGED <<file, versions, skills>>, RunInv(r)', RunnerInv(c)'
  PROVE  LibInv'
<1>1. /\ req' \in [Callers -> {Idle} \cup SaveRequest \cup RunRequest \cup CompileRequest]
      /\ req'[c] = x /\ \A d \in Callers : d # c => req'[d] = req[d]
  BY Serving DEF LibInv
<1>2. x.op \in {"none", "run"}
  BY DEF Idle, RunRequest
<1>3. Types'
  <2>1. runs' \in Seq(Run)
    BY ExceptSeq DEF LibInv, Types
  <2> QED BY <1>1, <2>1 DEF LibInv, Types
<1>4. RunsInv'
  BY <1>1, <1>2, RunStep
<1> QED BY <1>1, <1>2, <1>3, <1>4, FilesFrame, SkillsFrame DEF LibInv

\* The work of a step, before its receipt.
LEMMA StepWorkKeeps == ASSUME LibInv, NEW c \in Callers, StepWork(c) PROVE LibInv'
<1>1. CASE EndRun(c, "failed")
  BY <1>1, EndRunKeeps DEF StepWork, Going
<1>2. CASE ~ EndRun(c, "failed")
  <2>1. PICK r \in DOMAIN runs, at \in Nat \ {0}, half \in BOOLEAN : Standing(c, r, at, half)
    BY StepFacts DEF StepWork, Going
  <2>2. PICK q \in Run : /\ q = [runs[r] EXCEPT !.done = runs[r].done \cup {at}]
                         /\ q.text = runs[r].text /\ q.done = runs[r].done \cup {at}
                         /\ q.asked = runs[r].asked /\ q.status = runs[r].status
    BY <2>1, MoreDone DEF Standing
  <2>3. q.asked = {} /\ q.status = "running"
    BY <2>1, <2>2 DEF Standing
  <2>4. PICK x \in RunRequest : /\ x = [req[c] EXCEPT !.half = TRUE]
                                /\ x.half /\ x.run = r /\ x.at = at /\ x.op = "run"
    BY <2>1, HalfDone DEF Standing
  <2>5. runs' = [runs EXCEPT ![r] = q] /\ Served(c, x)
    <3>1. runs' = [runs EXCEPT ![r] = [runs[r] EXCEPT !.done = runs[r].done \cup {at}]]
      BY <1>2, <2>1 DEF StepWork, Standing
    <3> QED BY <1>2, <2>2, <2>4, <3>1 DEF StepWork
  <2>6. /\ UNCHANGED <<file, versions, receipts, skills>> /\ Going(c) /\ ~ half
        /\ StepsOf(r)[at].type \in {"fetch_entity", "write_entity"}
    BY <2>1 DEF StepWork, Standing
  <2>7. /\ runs'[r] = q /\ StepsOf(r)' = StepsOf(r) /\ req'[c] = x
        /\ Unreceipted(r)' \subseteq Unreceipted(r) \cup {at}
    BY <2>2, <2>5, <2>6, Serving DEF LibInv, Types, StepsOf, Unreceipted
  <2>8. /\ \A i \in runs[r].done : i < at
        /\ DistinctIds(runs[r].text) => Unreceipted(r) = {}
        /\ RunInv(r)
    BY <2>1, <2>6 DEF LibInv, RunsInv, RunnerInv, Standing
  <2>9. RunInv(r)'
    BY <2>1, <2>2, <2>3, <2>6, <2>7, <2>8 DEF RunInv, Standing
  <2>10. RunnerInv(c)'
    <3>1. \A i \in q.done : i < at \/ i = at
      BY <2>2, <2>8
    <3>2. DistinctIds(q.text) => \A i \in Unreceipted(r)' : i = at
      BY <2>2, <2>7, <2>8
    <3>3. at <= Len(StepsOf(r))
      BY <2>1, <2>6 DEF Standing
    <3>4. r \in DOMAIN runs' /\ at >= 1
      BY <2>5
    <3> QED BY <2>3, <2>4, <2>6, <2>7, <3>1, <3>2, <3>3, <3>4 DEF RunnerInv
  <2> QED BY <2>1, <2>2, <2>4, <2>5, <2>6, <2>9, <2>10, StepGoesOn DEF LibInv, Types, Standing
<1> QED BY <1>1, <1>2

\* A step's receipt, unless its id has one already.
LEMMA StepReceiptKeeps == ASSUME LibInv, NEW c \in Callers, StepReceipt(c) PROVE LibInv'
<1>1. CASE EndRun(c, "failed") /\ UNCHANGED receipts
  BY <1>1, EndRunKeeps DEF StepReceipt, Going
<1>2. CASE ~ (EndRun(c, "failed") /\ UNCHANGED receipts)
  <2>1. PICK r \in DOMAIN runs, at \in Nat \ {0}, half \in BOOLEAN : Standing(c, r, at, half)
    BY StepFacts DEF StepReceipt, Going
  <2>2. PICK q \in Run : /\ q = [runs[r] EXCEPT !.done = runs[r].done \cup {at}]
                         /\ q.text = runs[r].text /\ q.done = runs[r].done \cup {at}
                         /\ q.asked = runs[r].asked /\ q.status = runs[r].status
    BY <2>1, MoreDone DEF Standing
  <2>3. q.asked = {} /\ q.status = "running"
    BY <2>1, <2>2 DEF Standing
  <2>4. PICK x \in RunRequest : /\ x = [req[c] EXCEPT !.half = FALSE, !.at = at + 1]
                                /\ ~ x.half /\ x.run = r /\ x.at = at + 1 /\ x.op = "run"
    <3>1. PICK y \in RunRequest : y = req[c] /\ y.run = r
      BY <2>1 DEF Standing
    <3>2. PICK n \in Nat : n = at + 1
      BY <2>1
    <3>3. PICK x \in RunRequest : /\ x = [y EXCEPT !.half = FALSE, !.at = n]
                                  /\ ~ x.half /\ x.run = y.run /\ x.at = n /\ x.op = "run"
      BY Onward
    <3> QED BY <3>1, <3>2, <3>3
  <2>5. runs' = [runs EXCEPT ![r] = q] /\ Served(c, x)
    <3>1. runs' = [runs EXCEPT ![r] = [runs[r] EXCEPT !.done = runs[r].done \cup {at}]]
      BY <1>2, <2>1 DEF StepReceipt, Standing
    <3>2. Served(c, [req[c] EXCEPT !.half = FALSE, !.at = req[c].at + 1])
      BY <1>2, <2>1 DEF StepReceipt
    <3> QED BY <2>1, <2>2, <2>4, <3>1, <3>2 DEF Standing
  <2>6. PICK id \in STRING : id = StepsOf(r)[at].id
    <3>1. StepsOf(r)[at] \in Step
      BY <2>1 DEF StepReceipt, Standing
    <3> QED BY <3>1 DEF Step
  <2>7. PICK new \in Receipt : new = [run |-> r, id |-> id, step |-> at]
    <3>1. [run |-> r, id |-> id, step |-> at] \in Receipt
      BY DEF Receipt, LibInv, Types
    <3> QED BY <3>1
  <2>8. new.run = r /\ new.id = id /\ new.step = at
    BY <2>7
  <2>9. /\ UNCHANGED <<file, versions, skills>> /\ Going(c) /\ at \in DOMAIN StepsOf(r)
        /\ receipts' = IF \E p \in receipts : p.run = r /\ p.id = id
                       THEN receipts ELSE receipts \cup {new}
    BY <1>2, <2>1, <2>6, <2>7 DEF StepReceipt, Standing
  <2>10. /\ runs'[r] = q /\ DOMAIN runs' = DOMAIN runs /\ StepsOf(r)' = StepsOf(r) /\ req'[c] = x
         /\ receipts \subseteq receipts' /\ receipts' \subseteq Receipt
    BY <2>2, <2>5, <2>9, Serving DEF LibInv, Types, StepsOf
  <2>11. /\ \A i \in runs[r].done : i < at \/ i = at
         /\ DistinctIds(runs[r].text) => \A i \in Unreceipted(r) : i = at
         /\ RunInv(r) /\ \A p \in receipts : ReceiptInv(p)
    BY <2>1 DEF LibInv, RunsInv, RunnerInv, Standing
  <2>12. ASSUME DistinctIds(runs[r].text) PROVE Unreceipted(r)' = {}
    <3>1. ASSUME NEW i \in q.done PROVE \E p \in receipts' : p.run = r /\ p.step = i
      <4>1. CASE i # at
        BY <2>2, <2>10, <2>11, <2>12, <3>1, <4>1 DEF Unreceipted
      <4>2. CASE i = at
        <5>1. CASE \E p \in receipts : p.run = r /\ p.id = id
          <6>1. PICK p \in receipts : p.run = r /\ p.id = id
            BY <5>1
          <6>2. p.step \in DOMAIN StepsOf(r) /\ StepsOf(r)[p.step].id = StepsOf(r)[at].id
            BY <2>6, <2>11, <6>1 DEF ReceiptInv
          <6>3. p.step = at
            BY <2>9, <2>12, <6>2 DEF DistinctIds, IsInjective, StepsOf
          <6> QED BY <2>10, <4>2, <6>1, <6>3
        <5>2. CASE ~ \E p \in receipts : p.run = r /\ p.id = id
          BY <2>8, <2>9, <4>2, <5>2
        <5> QED BY <5>1, <5>2
      <4> QED BY <4>1, <4>2
    <3> QED BY <2>10, <3>1 DEF Unreceipted
  <2>13. RunInv(r)'
    BY <2>2, <2>3, <2>9, <2>10, <2>11, <2>12 DEF RunInv
  <2>14. RunnerInv(c)'
    <3>1. \A i \in q.done : i < at + 1
      BY <2>1, <2>2, <2>11 DEF Standing
    <3>2. DistinctIds(q.text) => Unreceipted(r)' = {}
      BY <2>2, <2>12
    <3>3. at + 1 >= 1
      OBVIOUS
    <3> QED BY <2>3, <2>4, <2>10, <3>1, <3>2, <3>3 DEF RunnerInv
  <2>15. \A p \in receipts' : p \in receipts \/ (p.run = r /\ ReceiptInv(p)')
    <3>1. ReceiptInv(new)'
      BY <2>6, <2>8, <2>9, <2>10 DEF ReceiptInv
    <3> QED BY <2>8, <2>9, <3>1
  <2>16. req[c].run = r /\ req[c].op = "run"
    BY <2>1 DEF Standing
  <2> QED BY <2>2, <2>4, <2>5, <2>9, <2>10, <2>13, <2>14, <2>15, <2>16, StepGoesOn
<1> QED BY <1>1, <1>2

\* A request whose next step needs no half keeps its run as it is.
LEMMA NotHalf ==
  ASSUME LibInv, NEW c \in Callers, NEW r \in DOMAIN runs, NEW at \in Nat \ {0}, NEW half \in BOOLEAN,
         Standing(c, r, at, half), ~ half
  PROVE  /\ \A i \in runs[r].done : i < at
         /\ DistinctIds(runs[r].text) => Unreceipted(r) = {}
         /\ RunInv(r)
BY DEF LibInv, RunsInv, RunnerInv, Standing

\* A condition passes over the steps it guards, or does not.
LEMMA StepIfKeeps == ASSUME LibInv, NEW c \in Callers, StepIf(c) PROVE LibInv'
<1>1. CASE EndRun(c, "failed")
  BY <1>1, EndRunKeeps DEF StepIf, Going
<1>2. CASE ~ EndRun(c, "failed")
  <2>1. PICK r \in DOMAIN runs, at \in Nat \ {0}, half \in BOOLEAN : Standing(c, r, at, half)
    BY StepFacts DEF StepIf, Going
  <2>2. /\ UNCHANGED <<file, versions, skills, receipts, runs>> /\ at \in DOMAIN StepsOf(r)
        /\ StepsOf(r)[at].type = "if_then" /\ StepsOf(r)[at].guards \in Nat
        /\ Served(c, [req[c] EXCEPT !.at = at + 1])
           \/ Served(c, [req[c] EXCEPT !.at = at + 1 + StepsOf(r)[at].guards])
    <3>1. req[c].at = at /\ At(c) = StepsOf(r)[at] /\ at \in DOMAIN StepsOf(r)
      BY <2>1 DEF StepIf, Standing
    <3>2. StepsOf(r)[at] \in Step
      BY <2>1, <3>1 DEF Standing
    <3>3. StepsOf(r)[at].guards \in Nat
      BY <3>2 DEF Step
    <3> QED BY <1>2, <3>1, <3>3 DEF StepIf
  <2>3. PICK n \in Nat : n > at /\ Served(c, [req[c] EXCEPT !.at = n])
    <3>1. at + 1 \in Nat /\ at + 1 > at
      OBVIOUS
    <3>2. at + 1 + StepsOf(r)[at].guards \in Nat /\ at + 1 + StepsOf(r)[at].guards > at
      BY <2>2
    <3> QED BY <2>2, <3>1, <3>2
  <2>4. PICK x \in RunRequest : /\ x = [req[c] EXCEPT !.at = n]
                                /\ x.half = req[c].half /\ x.run = r /\ x.at = n /\ x.op = "run"
    BY <2>1, Skipped DEF Standing
  <2>5. ~ half /\ ~ x.half
    BY <2>1, <2>2, <2>4 DEF LibInv, RunsInv, RunnerInv, Standing
  <2>6. /\ \A i \in runs[r].done : i < at
        /\ DistinctIds(runs[r].text) => Unreceipted(r) = {}
        /\ RunInv(r)
    BY <2>1, <2>5, NotHalf
  <2>7. RunInv(r)' /\ Unreceipted(r)' = Unreceipted(r) /\ StepsOf(r)' = StepsOf(r)
    BY <2>2, <2>6 DEF RunInv, StepsOf, Unreceipted
  <2>8. req'[c] = x
    BY <2>3, <2>4, Serving DEF LibInv
  <2>9. RunnerInv(c)'
    <3>1. \A i \in runs[r].done : i < n
      BY <2>1, <2>3, <2>6 DEF Standing
    <3>2. runs' = runs /\ runs[r].status = "running" /\ n >= 1
      BY <2>1, <2>2, <2>3 DEF Standing
    <3> QED BY <2>4, <2>5, <2>6, <2>7, <2>8, <3>1, <3>2 DEF RunnerInv
  <2>10. /\ req[c].run = r /\ req[c].op = "run" /\ runs[r] \in Run
         /\ runs' = [runs EXCEPT ![r] = runs[r]]
         /\ receipts \subseteq receipts' /\ receipts' \subseteq Receipt
         /\ \A p \in receipts' : p \in receipts
    BY <2>1, <2>2 DEF Standing, LibInv, Types
  <2> QED BY <2>2, <2>3, <2>4, <2>7, <2>9, <2>10, StepGoesOn
<1> QED BY <1>1, <1>2

\* An approval is asked for, and the run is over.
LEMMA StepApprovalKeeps == ASSUME LibInv, NEW c \in Callers, StepApproval(c) PROVE LibInv'
<1>1. CASE EndRun(c, "failed")
  BY <1>1, EndRunKeeps DEF StepApproval, Going
<1>2. CASE ~ EndRun(c, "failed")
  <2>1. PICK r \in DOMAIN runs, at \in Nat \ {0}, half \in BOOLEAN : Standing(c, r, at, half)
    BY StepFacts DEF StepApproval, Going
  <2>2. PICK q \in Run :
          q = [runs[r] EXCEPT !.asked = runs[r].asked \cup {at}, !.status = "paused"]
    <3>1. [runs[r] EXCEPT !.asked = runs[r].asked \cup {at}, !.status = "paused"] \in Run
      BY <2>1 DEF Run, Standing
    <3> QED BY <3>1
  <2>3. /\ q.text = runs[r].text /\ q.done = runs[r].done /\ q.asked = {at}
        /\ q.status = "paused"
    BY <2>1, <2>2 DEF Run, Standing
  <2>4. /\ UNCHANGED <<file, versions, skills, receipts>> /\ at \in DOMAIN StepsOf(r)
        /\ StepsOf(r)[at].type = "require_approval" /\ Done(c)
    BY <1>2, <2>1 DEF StepApproval, Standing
  <2>5. runs' = [runs EXCEPT ![r] = q]
    <3>1. runs' = [runs EXCEPT ![r] =
                     [runs[r] EXCEPT !.asked = runs[r].asked \cup {at}, !.status = "paused"]]
      BY <1>2, <2>1 DEF StepApproval, Standing
    <3> QED BY <2>2, <3>1
  <2>6. ~ half
    BY <2>1, <2>4 DEF LibInv, RunsInv, RunnerInv, Standing
  <2>7. /\ \A i \in runs[r].done : i < at
        /\ DistinctIds(runs[r].text) => Unreceipted(r) = {}
        /\ RunInv(r)
    BY <2>1, <2>6, NotHalf
  <2>8. /\ runs'[r] = q /\ StepsOf(r)' = StepsOf(r) /\ Unreceipted(r)' = Unreceipted(r)
        /\ req'[c] = Idle
    BY <2>3, <2>4, <2>5, Ending DEF LibInv, Types, StepsOf, Unreceipted
  <2>9. RunInv(r)'
    <3>1. \A i \in q.done \cup {at} : i <= at
      BY <2>1, <2>3, <2>7 DEF Standing
    <3> QED BY <2>3, <2>4, <2>7, <2>8, <3>1 DEF RunInv
  <2>10. RunnerInv(c)'
    BY <2>8 DEF RunnerInv, Idle
  <2>11. /\ req[c].run = r /\ req[c].op = "run" /\ Served(c, Idle) /\ Idle.op # "run"
         /\ receipts \subseteq receipts' /\ receipts' \subseteq Receipt
         /\ \A p \in receipts' : p \in receipts
    BY <2>1, <2>4 DEF Standing, LibInv, Types, Done, Idle
  <2> QED BY <2>3, <2>4, <2>5, <2>9, <2>10, <2>11, StepGoesOn
<1> QED BY <1>1, <1>2

\* A run that has come to its end.
LEMMA RunEndKeeps == ASSUME LibInv, NEW c \in Callers, RunEnd(c) PROVE LibInv'
<1>1. PICK r \in DOMAIN runs, at \in Nat \ {0}, half \in BOOLEAN : Standing(c, r, at, half)
  BY StepFacts DEF RunEnd
<1>2. ~ half
  BY <1>1 DEF LibInv, RunsInv, RunnerInv, RunEnd, Going, Standing
<1>3. DistinctIds(runs[r].text) => Unreceipted(r) = {}
  BY <1>1, <1>2, NotHalf
<1> QED BY <1>1, <1>3, EndRunKeeps DEF RunEnd, Standing

\* A request is cut off.
LEMMA AbortKeeps == ASSUME LibInv, NEW c \in Callers, Abort(c) PROVE LibInv'
<1>1. CASE Running(c)
  BY <1>1, EndRunKeeps DEF Abort
<1>2. CASE ~ Running(c)
  <2>1. UNCHANGED <<file, versions, runs, receipts, skills>> /\ Done(c)
    BY <1>2 DEF Abort
  <2>2. /\ req' \in [Callers -> {Idle} \cup SaveRequest \cup RunRequest \cup CompileRequest]
        /\ req'[c].op = "none" /\ \A d \in Callers : d # c => req'[d] = req[d]
    BY <2>1, Ending DEF LibInv
  <2>3. Types'
    BY <2>1, <2>2 DEF LibInv, Types
  <2> QED BY <2>1, <2>2, <2>3, FilesFrame, RunsFrame, SkillsFrame DEF LibInv
<1> QED BY <1>1, <1>2

-----------------------------------------------------------------------------
(* Registered skills.                                                      *)

\* A step that only adds to the skills or changes one of them.
LEMMA SkillsStep ==
  ASSUME LibInv, skills' \in Seq(Skill), Len(skills') >= Len(skills),
         UNCHANGED <<file, versions, runs, receipts, req>>
  PROVE  LibInv'
<1>1. Types'
  BY DEF LibInv, Types
<1>2. FilesInv' /\ RunsInv'
  BY FilesFrame, RunsFrame
<1>3. Len(skills) \in Int /\ Len(skills') \in Int
  BY DEF LibInv, Types
<1>4. \A c \in Callers : CompilerInv(c)'
  <2> SUFFICES ASSUME NEW c \in Callers PROVE CompilerInv(c)'
    OBVIOUS
  <2>1. req[c].op \in {"select", "compile"} => req[c].row \in Int
    BY Operations DEF LibInv, CompileRequest
  <2> QED BY <1>3, <2>1 DEF LibInv, CompilerInv
<1> QED BY <1>1, <1>2, <1>4 DEF LibInv

\* register_skill_with_session
LEMMA RegisterKeeps ==
  ASSUME LibInv, NEW p \in Processes, NEW trigger \in Triggers, Register(Slug[p], trigger)
  PROVE  LibInv'
<1> DEFINE d == Draft(Slug[p], trigger, None)
<1>1. d \in Skill
  BY DEF Draft, Skill
<1>2. skills' = Append(skills, d) /\ UNCHANGED <<file, versions, runs, receipts, req>>
  BY DEF Register
<1> HIDE DEF d
<1>3. skills' \in Seq(Skill) /\ Len(skills') >= Len(skills)
  BY <1>1, <1>2 DEF LibInv, Types
<1> QED BY <1>2, <1>3, SkillsStep

\* Activating and archiving.
LEMMA StatusKeeps ==
  ASSUME LibInv, NEW i \in DOMAIN skills, Activate(i) \/ Archive(i)
  PROVE  LibInv'
<1>1. skills[i] \in Skill /\ i \in 1..Len(skills) /\ skills \in Seq(Skill)
  BY DEF LibInv, Types
<1>2. PICK status \in {"active", "archived"} :
        skills' = [skills EXCEPT ![i] = [skills[i] EXCEPT !.status = status]]
  BY DEF Activate, Archive
<1>3. [skills[i] EXCEPT !.status = status] \in Skill
  BY <1>1 DEF Skill
<1>4. skills' \in Seq(Skill) /\ Len(skills') = Len(skills)
  BY <1>1, <1>2, <1>3, ExceptSeq
<1>5. Len(skills') >= Len(skills)
  BY <1>1, <1>4
<1>6. UNCHANGED <<file, versions, runs, receipts, req>>
  BY DEF Activate, Archive
<1> QED BY <1>4, <1>5, <1>6, SkillsStep

\* compile_skills_from_processes
LEMMA CompileBeginKeeps ==
  ASSUME LibInv, NEW c \in Callers, NEW some \in (SUBSET Processes) \ {{}},
         NEW ps \in SetToSeqs(some), CompileBegin(c, ps)
  PROVE  LibInv'
<1>1. ps \in Seq(Processes)
  <2>1. IsFiniteSet(some)
    BY FS_Subset
  <2>2. Cardinality(some) \in Nat
    BY <2>1, FS_CardinalityType
  <2>3. ps \in [1..Cardinality(some) -> some]
    BY DEF SetToSeqs
  <2> QED BY <2>2, <2>3, SeqDef
<1>2. PICK x \in CompileRequest : x = [op |-> "select", left |-> ps, row |-> 0]
  <2>1. [op |-> "select", left |-> ps, row |-> 0] \in CompileRequest
    BY <1>1 DEF CompileRequest
  <2> QED BY <2>1
<1>3. UNCHANGED <<file, versions, runs, receipts, skills>> /\ Served(c, x)
  BY <1>2 DEF CompileBegin
<1>4. /\ req' \in [Callers -> {Idle} \cup SaveRequest \cup RunRequest \cup CompileRequest]
      /\ req'[c] = x /\ \A d \in Callers : d # c => req'[d] = req[d]
  BY <1>3, Serving DEF LibInv
<1>5. Types'
  BY <1>3, <1>4 DEF LibInv, Types
<1>6. FilesInv' /\ RunsInv'
  BY <1>2, <1>3, <1>4, FilesFrame, RunsFrame
<1>7. \A d \in Callers : CompilerInv(d)'
  <2>1. x.op = "select" /\ x.row = 0
    BY <1>2
  <2>2. Len(skills) \in Nat
    BY DEF LibInv, Types
  <2>3. 0 <= Len(skills)
    BY <2>2
  <2> QED BY <1>3, <1>4, <2>1, <2>3 DEF LibInv, CompilerInv
<1> QED BY <1>5, <1>6, <1>7 DEF LibInv

\* A name that is looked up is of a row that is there, or of none.
LEMMA CompileSelectKeeps == ASSUME LibInv, NEW c \in Callers, CompileSelect(c) PROVE LibInv'
<1>1. /\ req[c] \in CompileRequest /\ req[c].op = "select" /\ req[c].left # <<>>
      /\ UNCHANGED <<file, versions, runs, receipts, skills>>
  BY Operations DEF LibInv, CompileSelect
<1> DEFINE found == Titled(Slug[Head(req[c].left)])
<1>2. Done(c) \/ \E i \in 0..Len(skills) : Served(c, [req[c] EXCEPT !.op = "compile", !.row = i])
  <2>1. CASE found = {} /\ Served(c, [req[c] EXCEPT !.op = "compile", !.row = 0])
    <3>1. 0 \in 0..Len(skills)
      BY DEF LibInv, Types
    <3> QED BY <2>1, <3>1
  <2>2. CASE /\ Cardinality(found) = 1
             /\ Served(c, [req[c] EXCEPT !.op = "compile", !.row = CHOOSE i \in found : TRUE])
    <3>1. found # {}
      <4>1. Cardinality(found) # Cardinality({})
        BY <2>2, FS_EmptySet
      <4> HIDE DEF found
      <4> QED BY <4>1, Zenon
    <3>2. (CHOOSE i \in found : TRUE) \in found
      BY <3>1
    <3>3. found \subseteq 0..Len(skills)
      BY DEF Titled, LibInv, Types
    <3> QED BY <2>2, <3>2, <3>3
  <2>3. CASE Done(c)
    BY <2>3
  <2> QED BY <2>1, <2>2, <2>3 DEF CompileSelect
<1>3. CASE Done(c)
  <2>1. /\ req' \in [Callers -> {Idle} \cup SaveRequest \cup RunRequest \cup CompileRequest]
        /\ req'[c].op = "none" /\ \A d \in Callers : d # c => req'[d] = req[d]
    BY <1>3, Ending DEF LibInv
  <2>2. Types'
    BY <1>1, <2>1 DEF LibInv, Types
  <2> QED BY <1>1, <2>1, <2>2, FilesFrame, RunsFrame, SkillsFrame DEF LibInv
<1>4. ASSUME NEW i \in 0..Len(skills), Served(c, [req[c] EXCEPT !.op = "compile", !.row = i])
      PROVE  LibInv'
  <2>1. i \in Nat
    BY DEF LibInv, Types
  <2>2. PICK x \in CompileRequest : x = [req[c] EXCEPT !.op = "compile", !.row = i]
    <3>1. [req[c] EXCEPT !.op = "compile", !.row = i] \in CompileRequest
      BY <1>1, <2>1 DEF CompileRequest
    <3> QED BY <3>1
  <2>3. x.op = "compile" /\ x.row = i /\ x.left # <<>>
    BY <1>1, <2>2 DEF CompileRequest
  <2>4. /\ req' \in [Callers -> {Idle} \cup SaveRequest \cup RunRequest \cup CompileRequest]
        /\ req'[c] = x /\ \A d \in Callers : d # c => req'[d] = req[d]
    BY <1>4, <2>2, Serving DEF LibInv
  <2>5. Types'
    BY <1>1, <2>4 DEF LibInv, Types
  <2>6. FilesInv' /\ RunsInv'
    BY <1>1, <2>3, <2>4, FilesFrame, RunsFrame
  <2>7. i <= Len(skills)
    OBVIOUS
  <2>8. \A d \in Callers : CompilerInv(d)'
    BY <1>1, <2>3, <2>4, <2>7 DEF LibInv, CompilerInv
  <2> QED BY <2>5, <2>6, <2>8 DEF LibInv
<1> QED BY <1>2, <1>3, <1>4

\* A skill is compiled over a row that is there, or new.
LEMMA CompileCommitKeeps == ASSUME LibInv, NEW c \in Callers, CompileCommit(c) PROVE LibInv'
<1>1. /\ req[c] \in CompileRequest /\ req[c].op = "compile" /\ req[c].left # <<>>
      /\ req[c].row \in 0..Len(skills)
      /\ UNCHANGED <<file, versions, runs, receipts>>
  <2>1. req[c] \in CompileRequest /\ req[c].op = "compile"
    BY Operations DEF LibInv, CompileCommit
  <2>2. req[c].left # <<>> /\ req[c].row <= Len(skills) /\ req[c].row \in Nat
    BY <2>1 DEF LibInv, CompilerInv, CompileRequest
  <2> QED BY <2>1, <2>2 DEF LibInv, Types, CompileCommit
<1>2. PICK p \in Processes : p = Head(req[c].left)
  BY <1>1 DEF CompileRequest
<1>3. skills' \in Seq(Skill) /\ Len(skills') >= Len(skills)
  <2>1. CASE req[c].row = 0
    <3>1. skills' = Append(skills, Draft(Slug[p], "valid", p))
      BY <1>2, <2>1 DEF CompileCommit
    <3>2. Draft(Slug[p], "valid", p) \in Skill
      BY DEF Draft, Skill, Triggers
    <3> QED BY <3>1, <3>2 DEF LibInv, Types
  <2>2. CASE req[c].row # 0
    <3>1. PICK i \in 1..Len(skills) : i = req[c].row
      BY <1>1, <2>2 DEF LibInv, Types
    <3>2. skills' = [skills EXCEPT ![i] = Recompiled(i, p)]
      BY <1>2, <2>2, <3>1 DEF CompileCommit
    <3>3. skills[i] \in Skill
      BY DEF LibInv, Types
    <3>4. Recompiled(i, p) \in Skill
      BY <3>3 DEF Recompiled, Skill, Triggers
    <3>5. skills' \in Seq(Skill) /\ Len(skills') = Len(skills) /\ Len(skills) \in Int
      BY <3>2, <3>4, ExceptSeq DEF LibInv, Types
    <3> QED BY <3>5
  <2> QED BY <2>1, <2>2
<1>4. PICK x \in CompileRequest :
        x = [req[c] EXCEPT !.op = "select", !.left = Tail(req[c].left)]
  <2>1. Tail(req[c].left) \in Seq(Processes)
    BY <1>1 DEF CompileRequest
  <2>2. [req[c] EXCEPT !.op = "select", !.left = Tail(req[c].left)] \in CompileRequest
    BY <1>1, <2>1 DEF CompileRequest
  <2> QED BY <2>2
<1>5. x.op = "select" /\ x.row = req[c].row
  BY <1>1, <1>4 DEF CompileRequest
<1>6. /\ req' \in [Callers -> {Idle} \cup SaveRequest \cup RunRequest \cup CompileRequest]
      /\ req'[c] = x /\ \A d \in Callers : d # c => req'[d] = req[d]
  BY <1>4, Serving DEF LibInv, CompileCommit
<1>7. Types'
  BY <1>1, <1>3, <1>6 DEF LibInv, Types
<1>8. FilesInv' /\ RunsInv'
  BY <1>1, <1>5, <1>6, FilesFrame, RunsFrame
<1>9. Len(skills) \in Int /\ Len(skills') \in Int
  BY <1>3 DEF LibInv, Types
<1>10. ASSUME NEW d \in Callers PROVE CompilerInv(d)'
  <2>1. CASE d = c
    BY <1>1, <1>3, <1>5, <1>6, <1>9, <2>1 DEF CompilerInv
  <2>2. CASE d # c
    <3>1. req'[d] = req[d] /\ CompilerInv(d)
      BY <1>6, <2>2 DEF LibInv
    <3>2. req[d].op \in {"select", "compile"} => req[d].row \in Int
      BY Operations DEF LibInv, CompileRequest
    <3> QED BY <1>3, <1>9, <3>1, <3>2 DEF CompilerInv
  <2> QED BY <2>1, <2>2
<1> QED BY <1>7, <1>8, <1>10 DEF LibInv

\* The compilation is done.
LEMMA CompileEndKeeps == ASSUME LibInv, NEW c \in Callers, CompileEnd(c) PROVE LibInv'
<1>1. UNCHANGED <<file, versions, runs, receipts, skills>> /\ Done(c)
  BY DEF CompileEnd
<1>2. /\ req' \in [Callers -> {Idle} \cup SaveRequest \cup RunRequest \cup CompileRequest]
      /\ req'[c].op = "none" /\ \A d \in Callers : d # c => req'[d] = req[d]
  BY <1>1, Ending DEF LibInv
<1>3. Types'
  BY <1>1, <1>2 DEF LibInv, Types
<1> QED BY <1>1, <1>2, <1>3, FilesFrame, RunsFrame, SkillsFrame DEF LibInv

-----------------------------------------------------------------------------
(* The theorems.                                                           *)

\* Every step keeps the invariant.
LEMMA NextKeepsLibInv == LibInv /\ [Next]_vars => LibInv'
<1> SUFFICES ASSUME LibInv, [Next]_vars PROVE LibInv'
  OBVIOUS
<1>1. ASSUME NEW c \in Callers, NEW n \in Names, NEW t \in Texts, SaveBegin(c, n, t) PROVE LibInv'
  BY <1>1, SaveBeginKeeps
<1>2. ASSUME NEW c \in Callers, NEW t \in Texts, SeedBegin(c, t) PROVE LibInv'
  BY <1>2, SeedBeginKeeps
<1>3. ASSUME NEW c \in Callers, SaveCreate(c) \/ SaveNumber(c) \/ SaveCommit(c) PROVE LibInv'
  BY <1>3, SaveCreateKeeps, SaveNumberKeeps, SaveCommitKeeps
<1>4. ASSUME NEW c \in Callers, NEW n \in Names, RunBegin(c, n) PROVE LibInv'
  BY <1>4, RunBeginKeeps
<1>5. ASSUME NEW c \in Callers, StepOf(c) PROVE LibInv'
  BY <1>5, StepWorkKeeps, StepReceiptKeeps, StepIfKeeps, StepApprovalKeeps, RunEndKeeps DEF StepOf
<1>6. ASSUME NEW c \in Callers, NEW some \in (SUBSET Processes) \ {{}}, NEW ps \in SetToSeqs(some),
             CompileBegin(c, ps)
      PROVE  LibInv'
  BY <1>6, CompileBeginKeeps
<1>7. ASSUME NEW c \in Callers, CompileSelect(c) \/ CompileCommit(c) \/ CompileEnd(c) PROVE LibInv'
  BY <1>7, CompileSelectKeeps, CompileCommitKeeps, CompileEndKeeps
<1>8. ASSUME NEW c \in Callers, Abort(c) PROVE LibInv'
  BY <1>8, AbortKeeps
<1>9. ASSUME NEW p \in Processes, NEW trigger \in Triggers, Register(Slug[p], trigger) PROVE LibInv'
  BY <1>9, RegisterKeeps
<1>10. ASSUME NEW i \in DOMAIN skills, Activate(i) \/ Archive(i) PROVE LibInv'
  BY <1>10, StatusKeeps
<1>11. CASE UNCHANGED vars
  <2>1. UNCHANGED <<file, versions, runs, receipts, skills, req>>
    BY <1>11 DEF vars
  <2>2. Types'
    BY <2>1 DEF LibInv, Types
  <2> QED BY <2>1, <2>2, FilesFrame, RunsFrame, SkillsFrame DEF LibInv
<1> QED BY <1>1, <1>2, <1>3, <1>4, <1>5, <1>6, <1>7, <1>8, <1>9, <1>10, <1>11 DEF Next

\* The invariant holds in every state that is reached.
LEMMA LibInvHolds == Spec => []LibInv
BY InitLibInv, NextKeepsLibInv, PTL DEF Spec

\* However saves of one file overlap, its current version is the latest valid
\* one, and no text is lost but to a save that repeated what it had loaded.
THEOREM SavesKeepOrder == Spec => []PromotionsKeepOrder
BY LibInvHolds, LibInvSuffices, PTL

\* A run that went well has a receipt of every step that did something, and
\* one that broke off lacks at most the last, if the ids of its steps differ.
THEOREM RunsAreReceipted == Spec => []StepsAreReceipted
BY LibInvHolds, LibInvSuffices, PTL

\* Nothing happens in a run after it has asked for an approval.
THEOREM ApprovalsEndRuns == Spec => []ApprovalEndsRun
BY LibInvHolds, LibInvSuffices, PTL

=============================================================================
