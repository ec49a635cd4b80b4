---------------------------- MODULE Keys_proofs ----------------------------
(***************************************************************************)
(* Proofs about the vault and its users, for any number of threads,        *)
(* connections, states, codes, keys and requests.                          *)
(***************************************************************************)
EXTENDS Keys, SequenceTheorems, FiniteSetTheorems, TLAPS

-----------------------------------------------------------------------------
(* The inductive invariant.                                                *)

Secrets == 1..MaxKey

Job == [job : {"none", "rotate", "test", "configure", "install", "callback", "sync"},
        at : {"none", "vault", "llm", "consume", "exchange", "connect", "refresh",
              "keep", "reauth"},
        puts : Seq(Slots \X Secrets), mid : BOOLEAN, n : Nat, held : Nat]

Grant == [access : 0..MaxKey, refresh : 0..MaxKey]

\* The shapes of the state.
Types ==
  /\ vault \in [Slots -> 0..MaxKey] /\ llm \in 0..MaxKey
  /\ verdict \in [{"vault", "llm"} -> {"untested", "valid", "invalid"}]
  /\ locked \in BOOLEAN
  /\ install \in {0} \cup States
  /\ rows \in [Conns -> {"none", "connected", "reauth_required"}]
  /\ due \subseteq Conns
  /\ grants \in [Conns -> Grant]
  /\ used \subseteq (States \X (1..Codes)) \X Conns
  /\ drawn \in Nat
  /\ th \in [Processes -> Job]
  /\ cut \subseteq Slots /\ raced \subseteq States

\* The request t keeps the tokens of c: the access token before the other.
Keeps(t, c) == th[t].n = c /\ th[t].at \in {"connect", "keep"}

\* What is left to keep, and what is kept already.
KeepInv(t, c) ==
  /\ \/ th[t].puts = TokenPuts(c, grants[c])
     \/ /\ th[t].puts = <<<<Renewal(c), grants[c].refresh>>>>
        /\ vault[Access(c)] # 0
     \/ /\ th[t].puts = <<>>
        /\ vault[Access(c)] # 0 /\ vault[Renewal(c)] = grants[c].refresh
  /\ th[t].mid => th[t].puts # <<>> /\ vault[Slot(t)] = 0

\* Of a request that waits between its steps.
Waits(t) == th[t].puts = <<>> /\ ~ th[t].mid

\* What each kind of request has got to.
TestInv(t) == /\ Waits(t) /\ th[t].at \in {"vault", "llm"} /\ th[t].held # 0
RotateInv(t) ==
  /\ th[t].puts = <<>> \/ \E k \in Secrets : th[t].puts = <<<<Provider, k>>>>
  /\ th[t].mid => th[t].puts # <<>>
ClientInv(t) ==
  /\ th[t].puts \in {<<>>, <<<<Client, 1>>>>}
  /\ th[t].mid => th[t].puts # <<>>
  /\ th[t].job = "install" => th[t].n \in States /\ th[t].n <= drawn
CallbackInv(t) ==
  /\ ~ locked
  /\ \/ /\ th[t].at \in {"consume", "exchange"} /\ Waits(t)
        /\ th[t].n \in States /\ th[t].n <= drawn /\ th[t].held \in 1..Codes
     \/ /\ th[t].at = "connect" /\ th[t].n \in Conns
        /\ grants[th[t].n].access # 0 /\ rows[th[t].n] = "none"
        /\ th[Loop].n # th[t].n
        /\ KeepInv(t, th[t].n)
SyncInv(t) ==
  /\ ~ locked /\ th[t].n \in Conns /\ grants[th[t].n].access # 0
  /\ \/ /\ th[t].at = "refresh" /\ Waits(t) /\ grants[th[t].n].access < MaxKey
     \/ th[t].at = "reauth" /\ Waits(t)
     \/ th[t].at = "keep" /\ KeepInv(t, th[t].n)
  /\ th[t].at # "keep" /\ Renewal(th[t].n) \notin cut
       => vault[Renewal(th[t].n)] = grants[th[t].n].refresh

JobInv(t) ==
  /\ th[t].job = "none" => th[t] = NoJob
  /\ th[t].job = "test" => TestInv(t)
  /\ th[t].job = "rotate" => RotateInv(t)
  /\ th[t].job \in {"configure", "install"} => ClientInv(t)
  /\ th[t].job = "callback" => CallbackInv(t)
  /\ th[t].job = "sync" => SyncInv(t)
  /\ th[t].job # "none" => (th[t].job = "sync" <=> t = Loop)

\* What the property says of one connection, when no sync has it in hand.
Honoured(c) ==
  rows[c] = "connected" /\ Renewal(c) \notin cut => vault[Renewal(c)] = grants[c].refresh

\* The vendor's tokens for a connection: none before it is granted.
GrantInv(c) ==
  /\ grants[c].refresh <= grants[c].access
  /\ grants[c].refresh = 0 => grants[c].access = 0
  /\ grants[c].access = 0 => rows[c] = "none" /\ th[Loop].n # c
  /\ th[Loop].n # c => Honoured(c)

\* Two requests never connect the same connection.
Connects(t, c) == th[t].job = "callback" /\ th[t].at = "connect" /\ th[t].n = c
ConnectsAlone == \A t, u \in Processes, c \in Conns : Connects(t, c) /\ Connects(u, c) => t = u

\* The state that is awaited has been drawn.
AwaitsDrawn == install <= drawn

Jobs ==
  /\ Types
  /\ AwaitsDrawn
  /\ \A t \in Processes : JobInv(t)
  /\ \A c \in Conns : GrantInv(c)
  /\ ConnectsAlone

\* A secret that is referred to is missing only between a request's deletion
\* and its storing, or when that was cut.
Between(s) == \E t \in Processes : th[t].puts # <<>> /\ th[t].mid /\ Slot(t) = s
Kept == \A s \in Referred : vault[s] = 0 => Between(s) \/ s \in cut

\* A state is drawn once, kept once and consumed once, unless a callback came
\* late.
Pending(t, s) == th[t].job = "install" /\ th[t].n = s
Calling(t, s) == th[t].job = "callback" /\ th[t].at \in {"consume", "exchange"} /\ th[t].n = s
Consumed(t, s) == th[t].job = "callback" /\ th[t].at = "exchange" /\ th[t].n = s
UsedFor(u, s) == u[1][1] = s

StateInv(s) ==
  /\ s > drawn => install # s /\ \A u \in used : ~ UsedFor(u, s)
  /\ \A t \in Processes : Pending(t, s) =>
       /\ install # s /\ \A u \in used : ~ UsedFor(u, s)
       /\ \A v \in Processes : (Pending(v, s) => v = t) /\ ~ Calling(v, s)
  /\ s \notin raced =>
       /\ install = s => /\ \A u \in used : ~ UsedFor(u, s)
                         /\ \A t \in Processes : ~ Consumed(t, s)
       /\ \A t \in Processes : Consumed(t, s) =>
            /\ \A u \in used : ~ UsedFor(u, s)
            /\ \A v \in Processes : Consumed(v, s) => v = t
       /\ \A u, v \in used : UsedFor(u, s) /\ UsedFor(v, s) => u = v

VaultInv ==
  /\ Jobs
  /\ Kept
  /\ \A s \in States : StateInv(s)
  /\ VerdictsAreOfTheKey

-----------------------------------------------------------------------------
(* Secrets, and what is left to put.                                       *)

\* The secrets' places in the vault are apart.
LEMMA SlotFacts ==
  /\ Client \in Slots /\ Provider \in Slots /\ Client # Provider
  /\ \A c \in Conns : /\ Access(c) \in Slots /\ Renewal(c) \in Slots
                      /\ Access(c) \notin {Client, Provider} /\ Renewal(c) \notin {Client, Provider}
  /\ \A c, d \in Conns : /\ Access(c) # Renewal(d)
                         /\ Access(c) = Access(d) => c = d
                         /\ Renewal(c) = Renewal(d) => c = d
BY DEF Slots, Client, Provider, Access, Renewal

\* Short sequences.
LEMMA ShortSeqs ==
  ASSUME NEW p, NEW q
  PROVE  /\ <<p>> # <<>> /\ <<p, q>> # <<>> /\ <<p, q>> # <<p>>
         /\ Head(<<p>>) = p /\ Tail(<<p>>) = <<>>
         /\ Head(<<p, q>>) = p /\ Tail(<<p, q>>) = <<q>>
         /\ DOMAIN <<p>> = {1} /\ DOMAIN <<p, q>> = {1, 2}
OBVIOUS

\* No request is one that is typed.
LEMMA NoJobIsJob ==
  /\ NoJob \in Job
  /\ NoJob.job = "none" /\ NoJob.at = "none" /\ NoJob.puts = <<>> /\ ~ NoJob.mid
  /\ NoJob.n = 0 /\ NoJob.held = 0
<1>1. <<>> \in Seq(Slots \X Secrets)
  OBVIOUS
<1> QED BY <1>1 DEF NoJob, Job

\* A connection is no zero, nor is a state.
LEMMA CountFromOne ==
  /\ 0 \notin Conns /\ 0 \notin States /\ Conns \subseteq Nat /\ States \subseteq Nat
  /\ MaxKey \in Nat \ {0} /\ Codes \in Nat
<1>1. \A m : 0 \notin 1..m /\ 1..m \subseteq Nat
  OBVIOUS
<1>2. 0 \notin 1..Cardinality(Conns) /\ 1..Cardinality(Conns) \subseteq Nat
  BY <1>1
<1>3. 0 \notin 1..Cardinality(States) /\ 1..Cardinality(States) \subseteq Nat
  BY <1>1
<1>4. 0 \notin Conns /\ Conns \subseteq Nat /\ 0 \notin States /\ States \subseteq Nat
  BY <1>2, <1>3, NumbersAssumption, Zenon
<1> QED BY <1>4, NumbersAssumption

\* What a request changes of itself.
LEMMA Changed ==
  ASSUME th \in [Processes -> Job], NEW t \in Processes, NEW j \in Job,
         th' = [th EXCEPT ![t] = j]
  PROVE  /\ th' \in [Processes -> Job] /\ th'[t] = j
         /\ \A u \in Processes : u # t => th'[u] = th[u]
OBVIOUS

\* What a request leaves of itself.
LEMMA Ended ==
  ASSUME th \in [Processes -> Job], NEW t \in Processes, End(t)
  PROVE  /\ th' \in [Processes -> Job] /\ th'[t] = NoJob
         /\ \A u \in Processes : u # t => th'[u] = th[u]
BY NoJobIsJob, Changed DEF End

-----------------------------------------------------------------------------
(* Requests beside the one that takes a step.                              *)

\* The request u has the tokens of c in hand.
Holds(u, c) == th[u].n = c /\ (th[u].job = "sync" \/ (th[u].job = "callback" /\ th[u].at = "connect"))

\* What a step leaves of a connection for the request that has its tokens.
Left(c) ==
  /\ vault'[Access(c)] = vault[Access(c)] /\ vault'[Renewal(c)] = vault[Renewal(c)]
  /\ grants'[c] = grants[c]
  /\ rows[c] = "none" => rows'[c] = "none"
  /\ rows'[c] = "connected" => rows[c] = "connected"
  /\ th[Loop].n # c => th'[Loop].n # c
  /\ Renewal(c) \in cut => Renewal(c) \in cut'

\* Two requests never have the same tokens in hand.
LEMMA HoldsAlone ==
  ASSUME Jobs, NEW t \in Processes, NEW u \in Processes, NEW c \in Conns, Holds(t, c), Holds(u, c)
  PROVE  t = u
<1>1. CASE th[t].job = "sync"
  <2>1. t = Loop /\ th[Loop].n = c
    BY <1>1 DEF Jobs, JobInv, Holds
  <2>2. u # Loop => th[Loop].n # c
    BY DEF Jobs, JobInv, CallbackInv, Holds
  <2> QED BY <2>1, <2>2
<1>2. CASE th[u].job = "sync"
  <2>1. u = Loop /\ th[Loop].n = c
    BY <1>2 DEF Jobs, JobInv, Holds
  <2>2. t # Loop => th[Loop].n # c
    BY DEF Jobs, JobInv, CallbackInv, Holds
  <2> QED BY <2>1, <2>2
<1>3. CASE th[t].job # "sync" /\ th[u].job # "sync"
  BY <1>3 DEF Jobs, ConnectsAlone, Connects, Holds
<1> QED BY <1>1, <1>2, <1>3

\* A request keeps what it has got to while others leave its connection.
LEMMA OtherJob ==
  ASSUME Types, Types', NEW u \in Processes, JobInv(u), th'[u] = th[u],
         th[u] # NoJob => locked' = locked, drawn <= drawn',
         \A c \in Conns : Holds(u, c) => Left(c)
  PROVE  JobInv(u)'
<1>1. drawn \in Nat /\ drawn' \in Nat /\ th[u] \in Job
  BY DEF Types
<1>2. Slot(u)' = Slot(u) /\ (Waits(u) => Waits(u)')
  BY DEF Slot, Waits
<1>3. th[u].job \in {"configure", "install"} => ClientInv(u)'
  BY <1>1 DEF JobInv, ClientInv, Job
<1>4. th[u].job = "rotate" => RotateInv(u)'
  BY DEF JobInv, RotateInv
<1>5. th[u].job = "test" => TestInv(u)'
  BY <1>2 DEF JobInv, TestInv
<1>6. ASSUME NEW c \in Conns, Holds(u, c), KeepInv(u, c) PROVE KeepInv(u, c)'
  <2>1. Left(c)
    BY <1>6
  <2>2. th[u].puts # <<>> => Slot(u) = Access(c) \/ Slot(u) = Renewal(c)
    BY <1>6, ShortSeqs DEF KeepInv, Slot, TokenPuts
  <2>3. th[u].puts # <<>> => vault'[Slot(u)] = vault[Slot(u)]
    BY <2>1, <2>2 DEF Left
  <2>4. TokenPuts(c, grants[c])' = TokenPuts(c, grants[c])
    BY <2>1 DEF Left, TokenPuts
  <2> QED BY <1>6, <1>2, <2>1, <2>3, <2>4 DEF KeepInv, Left
<1>7. th[u].job = "callback" => CallbackInv(u)'
  <2>1. SUFFICES ASSUME th[u].job = "callback" PROVE CallbackInv(u)'
    OBVIOUS
  <2>2. CallbackInv(u) /\ th[u] # NoJob
    BY <2>1 DEF JobInv, NoJob
  <2>3. CASE th[u].at \in {"consume", "exchange"}
    <3>1. /\ ~ locked /\ Waits(u) /\ th[u].n \in States /\ th[u].n <= drawn /\ th[u].held \in 1..Codes
      BY <2>2, <2>3 DEF CallbackInv
    <3>2. th[u].n \in Nat /\ th[u].n <= drawn'
      BY <1>1, <3>1 DEF Job
    <3> QED BY <1>2, <2>2, <2>3, <3>1, <3>2 DEF CallbackInv
  <2>4. CASE th[u].at = "connect"
    <3>1. PICK c \in Conns : c = th[u].n
      BY <2>2, <2>4 DEF CallbackInv
    <3>2. Holds(u, c) /\ KeepInv(u, c)
      BY <2>1, <2>2, <2>4, <3>1 DEF Holds, CallbackInv
    <3>3. KeepInv(u, c)' /\ Left(c)
      BY <1>6, <3>2
    <3> QED BY <2>2, <2>4, <3>1, <3>3 DEF CallbackInv, Left
  <2> QED BY <2>2, <2>3, <2>4 DEF CallbackInv
<1>8. th[u].job = "sync" => SyncInv(u)'
  <2>1. SUFFICES ASSUME th[u].job = "sync" PROVE SyncInv(u)'
    OBVIOUS
  <2>2. SyncInv(u) /\ th[u] # NoJob
    BY <2>1 DEF JobInv, NoJob
  <2>3. PICK c \in Conns : c = th[u].n
    BY <2>2 DEF SyncInv
  <2>4. Holds(u, c) /\ Left(c)
    BY <2>1, <2>3 DEF Holds
  <2>5. th[u].at = "keep" => KeepInv(u, c)'
    BY <1>6, <2>2, <2>3, <2>4 DEF SyncInv
  <2> QED BY <1>2, <2>2, <2>3, <2>4, <2>5 DEF SyncInv, Left
<1> QED BY <1>3, <1>4, <1>5, <1>7, <1>8 DEF JobInv, NoJob

\* A step of one request, which leaves the connections of others.
LEMMA JobsStep ==
  ASSUME Jobs, Types', NEW t \in Processes, \A u \in Processes : u # t => th'[u] = th[u],
         JobInv(t)', AwaitsDrawn', locked' = locked, drawn <= drawn',
         \A c \in Conns : Left(c) \/ \A u \in Processes : Holds(u, c) => u = t,
         \A c \in Conns : GrantInv(c)',
         \A c \in Conns : th'[t].job = "callback" /\ th'[t].at = "connect" /\ th'[t].n = c =>
                          Connects(t, c) \/ \A u \in Processes : ~ Connects(u, c)
  PROVE  Jobs'
<1>1. ASSUME NEW u \in Processes PROVE JobInv(u)'
  <2>1. CASE u # t
    <3>1. \A c \in Conns : Holds(u, c) => Left(c)
      BY <2>1
    <3> QED BY <2>1, <3>1, OtherJob DEF Jobs
  <2> QED BY <2>1
<1>2. ConnectsAlone'
  <2> SUFFICES ASSUME NEW u \in Processes, NEW v \in Processes, NEW c \in Conns,
                      Connects(u, c)', Connects(v, c)'
               PROVE  u = v
    BY DEF ConnectsAlone
  <2>1. u # t => Connects(u, c)
    BY DEF Connects
  <2>2. v # t => Connects(v, c)
    BY DEF Connects
  <2> QED BY <2>1, <2>2 DEF Jobs, ConnectsAlone, Connects
<1> QED BY <1>1, <1>2 DEF Jobs

\* A step that changes only what its request is at.
LEMMA QuietStep ==
  ASSUME Jobs, Types', NEW t \in Processes, \A u \in Processes : u # t => th'[u] = th[u],
         JobInv(t)', AwaitsDrawn', UNCHANGED <<vault, locked, rows, grants>>, drawn <= drawn',
         \A c \in Conns : Renewal(c) \in cut => Renewal(c) \in cut',
         t = Loop => th'[t].n = th[t].n \/ th'[t].n = 0,
         \A c \in Conns : t = Loop /\ th[t].n = c /\ th'[t].n # c => Honoured(c),
         th'[t].job = "callback" /\ th'[t].at = "connect" =>
           th[t].job = "callback" /\ th[t].at = "connect" /\ th'[t].n = th[t].n
  PROVE  Jobs'
<1>1. th'[Loop].n = th[Loop].n \/ th'[Loop].n = 0
  BY DEF Processes
<1>2. ASSUME NEW c \in Conns PROVE Left(c) /\ GrantInv(c)'
  <2>1. th[Loop].n # c => th'[Loop].n # c
    BY <1>1, CountFromOne
  <2>2. Left(c) /\ GrantInv(c)
    BY <2>1 DEF Left, Jobs
  <2>3. th'[Loop].n # c => Honoured(c)
    BY <2>2 DEF GrantInv, Processes
  <2>4. th'[Loop].n # c => Honoured(c)'
    BY <2>2, <2>3 DEF Honoured
  <2> QED BY <2>1, <2>2, <2>4 DEF GrantInv
<1>3. \A c \in Conns : th'[t].job = "callback" /\ th'[t].at = "connect" /\ th'[t].n = c =>
                        Connects(t, c) \/ \A u \in Processes : ~ Connects(u, c)
  BY DEF Connects
<1> QED BY <1>2, <1>3, JobsStep

\* A request that ends.
LEMMA EndStep ==
  ASSUME Jobs, Types', AwaitsDrawn', NEW t \in Processes, End(t),
         UNCHANGED <<vault, locked, rows, grants, drawn>>,
         \A c \in Conns : t = Loop /\ th[t].n = c => Honoured(c),
         \A c \in Conns : Renewal(c) \in cut => Renewal(c) \in cut'
  PROVE  Jobs'
<1>1. th'[t] = NoJob /\ \A u \in Processes : u # t => th'[u] = th[u]
  BY Ended DEF Jobs, Types
<1>2. th'[t].job = "none" /\ th'[t].n = 0
  BY <1>1 DEF NoJob
<1>3. JobInv(t)'
  BY <1>1, <1>2 DEF JobInv, NoJob
<1>4. drawn <= drawn'
  BY DEF Jobs, Types
<1> QED BY <1>1, <1>2, <1>3, <1>4, QuietStep

-----------------------------------------------------------------------------
(* Provider keys.                                                          *)

\* A rotation begins with one secret to put.
LEMMA BeginRotateJobs == ASSUME Jobs, NEW t \in Threads, BeginRotate(t) PROVE Jobs'
<1>1. PICK k \in Secrets : k = vault[Provider] + 1
  BY SlotFacts, CountFromOne DEF Jobs, Types, BeginRotate, Secrets
<1>2. PICK j \in Job : /\ j = [NoJob EXCEPT !.job = "rotate", !.puts = <<<<Provider, k>>>>]
                       /\ j.job = "rotate" /\ j.puts = <<<<Provider, k>>>> /\ ~ j.mid /\ j.n = 0
  <2>1. <<<<Provider, k>>>> \in Seq(Slots \X Secrets)
    BY SlotFacts
  <2>2. [NoJob EXCEPT !.job = "rotate", !.puts = <<<<Provider, k>>>>] \in Job
    BY <2>1, NoJobIsJob DEF Job
  <2>3. PICK j \in Job : j = [NoJob EXCEPT !.job = "rotate", !.puts = <<<<Provider, k>>>>]
    BY <2>2
  <2>4. j.job = "rotate" /\ j.puts = <<<<Provider, k>>>> /\ ~ j.mid /\ j.n = 0
    BY <2>3, NoJobIsJob DEF Job
  <2> QED BY <2>3, <2>4
<1>3. th' = [th EXCEPT ![t] = j]
  BY <1>1, <1>2 DEF BeginRotate, Begin
<1>4. /\ th' \in [Processes -> Job] /\ th'[t] = j
      /\ \A u \in Processes : u # t => th'[u] = th[u]
  BY <1>3, Changed DEF Jobs, Types, Processes
<1>5. UNCHANGED <<vault, verdict, llm, locked, install, rows, due, grants, used, drawn, cut, raced>>
  BY DEF BeginRotate
<1>6. Types' /\ AwaitsDrawn' /\ drawn <= drawn'
  BY <1>4, <1>5 DEF Jobs, Types, AwaitsDrawn
<1>7. JobInv(t)'
  BY <1>2, <1>4, LoopAssumption DEF JobInv, RotateInv, Processes
<1> QED BY <1>2, <1>4, <1>5, <1>6, <1>7, LoopAssumption, QuietStep DEF Processes

\* It ends with none.
LEMMA RotateEndJobs == ASSUME Jobs, NEW t \in Threads, RotateEnd(t) PROVE Jobs'
<1>1. End(t) /\ UNCHANGED <<vault, verdict, llm, locked, install, rows, due, grants, used, drawn, cut, raced>>
  BY DEF RotateEnd
<1>2. Types' /\ AwaitsDrawn'
  BY <1>1, Ended DEF Jobs, Types, Processes, AwaitsDrawn
<1> QED BY <1>1, <1>2, EndStep, LoopAssumption DEF Processes

\* A test begins with the key it has read.
LEMMA BeginTestJobs ==
  ASSUME Jobs, NEW t \in Threads, NEW kind \in {"vault", "llm"}, BeginTest(t, kind) PROVE Jobs'
<1>1. PICK k \in Nat : k = Key(kind) /\ k # 0
  <2>1. vault[Provider] \in Nat /\ llm \in Nat
    BY SlotFacts, CountFromOne DEF Jobs, Types
  <2>2. Key(kind) \in Nat /\ Key(kind) # 0
    BY <2>1 DEF BeginTest, Key
  <2> QED BY <2>2
<1>2. PICK j \in Job : /\ j = [NoJob EXCEPT !.job = "test", !.at = kind, !.held = k]
                       /\ j.job = "test" /\ j.at = kind /\ j.puts = <<>> /\ ~ j.mid
                       /\ j.n = 0 /\ j.held = k
  <2>1. [NoJob EXCEPT !.job = "test", !.at = kind, !.held = k] \in Job
    BY NoJobIsJob DEF Job
  <2>2. PICK j \in Job : j = [NoJob EXCEPT !.job = "test", !.at = kind, !.held = k]
    BY <2>1
  <2>3. j.job = "test" /\ j.at = kind /\ j.puts = <<>> /\ ~ j.mid /\ j.n = 0 /\ j.held = k
    BY <2>2, NoJobIsJob DEF Job
  <2> QED BY <2>2, <2>3
<1>3. th' = [th EXCEPT ![t] = j]
  BY <1>1, <1>2 DEF BeginTest, Begin
<1>4. /\ th' \in [Processes -> Job] /\ th'[t] = j
      /\ \A u \in Processes : u # t => th'[u] = th[u]
  BY <1>3, Changed DEF Jobs, Types, Processes
<1>5. UNCHANGED <<vault, verdict, llm, locked, install, rows, due, grants, used, drawn, cut, raced>>
  BY DEF BeginTest
<1>6. Types' /\ AwaitsDrawn' /\ drawn <= drawn'
  BY <1>4, <1>5 DEF Jobs, Types, AwaitsDrawn
<1>7. JobInv(t)'
  BY <1>1, <1>2, <1>4, LoopAssumption DEF JobInv, TestInv, Waits, Processes
<1> QED BY <1>2, <1>4, <1>5, <1>6, <1>7, LoopAssumption, QuietStep DEF Processes

\* Its verdict is of no concern to the other requests.
LEMMA EndTestJobs == ASSUME Jobs, NEW t \in Threads, EndTest(t) PROVE Jobs'
<1>1. End(t) /\ UNCHANGED <<vault, llm, locked, install, rows, due, grants, used, drawn, cut, raced>>
  BY DEF EndTest
<1>2. verdict' \in [{"vault", "llm"} -> {"untested", "valid", "invalid"}]
  <2>1. CASE Key(th[t].at) = 0
    BY <2>1 DEF Jobs, Types, EndTest
  <2>2. CASE Key(th[t].at) # 0
    <3>1. PICK result \in Results(th[t].held) :
            verdict' = [verdict EXCEPT ![th[t].at] =
              IF th[t].at = "vault" THEN VaultVerdict(result) ELSE LlmVerdict(result)]
      BY <2>2 DEF EndTest
    <3>2. VaultVerdict(result) \in {"untested", "valid", "invalid"}
      BY DEF VaultVerdict
    <3>3. LlmVerdict(result) \in {"untested", "valid", "invalid"}
      BY DEF LlmVerdict
    <3> QED BY <3>1, <3>2, <3>3 DEF Jobs, Types
  <2> QED BY <2>1, <2>2
<1>3. Types' /\ AwaitsDrawn'
  BY <1>1, <1>2, Ended DEF Jobs, Types, Processes, AwaitsDrawn
<1> QED BY <1>1, <1>3, EndStep, LoopAssumption DEF Processes

\* A step of no request.
LEMMA StillStep ==
  ASSUME Jobs, Types', UNCHANGED <<th, locked, install, grants, drawn>>, \A c \in Conns : Left(c)
  PROVE  Jobs'
<1>1. drawn <= drawn'
  BY DEF Jobs, Types
<1>2. th' = th /\ locked' = locked /\ grants' = grants
  OBVIOUS
<1>3. \A u \in Processes : JobInv(u)'
  BY <1>1, <1>2, OtherJob DEF Jobs
<1>6. AwaitsDrawn'
  BY DEF Jobs, AwaitsDrawn
<1>4. ASSUME NEW c \in Conns PROVE GrantInv(c)'
  BY <1>2 DEF Jobs, GrantInv, Left, Honoured
<1>5. ConnectsAlone'
  BY DEF Jobs, ConnectsAlone, Connects
<1> QED BY <1>3, <1>4, <1>5, <1>6 DEF Jobs

\* A missing provider key is stored in one commit.
LEMMA StoreSecretJobs == ASSUME Jobs, NEW t \in Threads, StoreSecret(t) PROVE Jobs'
<1>1. UNCHANGED <<llm, locked, install, rows, due, grants, used, drawn, th, raced>>
  BY DEF StoreSecret
<1>2. PICK k \in 1..MaxKey : vault' = [vault EXCEPT ![Provider] = k]
  BY DEF StoreSecret
<1>3. /\ vault' \in [Slots -> 0..MaxKey]
      /\ \A c \in Conns : vault'[Access(c)] = vault[Access(c)] /\ vault'[Renewal(c)] = vault[Renewal(c)]
  BY <1>2, SlotFacts, CountFromOne DEF Jobs, Types
<1>4. /\ verdict' \in [{"vault", "llm"} -> {"untested", "valid", "invalid"}] /\ cut' \subseteq Slots
      /\ \A c \in Conns : Renewal(c) \in cut => Renewal(c) \in cut'
  BY SlotFacts DEF Jobs, Types, StoreSecret
<1>5. Types'
  BY <1>1, <1>3, <1>4 DEF Jobs, Types
<1>6. \A c \in Conns : Left(c)
  BY <1>1, <1>3, <1>4 DEF Left
<1> QED BY <1>1, <1>5, <1>6, StillStep

\* A key of the LLM table is replaced in one.
LEMMA SetLlmKeyJobs == ASSUME Jobs, SetLlmKey PROVE Jobs'
<1>1. UNCHANGED <<vault, locked, install, rows, due, grants, used, drawn, th, cut, raced>>
  BY DEF SetLlmKey
<1>2. verdict' \in [{"vault", "llm"} -> {"untested", "valid", "invalid"}]
  BY DEF Jobs, Types, SetLlmKey
<1>3. llm' \in 0..MaxKey
  BY CountFromOne DEF Jobs, Types, SetLlmKey
<1>4. Types'
  BY <1>1, <1>2, <1>3 DEF Jobs, Types
<1>5. \A c \in Conns : Left(c)
  BY <1>1 DEF Left
<1> QED BY <1>1, <1>4, <1>5, StillStep

\* A provider key is deleted: no connector's secret is.
LEMMA DeleteKeyJobs ==
  ASSUME Jobs, NEW kind \in {"vault", "llm"}, DeleteKey(kind) PROVE Jobs'
<1>1. UNCHANGED <<locked, install, rows, due, grants, used, drawn, th, cut, raced>>
  BY DEF DeleteKey
<1>2. verdict' \in [{"vault", "llm"} -> {"untested", "valid", "invalid"}]
  BY DEF Jobs, Types, DeleteKey
<1>3. /\ vault' \in [Slots -> 0..MaxKey] /\ llm' \in 0..MaxKey
      /\ \A c \in Conns : vault'[Access(c)] = vault[Access(c)] /\ vault'[Renewal(c)] = vault[Renewal(c)]
  BY SlotFacts, CountFromOne DEF Jobs, Types, DeleteKey
<1>4. Types'
  BY <1>1, <1>2, <1>3 DEF Jobs, Types
<1>5. \A c \in Conns : Left(c)
  BY <1>1, <1>3 DEF Left
<1> QED BY <1>1, <1>4, <1>5, StillStep

-----------------------------------------------------------------------------
(* Configuration, installation and the callback.                           *)

\* A configuration begins with the client secret to put.
LEMMA BeginConfigureJobs == ASSUME Jobs, NEW t \in Threads, BeginConfigure(t) PROVE Jobs'
<1>2. PICK j \in Job : /\ j = [NoJob EXCEPT !.job = "configure", !.puts = <<<<Client, 1>>>>]
                       /\ j.job = "configure" /\ j.puts = <<<<Client, 1>>>> /\ ~ j.mid /\ j.n = 0
  <2>1. <<<<Client, 1>>>> \in Seq(Slots \X Secrets)
    BY SlotFacts, CountFromOne DEF Secrets
  <2>2. [NoJob EXCEPT !.job = "configure", !.puts = <<<<Client, 1>>>>] \in Job
    BY <2>1, NoJobIsJob DEF Job
  <2>3. PICK j \in Job : j = [NoJob EXCEPT !.job = "configure", !.puts = <<<<Client, 1>>>>]
    BY <2>2
  <2>4. j.job = "configure" /\ j.puts = <<<<Client, 1>>>> /\ ~ j.mid /\ j.n = 0
    BY <2>3, NoJobIsJob DEF Job
  <2> QED BY <2>3, <2>4
<1>3. th' = [th EXCEPT ![t] = j]
  BY <1>2 DEF BeginConfigure, Begin
<1>4. /\ th' \in [Processes -> Job] /\ th'[t] = j
      /\ \A u \in Processes : u # t => th'[u] = th[u]
  BY <1>3, Changed DEF Jobs, Types, Processes
<1>5. UNCHANGED <<vault, verdict, llm, locked, install, rows, due, grants, used, drawn, cut, raced>>
  BY DEF BeginConfigure
<1>6. Types' /\ AwaitsDrawn' /\ drawn <= drawn'
  BY <1>4, <1>5 DEF Jobs, Types, AwaitsDrawn
<1>7. JobInv(t)'
  BY <1>2, <1>4, LoopAssumption DEF JobInv, ClientInv, Processes
<1> QED BY <1>2, <1>4, <1>5, <1>6, <1>7, LoopAssumption, QuietStep DEF Processes

\* So does an installation, with a state of its own.
LEMMA BeginInstallJobs == ASSUME Jobs, NEW t \in Threads, BeginInstall(t) PROVE Jobs'
<1>1. PICK s \in States : s = drawn + 1 /\ s \in Nat /\ drawn \in Nat
  BY CountFromOne DEF Jobs, Types, BeginInstall
<1>2. PICK j \in Job : /\ j = [NoJob EXCEPT !.job = "install", !.n = s, !.puts = <<<<Client, 1>>>>]
                       /\ j.job = "install" /\ j.puts = <<<<Client, 1>>>> /\ ~ j.mid /\ j.n = s
  <2>1. <<<<Client, 1>>>> \in Seq(Slots \X Secrets)
    BY SlotFacts, CountFromOne DEF Secrets
  <2>2. [NoJob EXCEPT !.job = "install", !.n = s, !.puts = <<<<Client, 1>>>>] \in Job
    BY <1>1, <2>1, NoJobIsJob DEF Job
  <2>3. PICK j \in Job : j = [NoJob EXCEPT !.job = "install", !.n = s, !.puts = <<<<Client, 1>>>>]
    BY <2>2
  <2>4. j.job = "install" /\ j.puts = <<<<Client, 1>>>> /\ ~ j.mid /\ j.n = s
    BY <2>3, NoJobIsJob DEF Job
  <2> QED BY <2>3, <2>4
<1>3. th' = [th EXCEPT ![t] = j]
  BY <1>1, <1>2 DEF BeginInstall, Begin
<1>4. /\ th' \in [Processes -> Job] /\ th'[t] = j
      /\ \A u \in Processes : u # t => th'[u] = th[u]
  BY <1>3, Changed DEF Jobs, Types, Processes
<1>5. UNCHANGED <<vault, verdict, llm, locked, install, rows, due, grants, used, cut, raced>> /\ drawn' = s
  BY <1>1 DEF BeginInstall
<1>6. Types' /\ AwaitsDrawn' /\ drawn <= drawn'
  BY <1>1, <1>4, <1>5 DEF Jobs, Types, AwaitsDrawn
<1>7. JobInv(t)'
  BY <1>1, <1>2, <1>4, <1>5, LoopAssumption DEF JobInv, ClientInv, Processes
<1> QED BY <1>2, <1>4, <1>5, <1>6, <1>7, LoopAssumption, QuietStep DEF Processes

\* The state that is kept was drawn before.
LEMMA KeepStateJobs == ASSUME Jobs, NEW t \in Threads, KeepState(t) PROVE Jobs'
<1>1. End(t) /\ UNCHANGED <<vault, verdict, llm, locked, rows, due, grants, used, drawn, cut, raced>>
  BY DEF KeepState
<1>2. install' \in {0} \cup States /\ install' <= drawn
  BY DEF Jobs, Types, JobInv, ClientInv, KeepState, Processes
<1>3. Types'
  BY <1>1, <1>2, Ended DEF Jobs, Types, Processes
<1>4. AwaitsDrawn'
  BY <1>1, <1>2 DEF AwaitsDrawn
<1> QED BY <1>1, <1>3, <1>4, EndStep, LoopAssumption DEF Processes

\* Time passes for a state.
LEMMA ExpireStateJobs == ASSUME Jobs, NEW s \in States, ExpireState(s) PROVE Jobs'
<1>1. UNCHANGED <<vault, verdict, llm, locked, install, rows, due, grants, used, drawn, th, cut, raced>>
  BY DEF ExpireState
<1>2. Types'
  BY <1>1 DEF Jobs, Types
<1>3. \A c \in Conns : Left(c)
  BY <1>1 DEF Left
<1> QED BY <1>1, <1>2, <1>3, StillStep

\* A request that goes on to another step.
LEMMA Stepped ==
  ASSUME th \in [Processes -> Job], NEW t \in Processes,
         NEW a \in {"none", "vault", "llm", "consume", "exchange", "connect", "refresh", "keep", "reauth"},
         Step(t, a)
  PROVE  /\ th' \in [Processes -> Job]
         /\ th'[t].job = th[t].job /\ th'[t].at = a /\ th'[t].n = th[t].n
         /\ th'[t].puts = th[t].puts /\ th'[t].mid = th[t].mid /\ th'[t].held = th[t].held
         /\ \A u \in Processes : u # t => th'[u] = th[u]
<1>1. [th[t] EXCEPT !.at = a] \in Job
  BY DEF Job
<1>2. PICK j \in Job : j = [th[t] EXCEPT !.at = a]
  BY <1>1
<1>3. /\ j.job = th[t].job /\ j.at = a /\ j.n = th[t].n
      /\ j.puts = th[t].puts /\ j.mid = th[t].mid /\ j.held = th[t].held
  BY <1>2 DEF Job
<1>4. th' = [th EXCEPT ![t] = j]
  BY <1>2 DEF Step
<1>5. th'[t] = j /\ th' \in [Processes -> Job] /\ \A u \in Processes : u # t => th'[u] = th[u]
  BY <1>4, Changed
<1> QED BY <1>3, <1>5

\* A callback begins with a state that was kept.
LEMMA BeginCallbackJobs ==
  ASSUME Jobs, NEW t \in Threads, NEW s \in States, NEW k \in 1..Codes, BeginCallback(t, s, k)
  PROVE  Jobs'
<1>1. s \in Nat /\ k \in Nat /\ install = s /\ ~ locked
  BY CountFromOne DEF BeginCallback, Configured, Readable
<1>2. PICK j \in Job : /\ j = [NoJob EXCEPT !.job = "callback", !.at = "consume", !.n = s, !.held = k]
                       /\ j.job = "callback" /\ j.at = "consume" /\ j.puts = <<>> /\ ~ j.mid
                       /\ j.n = s /\ j.held = k
  <2>1. [NoJob EXCEPT !.job = "callback", !.at = "consume", !.n = s, !.held = k] \in Job
    BY <1>1, NoJobIsJob DEF Job
  <2>2. PICK j \in Job : j = [NoJob EXCEPT !.job = "callback", !.at = "consume", !.n = s, !.held = k]
    BY <2>1
  <2>3. j.job = "callback" /\ j.at = "consume" /\ j.puts = <<>> /\ ~ j.mid /\ j.n = s /\ j.held = k
    BY <2>2, NoJobIsJob DEF Job
  <2> QED BY <2>2, <2>3
<1>3. th' = [th EXCEPT ![t] = j]
  BY <1>2 DEF BeginCallback, Begin
<1>4. /\ th' \in [Processes -> Job] /\ th'[t] = j
      /\ \A u \in Processes : u # t => th'[u] = th[u]
  BY <1>3, Changed DEF Jobs, Types, Processes
<1>5. UNCHANGED <<vault, verdict, llm, locked, install, rows, due, grants, used, drawn, cut, raced>>
  BY DEF BeginCallback
<1>6. Types' /\ AwaitsDrawn' /\ drawn <= drawn'
  BY <1>4, <1>5 DEF Jobs, Types, AwaitsDrawn
<1>7. s <= drawn'
  BY <1>1, <1>5 DEF Jobs, AwaitsDrawn
<1>8. JobInv(t)'
  BY <1>1, <1>2, <1>4, <1>5, <1>7, LoopAssumption DEF JobInv, CallbackInv, Waits, Processes
<1> QED BY <1>2, <1>4, <1>5, <1>6, <1>8, LoopAssumption, QuietStep DEF Processes

\* It gives up that state.
LEMMA ConsumeJobs == ASSUME Jobs, NEW t \in Threads, Consume(t) PROVE Jobs'
<1>1. UNCHANGED <<vault, verdict, llm, locked, rows, due, grants, used, drawn, cut>> /\ install' = 0
  BY DEF Consume
<1>2. /\ th' \in [Processes -> Job]
      /\ th'[t].job = "callback" /\ th'[t].at = "exchange" /\ th'[t].n = th[t].n
      /\ th'[t].puts = th[t].puts /\ th'[t].mid = th[t].mid /\ th'[t].held = th[t].held
      /\ \A u \in Processes : u # t => th'[u] = th[u]
  BY Stepped DEF Jobs, Types, Consume, At, Processes
<1>3. CallbackInv(t) /\ th[t].at = "consume"
  BY DEF Jobs, JobInv, Consume, At, Processes
<1>4. th[t].n \in States /\ raced' \subseteq States
  BY <1>3 DEF Jobs, Types, CallbackInv, Consume
<1>5. Types' /\ AwaitsDrawn' /\ drawn <= drawn'
  BY <1>1, <1>2, <1>4 DEF Jobs, Types, AwaitsDrawn
<1>6. JobInv(t)'
  BY <1>1, <1>2, <1>3, LoopAssumption DEF JobInv, CallbackInv, Waits, Processes
<1> QED BY <1>1, <1>2, <1>5, <1>6, LoopAssumption, QuietStep DEF Processes

\* The vendor refuses its code.
LEMMA RefusedJobs == ASSUME Jobs, NEW t \in Threads, Refused(t) PROVE Jobs'
<1>1. End(t) /\ UNCHANGED <<vault, verdict, llm, locked, install, rows, due, grants, used, drawn, cut, raced>>
  BY DEF Refused
<1>2. Types' /\ AwaitsDrawn'
  BY <1>1, Ended DEF Jobs, Types, Processes, AwaitsDrawn
<1> QED BY <1>1, <1>2, EndStep, LoopAssumption DEF Processes

\* Its row is written when both tokens are in the vault.
LEMMA ConnectJobs == ASSUME Jobs, NEW t \in Threads, Connect(t) PROVE Jobs'
<1>1. End(t) /\ UNCHANGED <<vault, verdict, llm, locked, install, due, grants, used, drawn, cut, raced>>
  BY DEF Connect
<1>2. PICK c \in Conns : c = th[t].n /\ Holds(t, c) /\ grants[c].access # 0 /\ th[Loop].n # c
  BY DEF Jobs, JobInv, CallbackInv, Holds, Connect, At, Processes
<1>3. rows' = [rows EXCEPT ![c] = "connected"]
  BY <1>2 DEF Connect
<1>4. th' \in [Processes -> Job] /\ th'[t] = NoJob /\ \A u \in Processes : u # t => th'[u] = th[u]
  BY <1>1, Ended DEF Jobs, Types, Processes
<1>5. th'[t].job = "none" /\ th'[t].n = 0 /\ JobInv(t)'
  BY <1>4 DEF NoJob, JobInv
<1>6. Types' /\ AwaitsDrawn' /\ drawn <= drawn'
  BY <1>1, <1>3, <1>4 DEF Jobs, Types, AwaitsDrawn
<1>7. th'[Loop] = th[Loop]
  BY <1>4, LoopAssumption DEF Processes
<1>8. ASSUME NEW d \in Conns PROVE Left(d) \/ \A u \in Processes : Holds(u, d) => u = t
  <2>1. CASE d = c
    BY <1>2, <2>1, HoldsAlone DEF Processes
  <2>2. CASE d # c
    BY <1>1, <1>3, <1>7, <2>2 DEF Left, Jobs, Types
  <2> QED BY <2>1, <2>2
<1>9. vault[Renewal(c)] = grants[c].refresh
  <2>1. KeepInv(t, c) /\ th[t].puts = <<>>
    BY <1>2 DEF Jobs, JobInv, CallbackInv, Connect, At, Stored, Processes
  <2> QED BY <2>1, ShortSeqs DEF KeepInv, TokenPuts
<1>10. ASSUME NEW d \in Conns PROVE GrantInv(d)'
  <2>1. GrantInv(d) /\ (d = c => rows'[d] = "connected") /\ (d # c => rows'[d] = rows[d])
    BY <1>3 DEF Jobs, Types
  <2>2. th[Loop].n # d => Honoured(d)'
    BY <1>1, <1>9, <2>1 DEF GrantInv, Honoured
  <2> QED BY <1>1, <1>2, <1>7, <2>1, <2>2 DEF GrantInv
<1> QED BY <1>1, <1>4, <1>5, <1>6, <1>8, <1>10, JobsStep DEF Processes

\* Rows that are gone are not connected.
LEMMA DisconnectJobs == ASSUME Jobs, Disconnect PROVE Jobs'
<1>1. /\ UNCHANGED <<vault, verdict, llm, locked, install, due, grants, used, drawn, th, cut, raced>>
      /\ rows' = [c \in Conns |-> "none"]
  BY DEF Disconnect
<1>2. Types'
  BY <1>1 DEF Jobs, Types
<1>3. \A c \in Conns : Left(c)
  BY <1>1 DEF Left
<1> QED BY <1>1, <1>2, <1>3, StillStep

\* A token is about to expire.
LEMMA DueJobs == ASSUME Jobs, NEW c \in Conns, Due(c) PROVE Jobs'
<1>1. UNCHANGED <<vault, verdict, llm, locked, install, rows, grants, used, drawn, th, cut, raced>>
  BY DEF Due
<1>2. Types'
  BY <1>1 DEF Jobs, Types, Due
<1>3. \A d \in Conns : Left(d)
  BY <1>1 DEF Left
<1> QED BY <1>1, <1>2, <1>3, StillStep

-----------------------------------------------------------------------------
(* A sync.                                                                 *)

\* The event loop is a process.
LEMMA LoopIsProcess == Loop \in Processes /\ \A u \in Processes : u # Loop => u \in Threads
BY DEF Processes

\* A sync reads the refresh token that the vendor honours, or one that was cut.
LEMMA BeginSyncJobs == ASSUME Jobs, NEW c \in Conns, BeginSync(c) PROVE Jobs'
<1>1. /\ rows[c] = "connected" /\ grants[c].access < MaxKey /\ ~ locked
      /\ UNCHANGED <<vault, verdict, llm, locked, install, rows, due, grants, used, drawn, cut, raced>>
  BY SlotFacts DEF BeginSync, Readable
<1>2. PICK k \in Nat : k = vault[Renewal(c)]
  BY SlotFacts, CountFromOne DEF Jobs, Types
<1>3. PICK j \in Job :
        /\ j = [NoJob EXCEPT !.job = "sync", !.at = "refresh", !.n = c, !.held = k]
        /\ j.job = "sync" /\ j.at = "refresh" /\ j.puts = <<>> /\ ~ j.mid /\ j.n = c
  <2>1. [NoJob EXCEPT !.job = "sync", !.at = "refresh", !.n = c, !.held = k] \in Job
    BY NoJobIsJob, CountFromOne DEF Job
  <2>2. PICK j \in Job : j = [NoJob EXCEPT !.job = "sync", !.at = "refresh", !.n = c, !.held = k]
    BY <2>1
  <2>3. j.job = "sync" /\ j.at = "refresh" /\ j.puts = <<>> /\ ~ j.mid /\ j.n = c
    BY <2>2, NoJobIsJob, CountFromOne DEF Job
  <2> QED BY <2>2, <2>3
<1>4. th' = [th EXCEPT ![Loop] = j] /\ th[Loop] = NoJob
  BY <1>2, <1>3 DEF BeginSync, Begin
<1>5. /\ th' \in [Processes -> Job] /\ th'[Loop] = j
      /\ \A u \in Processes : u # Loop => th'[u] = th[u]
  BY <1>4, LoopIsProcess, Changed DEF Jobs, Types
<1>6. Types' /\ AwaitsDrawn' /\ drawn <= drawn'
  BY <1>1, <1>5 DEF Jobs, Types, AwaitsDrawn
<1>7. grants[c].access # 0 /\ th[Loop].n # c
  BY <1>1, <1>4, NoJobIsJob, CountFromOne DEF Jobs, GrantInv
<1>8. Renewal(c) \notin cut => vault[Renewal(c)] = grants[c].refresh
  BY <1>1, <1>7 DEF Jobs, GrantInv, Honoured
<1>9. JobInv(Loop)'
  BY <1>1, <1>3, <1>5, <1>7, <1>8 DEF JobInv, SyncInv, Waits
<1>10. ASSUME NEW d \in Conns PROVE Left(d) \/ \A u \in Processes : Holds(u, d) => u = Loop
  <2>1. CASE d = c
    <3>1. \A u \in Processes : Holds(u, c) => u = Loop
      BY <1>1 DEF Holds, Jobs, JobInv, CallbackInv
    <3> QED BY <2>1, <3>1
  <2>2. CASE d # c
    BY <1>1, <1>3, <1>5, <2>2 DEF Left
  <2> QED BY <2>1, <2>2
<1>11. ASSUME NEW d \in Conns PROVE GrantInv(d)'
  <2>1. GrantInv(d) /\ th[Loop].n # d
    BY <1>4, NoJobIsJob, CountFromOne DEF Jobs
  <2>2. Honoured(d)'
    BY <1>1, <2>1 DEF GrantInv, Honoured
  <2> QED BY <1>1, <1>3, <1>5, <1>7, <2>1, <2>2 DEF GrantInv
<1> QED BY <1>1, <1>3, <1>5, <1>6, <1>9, <1>10, <1>11, LoopIsProcess, JobsStep

\* A refused refresh changes no token.
LEMMA RefreshRefusedJobs == ASSUME Jobs, RefreshRefused PROVE Jobs'
<1>1. UNCHANGED <<vault, verdict, llm, locked, install, rows, due, grants, used, drawn, cut, raced>>
  BY DEF RefreshRefused
<1>2. /\ th' \in [Processes -> Job]
      /\ th'[Loop].job = th[Loop].job /\ th'[Loop].at = "reauth" /\ th'[Loop].n = th[Loop].n
      /\ th'[Loop].puts = th[Loop].puts /\ th'[Loop].mid = th[Loop].mid
      /\ \A u \in Processes : u # Loop => th'[u] = th[u]
  BY Stepped, LoopIsProcess DEF Jobs, Types, RefreshRefused
<1>3. SyncInv(Loop) /\ th[Loop].at = "refresh" /\ th[Loop].job = "sync"
  BY LoopIsProcess DEF Jobs, JobInv, RefreshRefused, At
<1>4. Types' /\ AwaitsDrawn' /\ drawn <= drawn'
  BY <1>1, <1>2 DEF Jobs, Types, AwaitsDrawn
<1>5. JobInv(Loop)'
  BY <1>1, <1>2, <1>3 DEF JobInv, SyncInv, Waits
<1> QED BY <1>1, <1>2, <1>3, <1>4, <1>5, LoopIsProcess, QuietStep

\* Its row is no longer connected.
LEMMA ReauthJobs == ASSUME Jobs, Reauth PROVE Jobs'
<1>1. End(Loop) /\ UNCHANGED <<vault, verdict, llm, locked, install, due, grants, used, drawn, cut, raced>>
  BY DEF Reauth
<1>2. PICK c \in Conns : c = th[Loop].n /\ grants[c].access # 0
  BY LoopIsProcess DEF Jobs, JobInv, SyncInv, Reauth, At
<1>3. rows' = [rows EXCEPT ![c] = IF @ = "none" THEN @ ELSE "reauth_required"]
  BY <1>2 DEF Reauth
<1>4. th' \in [Processes -> Job] /\ th'[Loop] = NoJob /\ \A u \in Processes : u # Loop => th'[u] = th[u]
  BY <1>1, Ended, LoopIsProcess DEF Jobs, Types
<1>5. JobInv(Loop)' /\ th'[Loop].n = 0 /\ th'[Loop].job = "none"
  BY <1>4, NoJobIsJob DEF JobInv
<1>6. Types' /\ AwaitsDrawn' /\ drawn <= drawn'
  BY <1>1, <1>3, <1>4 DEF Jobs, Types, AwaitsDrawn
<1>7. ASSUME NEW d \in Conns PROVE Left(d) /\ GrantInv(d)'
  <2>1. GrantInv(d) /\ (d # c => rows'[d] = rows[d]) /\ rows'[c] \in {"none", "reauth_required"}
    BY <1>3 DEF Jobs, Types
  <2>2. (rows[d] = "none" => rows'[d] = "none") /\ (rows'[d] = "connected" => rows[d] = "connected")
    BY <1>3 DEF Jobs, Types
  <2>3. Left(d)
    BY <1>1, <1>5, <2>2, CountFromOne DEF Left
  <2>4. Honoured(d)'
    BY <1>1, <1>2, <2>1 DEF GrantInv, Honoured
  <2> QED BY <1>1, <1>5, <2>1, <2>2, <2>3, <2>4, CountFromOne DEF GrantInv
<1> QED BY <1>1, <1>4, <1>5, <1>6, <1>7, LoopIsProcess, JobsStep

\* A refresh ends with both tokens in the vault.
LEMMA RefreshEndJobs == ASSUME Jobs, RefreshEnd PROVE Jobs'
<1>1. End(Loop) /\ UNCHANGED <<vault, verdict, llm, locked, install, rows, grants, used, drawn, cut, raced>>
  BY DEF RefreshEnd
<1>2. Types' /\ AwaitsDrawn'
  BY <1>1, Ended, LoopIsProcess DEF Jobs, Types, RefreshEnd, AwaitsDrawn
<1>3. ASSUME NEW c \in Conns, th[Loop].n = c PROVE Honoured(c)
  <2>1. KeepInv(Loop, c) /\ th[Loop].puts = <<>>
    BY <1>3, LoopIsProcess DEF Jobs, JobInv, SyncInv, RefreshEnd, At, Stored
  <2> QED BY <2>1, ShortSeqs DEF KeepInv, TokenPuts, Honoured
<1> QED BY <1>1, <1>2, <1>3, EndStep, LoopIsProcess

\* A crash, and a start after it.
LEMMA RestartJobs == ASSUME Jobs, Crash \/ Restart PROVE Jobs'
<1>1. UNCHANGED <<vault, verdict, llm, install, rows, due, grants, used, drawn, raced>>
  BY DEF Crash, Restart
<1>2. th' \in [Processes -> Job] /\ \A u \in Processes : th'[u] = NoJob
  <2>1. CASE Crash
    BY <2>1, NoJobIsJob DEF Crash
  <2>2. CASE Restart
    BY <2>2 DEF Restart, Jobs, Types
  <2> QED BY <2>1, <2>2
<1>3. locked' \in BOOLEAN /\ cut' \subseteq Slots
  BY DEF Crash, Restart, Jobs, Types
<1>4. Types' /\ AwaitsDrawn'
  BY <1>1, <1>2, <1>3 DEF Jobs, Types, AwaitsDrawn
<1>5. \A u \in Processes : JobInv(u)'
  BY <1>2, NoJobIsJob DEF JobInv
<1>6. ASSUME NEW c \in Conns PROVE GrantInv(c)'
  <2>1. GrantInv(c) /\ th'[Loop].n # c
    BY <1>2, NoJobIsJob, LoopIsProcess, CountFromOne DEF Jobs
  <2>2. Renewal(c) \notin cut' => Renewal(c) \notin cut
    BY DEF Crash, Restart
  <2>3. CASE th[Loop].n # c
    <3>1. Honoured(c)'
      BY <1>1, <2>1, <2>2, <2>3 DEF GrantInv, Honoured
    <3> QED BY <1>1, <2>1, <3>1 DEF GrantInv
  <2>4. CASE th[Loop].n = c
    <3>1. Crash /\ SyncInv(Loop)
      <4>1. th[Loop] # NoJob /\ th[Loop].job # "none"
        BY <2>4, NoJobIsJob, CountFromOne, LoopIsProcess DEF Jobs, JobInv
      <4> QED BY <4>1, LoopIsProcess DEF Jobs, JobInv, Restart
    <3>2. CASE th[Loop].at # "keep" \/ th[Loop].puts = <<>>
      <4>1. Renewal(c) \notin cut => vault[Renewal(c)] = grants[c].refresh
        BY <2>4, <3>1, <3>2, ShortSeqs DEF SyncInv, KeepInv, TokenPuts
      <4>2. Honoured(c)'
        BY <1>1, <2>2, <4>1 DEF Honoured
      <4> QED BY <1>1, <2>1, <4>2 DEF GrantInv
    <3>3. CASE th[Loop].at = "keep" /\ th[Loop].puts # <<>>
      <4>1. \E i \in DOMAIN th[Loop].puts : th[Loop].puts[i][1] = Renewal(c)
        <5>1. \/ th[Loop].puts = <<<<Access(c), grants[c].access>>, <<Renewal(c), grants[c].refresh>>>>
              \/ th[Loop].puts = <<<<Renewal(c), grants[c].refresh>>>>
          BY <2>4, <3>1, <3>3 DEF SyncInv, KeepInv, TokenPuts
        <5> QED BY <5>1
      <4>2. Renewal(c) \in cut'
        BY <3>1, <4>1, SlotFacts, LoopIsProcess DEF Crash, Replacing
      <4> QED BY <1>1, <2>1, <4>2 DEF GrantInv, Honoured
    <3> QED BY <3>2, <3>3
  <2> QED BY <2>3, <2>4
<1>7. ConnectsAlone'
  BY <1>2, NoJobIsJob DEF ConnectsAlone, Connects
<1> QED BY <1>4, <1>5, <1>6, <1>7 DEF Jobs

-----------------------------------------------------------------------------
(* A secret is replaced.                                                   *)

\* Whose secret a request is about to put: the provider's, the client's, or one
\* of a connection that it has in hand.
PutsKey(t) == /\ th[t].job = "rotate" /\ t \in Threads /\ Slot(t) = Provider
              /\ Tail(th[t].puts) = <<>>
PutsClient(t) == /\ th[t].job \in {"configure", "install"} /\ t \in Threads /\ Slot(t) = Client
                 /\ Head(th[t].puts)[2] = 1 /\ Tail(th[t].puts) = <<>>
PutsToken(t, c) ==
  /\ Holds(t, c) /\ KeepInv(t, c) /\ ~ locked /\ grants[c].access # 0
  /\ th[t].job = "callback" => th[t].at = "connect" /\ rows[c] = "none" /\ th[Loop].n # c
  /\ th[t].job = "sync" => th[t].at = "keep" /\ t = Loop
  /\ Slot(t) \in {Access(c), Renewal(c)}

\* There is nothing else that a request puts.
LEMMA WhatIsPut ==
  ASSUME Jobs, NEW t \in Processes, th[t].puts # <<>>
  PROVE  /\ Slot(t) \in Slots /\ Head(th[t].puts)[2] \in Secrets
         /\ PutsKey(t) \/ PutsClient(t) \/ \E c \in Conns : PutsToken(t, c)
<1>1. Head(th[t].puts) \in Slots \X Secrets
  BY DEF Jobs, Types, Job
<1>2. JobInv(t) /\ th[t].job \in {"none", "rotate", "test", "configure", "install", "callback", "sync"}
  BY DEF Jobs, Types, Job
<1>3. CASE th[t].job \in {"none", "test"}
  BY <1>2, <1>3, NoJobIsJob DEF JobInv, TestInv, Waits
<1>4. CASE th[t].job = "rotate"
  <2>1. PICK k \in Secrets : th[t].puts = <<<<Provider, k>>>>
    BY <1>2, <1>4 DEF JobInv, RotateInv
  <2> QED BY <1>1, <1>2, <1>4, <2>1, ShortSeqs, LoopIsProcess DEF JobInv, PutsKey, Slot
<1>5. CASE th[t].job \in {"configure", "install"}
  <2>1. th[t].puts = <<<<Client, 1>>>>
    BY <1>2, <1>5 DEF JobInv, ClientInv
  <2> QED BY <1>1, <1>2, <1>5, <2>1, ShortSeqs, LoopIsProcess DEF JobInv, PutsClient, Slot
<1>6. ASSUME NEW c \in Conns, KeepInv(t, c) PROVE Slot(t) \in {Access(c), Renewal(c)}
  BY <1>6, ShortSeqs DEF KeepInv, TokenPuts, Slot
<1>7. CASE th[t].job = "callback"
  <2>1. PICK c \in Conns : /\ c = th[t].n /\ KeepInv(t, c) /\ ~ locked /\ grants[c].access # 0
                           /\ rows[c] = "none" /\ th[Loop].n # c /\ th[t].at = "connect"
    BY <1>2, <1>7 DEF JobInv, CallbackInv, Waits
  <2>2. PutsToken(t, c)
    BY <1>6, <1>7, <2>1 DEF PutsToken, Holds
  <2> QED BY <1>1, <2>2 DEF Slot
<1>8. CASE th[t].job = "sync"
  <2>1. PICK c \in Conns : /\ c = th[t].n /\ KeepInv(t, c) /\ ~ locked /\ grants[c].access # 0
                           /\ th[t].at = "keep" /\ t = Loop
    BY <1>2, <1>8 DEF JobInv, SyncInv, Waits
  <2>2. PutsToken(t, c)
    BY <1>6, <1>8, <2>1 DEF PutsToken, Holds
  <2> QED BY <1>1, <2>2 DEF Slot
<1> QED BY <1>2, <1>3, <1>4, <1>5, <1>7, <1>8

\* A request that puts a secret changes no token that another has in hand.
LEMMA PutsApart ==
  ASSUME Jobs, NEW t \in Processes, th[t].puts # <<>>, NEW d \in Conns
  PROVE  \/ Slot(t) \notin {Access(d), Renewal(d)}
         \/ PutsToken(t, d) /\ \A u \in Processes : Holds(u, d) => u = t
<1>1. PutsKey(t) \/ PutsClient(t) \/ \E c \in Conns : PutsToken(t, c)
  BY WhatIsPut
<1>2. CASE PutsKey(t) \/ PutsClient(t)
  BY <1>2, SlotFacts DEF PutsKey, PutsClient
<1>3. ASSUME NEW c \in Conns, PutsToken(t, c), c # d PROVE Slot(t) \notin {Access(d), Renewal(d)}
  BY <1>3, SlotFacts DEF PutsToken
<1>4. PutsToken(t, d) => \A u \in Processes : Holds(u, d) => u = t
  BY HoldsAlone DEF PutsToken
<1> QED BY <1>1, <1>2, <1>3, <1>4

\* A request that has deleted what it is to store.
LEMMA Deleted ==
  ASSUME Jobs, NEW t \in Processes, th' = [th EXCEPT ![t].mid = TRUE]
  PROVE  /\ th' \in [Processes -> Job]
         /\ th'[t].job = th[t].job /\ th'[t].at = th[t].at /\ th'[t].n = th[t].n
         /\ th'[t].puts = th[t].puts /\ th'[t].mid /\ th'[t].held = th[t].held
         /\ \A u \in Processes : u # t => th'[u] = th[u]
<1>1. th \in [Processes -> Job] /\ th[t] \in Job
  BY DEF Jobs, Types
<1>2. PICK j \in Job : j = [th[t] EXCEPT !.mid = TRUE]
  <2>1. [th[t] EXCEPT !.mid = TRUE] \in Job
    BY <1>1 DEF Job
  <2> QED BY <2>1
<1>3. /\ j.job = th[t].job /\ j.at = th[t].at /\ j.n = th[t].n
      /\ j.puts = th[t].puts /\ j.mid /\ j.held = th[t].held
  BY <1>1, <1>2 DEF Job
<1>4. th' = [th EXCEPT ![t] = j]
  BY <1>2
<1>5. th'[t] = j /\ th' \in [Processes -> Job] /\ \A u \in Processes : u # t => th'[u] = th[u]
  BY <1>1, <1>4, Changed
<1> QED BY <1>3, <1>5

\* The deletion of a secret leaves what other requests have put.
LEMMA PutDeleteJobs == ASSUME Jobs, NEW t \in Processes, PutDelete(t) PROVE Jobs'
<1>1. /\ th[t].puts # <<>> /\ ~ th[t].mid /\ vault' = [vault EXCEPT ![Slot(t)] = 0]
      /\ UNCHANGED <<llm, locked, install, rows, due, grants, used, drawn, cut, raced>>
  BY DEF PutDelete
<1>2. Slot(t) \in Slots
  BY <1>1, WhatIsPut
<1>3. /\ vault' \in [Slots -> 0..MaxKey] /\ vault'[Slot(t)] = 0
      /\ \A s \in Slots : s # Slot(t) => vault'[s] = vault[s]
  BY <1>1, <1>2, CountFromOne DEF Jobs, Types
<1>4. verdict' \in [{"vault", "llm"} -> {"untested", "valid", "invalid"}]
  BY DEF Jobs, Types, PutDelete, Untested
<1>5. CASE th[t].job = "rotate" /\ vault[Slot(t)] = 0
  <2>1. End(t) /\ PutsKey(t)
    BY <1>1, <1>5, WhatIsPut DEF PutDelete, PutsKey, PutsClient, PutsToken, Holds
  <2>2. vault' = vault
    BY <1>2, <1>3, <1>5 DEF Jobs, Types
  <2>3. Types' /\ AwaitsDrawn'
    BY <1>1, <1>3, <1>4, <2>1, Ended DEF Jobs, Types, AwaitsDrawn
  <2> QED BY <1>1, <2>1, <2>2, <2>3, EndStep, LoopAssumption DEF PutsKey
<1>6. CASE ~ (th[t].job = "rotate" /\ vault[Slot(t)] = 0)
  <2>1. /\ th' \in [Processes -> Job]
        /\ th'[t].job = th[t].job /\ th'[t].at = th[t].at /\ th'[t].n = th[t].n
        /\ th'[t].puts = th[t].puts /\ th'[t].mid /\ th'[t].held = th[t].held
        /\ \A u \in Processes : u # t => th'[u] = th[u]
    BY <1>6, Deleted DEF PutDelete
  <2>2. Types' /\ AwaitsDrawn' /\ drawn <= drawn'
    BY <1>1, <1>3, <1>4, <2>1 DEF Jobs, Types, AwaitsDrawn
  <2>3. th'[Loop].n = th[Loop].n
    BY <2>1, LoopIsProcess
  <2>4. ASSUME NEW d \in Conns PROVE Left(d) \/ \A u \in Processes : Holds(u, d) => u = t
    <3>1. CASE Slot(t) \notin {Access(d), Renewal(d)}
      BY <1>1, <1>3, <2>3, <3>1, SlotFacts DEF Left
    <3> QED BY <1>1, <3>1, PutsApart
  <2>5. ASSUME NEW d \in Conns PROVE GrantInv(d)'
    <3>1. GrantInv(d)
      BY DEF Jobs
    <3>2. th[Loop].n # d => Honoured(d)'
      <4>1. CASE Slot(t) \notin {Access(d), Renewal(d)}
        BY <1>1, <1>3, <3>1, <4>1, SlotFacts DEF GrantInv, Honoured
      <4>2. CASE PutsToken(t, d)
        BY <1>1, <4>2 DEF PutsToken, Holds, Honoured
      <4> QED BY <1>1, <4>1, <4>2, PutsApart
    <3> QED BY <1>1, <2>3, <3>1, <3>2 DEF GrantInv
  <2>6. JobInv(t)'
    <3>1. Slot(t)' = Slot(t)
      BY <2>1 DEF Slot
    <3>2. CASE PutsKey(t)
      BY <1>1, <2>1, <3>2, LoopAssumption DEF Jobs, JobInv, PutsKey, RotateInv
    <3>3. CASE PutsClient(t)
      BY <1>1, <2>1, <3>3, LoopAssumption DEF Jobs, JobInv, PutsClient, ClientInv
    <3>4. ASSUME NEW c \in Conns, PutsToken(t, c) PROVE JobInv(t)'
      <4>1. KeepInv(t, c) /\ Slot(t) \in {Access(c), Renewal(c)}
        BY <3>4 DEF PutsToken
      <4>2. KeepInv(t, c)'
        <5>1. CASE th[t].puts = TokenPuts(c, grants[c])
          BY <1>1, <1>3, <2>1, <3>1, <5>1 DEF KeepInv, TokenPuts
        <5>2. CASE th[t].puts = <<<<Renewal(c), grants[c].refresh>>>> /\ vault[Access(c)] # 0
          <6>1. Slot(t) = Renewal(c) /\ vault'[Access(c)] # 0
            BY <1>3, <5>2, ShortSeqs, SlotFacts DEF Slot
          <6> QED BY <1>1, <1>3, <2>1, <3>1, <5>2, <6>1 DEF KeepInv
        <5> QED BY <1>1, <4>1, <5>1, <5>2 DEF KeepInv
      <4>3. th'[Loop].n # c \/ th[t].job = "sync"
        BY <2>3, <3>4 DEF PutsToken, Holds
      <4> QED BY <1>1, <2>1, <3>4, <4>2, <4>3, LoopIsProcess DEF Jobs, JobInv, PutsToken, Holds, CallbackInv, SyncInv
    <3> QED BY <1>1, <3>2, <3>3, <3>4, WhatIsPut
  <2>7. \A c \in Conns : th'[t].job = "callback" /\ th'[t].at = "connect" /\ th'[t].n = c => Connects(t, c)
    BY <2>1 DEF Connects
  <2> QED BY <1>1, <2>1, <2>2, <2>4, <2>5, <2>6, <2>7, JobsStep
<1> QED BY <1>5, <1>6

\* A request that has stored one of its secrets.
LEMMA StoredOne ==
  ASSUME Jobs, NEW t \in Processes, th[t].puts # <<>>,
         th' = [th EXCEPT ![t].puts = Tail(@), ![t].mid = FALSE]
  PROVE  /\ th' \in [Processes -> Job]
         /\ th'[t].job = th[t].job /\ th'[t].at = th[t].at /\ th'[t].n = th[t].n
         /\ th'[t].puts = Tail(th[t].puts) /\ ~ th'[t].mid /\ th'[t].held = th[t].held
         /\ \A u \in Processes : u # t => th'[u] = th[u]
<1>1. th \in [Processes -> Job] /\ th[t] \in Job
  BY DEF Jobs, Types
<1>2. PICK p \in Seq(Slots \X Secrets) : p = Tail(th[t].puts)
  <2>1. th[t].puts \in Seq(Slots \X Secrets)
    BY <1>1 DEF Job
  <2>2. Tail(th[t].puts) \in Seq(Slots \X Secrets)
    BY <2>1
  <2> QED BY <2>2
<1>3. PICK j \in Job : j = [th[t] EXCEPT !.puts = p, !.mid = FALSE]
  <2>1. [th[t] EXCEPT !.puts = p, !.mid = FALSE] \in Job
    BY <1>1 DEF Job
  <2> QED BY <2>1
<1>4. /\ j.job = th[t].job /\ j.at = th[t].at /\ j.n = th[t].n
      /\ j.puts = p /\ ~ j.mid /\ j.held = th[t].held
  BY <1>1, <1>3 DEF Job
<1>5. th' = [th EXCEPT ![t] = j]
  BY <1>1, <1>2, <1>3
<1>6. th'[t] = j /\ th' \in [Processes -> Job] /\ \A u \in Processes : u # t => th'[u] = th[u]
  BY <1>1, <1>5, Changed
<1> QED BY <1>2, <1>4, <1>6

\* A request whose storing fails ends, and leaves its secret cut.
LEMMA StoreFailsJobs ==
  ASSUME Jobs, NEW t \in Processes, PutStore(t), StoreFails(t) PROVE Jobs'
<1>1. /\ th[t].puts # <<>> /\ th[t].mid /\ (locked \/ vault[Slot(t)] # 0) /\ End(t)
      /\ cut' = cut \cup {s \in {Slot(t)} : vault[s] = 0}
      /\ UNCHANGED <<vault, verdict, llm, locked, install, rows, due, grants, used, drawn, raced>>
  BY DEF PutStore, StoreFails
<1>2. Slot(t) \in Slots
  BY <1>1, WhatIsPut
<1>3. Types' /\ AwaitsDrawn'
  BY <1>1, <1>2, Ended DEF Jobs, Types, AwaitsDrawn
<1>4. \A c \in Conns : ~ PutsToken(t, c)
  BY <1>1 DEF PutsToken, KeepInv
<1>5. t # Loop
  BY <1>1, <1>4, WhatIsPut, LoopAssumption DEF PutsKey, PutsClient
<1> QED BY <1>1, <1>3, <1>5, EndStep

\* A secret that is stored is the next one its request keeps.
LEMMA PutStoreJobs == ASSUME Jobs, NEW t \in Processes, PutStore(t) PROVE Jobs'
<1>1. CASE StoreFails(t)
  BY <1>1, StoreFailsJobs
<1>2. CASE ~ StoreFails(t)
  <2>1. /\ th[t].puts # <<>> /\ th[t].mid /\ ~ locked /\ vault[Slot(t)] = 0
        /\ vault' = [vault EXCEPT ![Slot(t)] = Head(th[t].puts)[2]]
        /\ cut' = cut \ {Slot(t)} /\ verdict' = Untested(t)
        /\ install' = IF th[t].job = "callback" THEN 0 ELSE install
        /\ th' = [th EXCEPT ![t].puts = Tail(@), ![t].mid = FALSE]
        /\ UNCHANGED <<llm, locked, rows, due, grants, used, drawn, raced>>
    BY <1>2 DEF PutStore
  <2>2. Slot(t) \in Slots /\ Head(th[t].puts)[2] \in Secrets
    BY <2>1, WhatIsPut
  <2>3. /\ vault' \in [Slots -> 0..MaxKey] /\ vault'[Slot(t)] = Head(th[t].puts)[2]
        /\ \A s \in Slots : s # Slot(t) => vault'[s] = vault[s]
    BY <2>1, <2>2, CountFromOne DEF Jobs, Types, Secrets
  <2>4. verdict' \in [{"vault", "llm"} -> {"untested", "valid", "invalid"}]
    BY <2>1 DEF Jobs, Types, Untested
  <2>5. /\ th' \in [Processes -> Job]
        /\ th'[t].job = th[t].job /\ th'[t].at = th[t].at /\ th'[t].n = th[t].n
        /\ th'[t].puts = Tail(th[t].puts) /\ ~ th'[t].mid /\ th'[t].held = th[t].held
        /\ \A u \in Processes : u # t => th'[u] = th[u]
    BY <2>1, StoredOne
  <2>6. Types'
    BY <2>1, <2>3, <2>4, <2>5 DEF Jobs, Types
  <2>7. AwaitsDrawn' /\ drawn <= drawn'
    BY <2>1 DEF Jobs, Types, AwaitsDrawn
  <2>8. th'[Loop].n = th[Loop].n
    BY <2>5, LoopIsProcess
  <2>9. ASSUME NEW d \in Conns PROVE Left(d) \/ \A u \in Processes : Holds(u, d) => u = t
    <3>1. CASE Slot(t) \notin {Access(d), Renewal(d)}
      <4>1. /\ vault'[Access(d)] = vault[Access(d)] /\ vault'[Renewal(d)] = vault[Renewal(d)]
            /\ Renewal(d) \in cut => Renewal(d) \in cut'
        BY <2>1, <2>3, <3>1, SlotFacts
      <4> QED BY <2>1, <2>8, <4>1 DEF Left
    <3> QED BY <2>1, <3>1, PutsApart
  <2>10. ASSUME NEW d \in Conns PROVE GrantInv(d)'
    <3>1. GrantInv(d)
      BY DEF Jobs
    <3>2. th[Loop].n # d => Honoured(d)'
      <4>1. CASE Slot(t) \notin {Access(d), Renewal(d)}
        <5>1. vault'[Renewal(d)] = vault[Renewal(d)] /\ (Renewal(d) \in cut => Renewal(d) \in cut')
          BY <2>1, <2>3, <4>1, SlotFacts
        <5> QED BY <2>1, <3>1, <5>1 DEF GrantInv, Honoured
      <4>2. CASE PutsToken(t, d)
        BY <2>1, <4>2 DEF PutsToken, Holds, Honoured
      <4> QED BY <2>1, <4>1, <4>2, PutsApart
    <3> QED BY <2>1, <2>8, <3>1, <3>2 DEF GrantInv
  <2>11. JobInv(t)'
    <3>1. CASE PutsKey(t)
      BY <2>5, <3>1, LoopAssumption DEF JobInv, PutsKey, RotateInv
    <3>2. CASE PutsClient(t)
      BY <2>1, <2>5, <3>2, LoopAssumption DEF Jobs, JobInv, PutsClient, ClientInv
    <3>3. ASSUME NEW c \in Conns, PutsToken(t, c) PROVE JobInv(t)'
      <4>1. KeepInv(t, c)
        BY <3>3 DEF PutsToken
      <4>2. KeepInv(t, c)'
        <5>1. CASE th[t].puts = TokenPuts(c, grants[c])
          <6>1. /\ Slot(t) = Access(c) /\ Head(th[t].puts)[2] = grants[c].access
                /\ Tail(th[t].puts) = <<<<Renewal(c), grants[c].refresh>>>>
            BY <5>1, ShortSeqs DEF TokenPuts, Slot
          <6>2. vault'[Access(c)] # 0
            BY <2>3, <3>3, <6>1 DEF PutsToken
          <6> QED BY <2>1, <2>5, <6>1, <6>2 DEF KeepInv
        <5>2. CASE th[t].puts = <<<<Renewal(c), grants[c].refresh>>>> /\ vault[Access(c)] # 0
          <6>1. /\ Slot(t) = Renewal(c) /\ Head(th[t].puts)[2] = grants[c].refresh
                /\ Tail(th[t].puts) = <<>>
            BY <5>2, ShortSeqs DEF Slot
          <6>2. vault'[Renewal(c)] = grants[c].refresh /\ vault'[Access(c)] # 0
            BY <2>3, <5>2, <6>1, SlotFacts
          <6> QED BY <2>1, <2>5, <6>1, <6>2 DEF KeepInv
        <5> QED BY <2>1, <4>1, <5>1, <5>2 DEF KeepInv
      <4>3. th'[Loop].n # c \/ th[t].job = "sync"
        BY <2>8, <3>3 DEF PutsToken, Holds
      <4> QED BY <2>1, <2>5, <3>3, <4>2, <4>3, LoopIsProcess DEF Jobs, JobInv, PutsToken, Holds, CallbackInv, SyncInv
    <3> QED BY <2>1, <3>1, <3>2, <3>3, WhatIsPut
  <2>12. \A c \in Conns : th'[t].job = "callback" /\ th'[t].at = "connect" /\ th'[t].n = c => Connects(t, c)
    BY <2>5 DEF Connects
  <2> QED BY <2>1, <2>5, <2>6, <2>7, <2>9, <2>10, <2>11, <2>12, JobsStep
<1> QED BY <1>1, <1>2

-----------------------------------------------------------------------------
(* The vendor grants tokens.                                               *)

\* Two tokens to keep.
LEMMA TokenPutsTyped ==
  ASSUME NEW c \in Conns, NEW g \in Grant, g.access # 0, g.refresh # 0
  PROVE  TokenPuts(c, g) \in Seq(Slots \X Secrets)
<1>1. <<Access(c), g.access>> \in Slots \X Secrets /\ <<Renewal(c), g.refresh>> \in Slots \X Secrets
  BY SlotFacts, CountFromOne DEF Grant, Secrets
<1> QED BY <1>1 DEF TokenPuts

\* The first tokens of a connection.
LEMMA ExchangeJobs == ASSUME Jobs, NEW t \in Threads, Exchange(t) PROVE Jobs'
<1>1. PICK g \in Grant : g = [access |-> 1, refresh |-> 1] /\ g.access = 1 /\ g.refresh = 1
  <2>1. 1 \in 0..MaxKey
    BY CountFromOne
  <2>2. [access |-> 1, refresh |-> 1] \in Grant
    BY <2>1 DEF Grant
  <2> QED BY <2>2
<1>2. PICK c \in Conns :
        /\ grants[c].access = 0 /\ grants' = [grants EXCEPT ![c] = g]
        /\ used' = used \cup {<<<<th[t].n, th[t].held>>, c>>}
        /\ th' = [th EXCEPT ![t].at = "connect", ![t].n = c, ![t].puts = TokenPuts(c, g)]
  BY <1>1 DEF Exchange, Ungranted
<1>3. /\ th[t].job = "callback" /\ th[t].at = "exchange" /\ t \in Processes
      /\ UNCHANGED <<vault, verdict, llm, locked, install, rows, due, drawn, cut, raced>>
  BY DEF Exchange, At, Processes
<1>4. CallbackInv(t) /\ ~ locked /\ th[t].n \in States /\ th[t].held \in 1..Codes /\ ~ th[t].mid
  BY <1>3 DEF Jobs, JobInv, CallbackInv, Waits
<1>5. TokenPuts(c, g) \in Seq(Slots \X Secrets)
  BY <1>1, TokenPutsTyped
<1>6. PICK j \in Job : /\ th' = [th EXCEPT ![t] = j]
                       /\ j.job = "callback" /\ j.at = "connect" /\ j.n = c
                       /\ j.puts = TokenPuts(c, g) /\ ~ j.mid
  <2>1. th[t] \in Job /\ th \in [Processes -> Job] /\ c \in Nat
    BY <1>3, CountFromOne DEF Jobs, Types
  <2>2. PICK p \in Seq(Slots \X Secrets) : p = TokenPuts(c, g)
    BY <1>5
  <2>3. [th[t] EXCEPT !.at = "connect", !.n = c, !.puts = p] \in Job
    BY <2>1 DEF Job
  <2>4. PICK j \in Job : j = [th[t] EXCEPT !.at = "connect", !.n = c, !.puts = p]
    BY <2>3
  <2>5. j.job = "callback" /\ j.at = "connect" /\ j.n = c /\ j.puts = p /\ ~ j.mid
    BY <1>3, <1>4, <2>1, <2>4 DEF Job
  <2>6. th' = [th EXCEPT ![t] = j]
    BY <1>2, <1>3, <2>1, <2>2, <2>4
  <2> QED BY <2>2, <2>5, <2>6
<1>7. /\ th' \in [Processes -> Job] /\ th'[t] = j
      /\ \A u \in Processes : u # t => th'[u] = th[u]
  BY <1>3, <1>6, Changed DEF Jobs, Types
<1>8. grants' \in [Conns -> Grant] /\ grants'[c] = g /\ \A d \in Conns : d # c => grants'[d] = grants[d]
  BY <1>2 DEF Jobs, Types
<1>9. used' \subseteq (States \X (1..Codes)) \X Conns
  BY <1>2, <1>4 DEF Jobs, Types
<1>10. Types' /\ AwaitsDrawn' /\ drawn <= drawn'
  BY <1>3, <1>7, <1>8, <1>9 DEF Jobs, Types, AwaitsDrawn
<1>11. rows[c] = "none" /\ th[Loop].n # c
  BY <1>2 DEF Jobs, GrantInv
<1>12. \A u \in Processes : ~ Holds(u, c)
  BY <1>2 DEF Jobs, JobInv, CallbackInv, SyncInv, Holds
<1>13. th'[Loop] = th[Loop]
  BY <1>7, LoopIsProcess, LoopAssumption
<1>14. ASSUME NEW d \in Conns PROVE Left(d) \/ \A u \in Processes : Holds(u, d) => u = t
  BY <1>3, <1>8, <1>12, <1>13 DEF Left
<1>15. ASSUME NEW d \in Conns PROVE GrantInv(d)'
  <2>1. GrantInv(d)
    BY DEF Jobs
  <2>2. CASE d = c
    BY <1>1, <1>3, <1>8, <1>11, <2>2 DEF GrantInv, Honoured
  <2>3. CASE d # c
    BY <1>3, <1>8, <1>13, <2>1, <2>3 DEF GrantInv, Honoured
  <2> QED BY <2>2, <2>3
<1>16. JobInv(t)'
  <2>1. KeepInv(t, c)'
    BY <1>6, <1>7, <1>8 DEF KeepInv
  <2> QED BY <1>1, <1>3, <1>4, <1>6, <1>7, <1>8, <1>11, <1>13, <2>1, LoopAssumption DEF JobInv, CallbackInv
<1>17. \A d \in Conns : th'[t].n = d => \A u \in Processes : ~ Connects(u, d)
  BY <1>6, <1>7, <1>12 DEF Connects, Holds
<1> QED BY <1>3, <1>7, <1>10, <1>14, <1>15, <1>16, <1>17, JobsStep

\* What a refresh grants.
LEMMA Granted ==
  ASSUME Jobs, At(Loop, "sync", "refresh"), NEW pair \in Pairs(th[Loop].n)
  PROVE  \E c \in Conns : /\ c = th[Loop].n /\ Holds(Loop, c) /\ SyncInv(Loop) /\ Waits(Loop)
                          /\ pair \in Grant /\ pair.access # 0 /\ pair.refresh # 0
                          /\ pair.refresh <= pair.access /\ pair.refresh >= grants[c].refresh
<1>1. PICK c \in Conns : /\ c = th[Loop].n /\ Holds(Loop, c) /\ SyncInv(Loop) /\ Waits(Loop)
                         /\ grants[c].access # 0 /\ grants[c].access < MaxKey
  BY LoopIsProcess DEF Jobs, JobInv, SyncInv, At, Holds
<1>2. PICK g \in Grant : g = grants[c] /\ g.refresh <= g.access /\ g.refresh # 0
  BY <1>1 DEF Jobs, Types, GrantInv
<1>3. PICK r \in {0, 1} : pair = [access |-> g.access + 1, refresh |-> g.refresh + r]
  BY <1>1, <1>2 DEF Pairs
<1>4. g.access \in 0..MaxKey /\ g.refresh \in 0..MaxKey /\ g.access < MaxKey
  BY <1>1, <1>2 DEF Grant
<1>5. g.access + 1 \in 0..MaxKey /\ g.refresh + r \in 0..MaxKey
  BY <1>2, <1>4, CountFromOne
<1>6. pair \in Grant /\ pair.access = g.access + 1 /\ pair.refresh = g.refresh + r
  BY <1>3, <1>5 DEF Grant
<1>7. pair.access # 0 /\ pair.refresh # 0 /\ pair.refresh <= pair.access /\ pair.refresh >= g.refresh
  BY <1>2, <1>4, <1>6, CountFromOne
<1> QED BY <1>1, <1>2, <1>6, <1>7

\* A refresh whose answer arrives.
LEMMA RefreshedJobs ==
  ASSUME Jobs, At(Loop, "sync", "refresh"), NEW pair \in Pairs(th[Loop].n), Refreshed(pair)
  PROVE  Jobs'
<1>1. PICK c \in Conns : /\ c = th[Loop].n /\ Holds(Loop, c) /\ SyncInv(Loop) /\ Waits(Loop)
                         /\ pair \in Grant /\ pair.access # 0 /\ pair.refresh # 0
                         /\ pair.refresh <= pair.access
  BY Granted
<1>2. /\ grants' = [grants EXCEPT ![c] = pair]
      /\ th' = [th EXCEPT ![Loop].at = "keep", ![Loop].puts = TokenPuts(c, pair)]
      /\ UNCHANGED <<vault, verdict, llm, locked, install, rows, due, used, drawn, cut, raced>>
  BY <1>1 DEF Refreshed
<1>3. PICK j \in Job : /\ th' = [th EXCEPT ![Loop] = j]
                       /\ j.job = "sync" /\ j.at = "keep" /\ j.n = c
                       /\ j.puts = TokenPuts(c, pair) /\ ~ j.mid
  <2>1. th[Loop] \in Job /\ th \in [Processes -> Job] /\ th[Loop].job = "sync"
    BY LoopIsProcess DEF Jobs, Types, At
  <2>2. PICK p \in Seq(Slots \X Secrets) : p = TokenPuts(c, pair)
    BY <1>1, TokenPutsTyped
  <2>3. [th[Loop] EXCEPT !.at = "keep", !.puts = p] \in Job
    BY <2>1 DEF Job
  <2>4. PICK j \in Job : j = [th[Loop] EXCEPT !.at = "keep", !.puts = p]
    BY <2>3
  <2>5. j.job = "sync" /\ j.at = "keep" /\ j.n = c /\ j.puts = p /\ ~ j.mid
    BY <1>1, <2>1, <2>4 DEF Job, Waits
  <2>6. th' = [th EXCEPT ![Loop] = j]
    BY <1>2, LoopIsProcess, <2>1, <2>2, <2>4
  <2> QED BY <2>2, <2>5, <2>6
<1>4. /\ th' \in [Processes -> Job] /\ th'[Loop] = j
      /\ \A u \in Processes : u # Loop => th'[u] = th[u]
  BY <1>3, LoopIsProcess, Changed DEF Jobs, Types
<1>5. grants' \in [Conns -> Grant] /\ grants'[c] = pair /\ \A d \in Conns : d # c => grants'[d] = grants[d]
  BY <1>1, <1>2 DEF Jobs, Types
<1>6. Types' /\ AwaitsDrawn' /\ drawn <= drawn'
  BY <1>2, <1>4, <1>5 DEF Jobs, Types, AwaitsDrawn
<1>7. ASSUME NEW d \in Conns PROVE Left(d) \/ \A u \in Processes : Holds(u, d) => u = Loop
  <2>1. CASE d = c
    BY <1>1, <2>1, HoldsAlone, LoopIsProcess
  <2>2. CASE d # c
    BY <1>1, <1>2, <1>3, <1>4, <1>5, <2>2 DEF Left
  <2> QED BY <2>1, <2>2
<1>8. ASSUME NEW d \in Conns PROVE GrantInv(d)'
  <2>1. GrantInv(d)
    BY DEF Jobs
  <2>2. CASE d = c
    BY <1>1, <1>3, <1>4, <1>5, <2>2 DEF GrantInv
  <2>3. CASE d # c
    BY <1>1, <1>2, <1>3, <1>4, <1>5, <2>1, <2>3 DEF GrantInv, Honoured
  <2> QED BY <2>2, <2>3
<1>9. JobInv(Loop)'
  <2>1. KeepInv(Loop, c)'
    BY <1>3, <1>4, <1>5 DEF KeepInv
  <2>2. ~ locked'
    BY <1>1, <1>2 DEF SyncInv
  <2> QED BY <1>1, <1>3, <1>4, <1>5, <2>1, <2>2 DEF JobInv, SyncInv
<1> QED BY <1>2, <1>3, <1>4, <1>6, <1>7, <1>8, <1>9, LoopIsProcess, JobsStep

\* A refresh whose answer is lost.
LEMMA AnswerLostJobs ==
  ASSUME Jobs, At(Loop, "sync", "refresh"), NEW pair \in Pairs(th[Loop].n), AnswerLost(pair)
  PROVE  Jobs'
<1>1. PICK c \in Conns : /\ c = th[Loop].n /\ Holds(Loop, c) /\ SyncInv(Loop) /\ Waits(Loop)
                         /\ pair \in Grant /\ pair.access # 0 /\ pair.refresh # 0
                         /\ pair.refresh <= pair.access
  BY Granted
<1>2. /\ grants' = [grants EXCEPT ![c] = pair] /\ Step(Loop, "reauth")
      /\ cut' = cut \cup {Renewal(d) : d \in {e \in Conns : grants'[e].refresh # grants[e].refresh}}
      /\ UNCHANGED <<vault, verdict, llm, locked, install, rows, due, used, drawn, raced>>
  BY <1>1 DEF AnswerLost
<1>3. /\ th' \in [Processes -> Job]
      /\ th'[Loop].job = "sync" /\ th'[Loop].at = "reauth" /\ th'[Loop].n = c
      /\ th'[Loop].puts = <<>> /\ ~ th'[Loop].mid
      /\ \A u \in Processes : u # Loop => th'[u] = th[u]
  BY <1>1, <1>2, Stepped, LoopIsProcess DEF Jobs, Types, At, Waits
<1>4. grants' \in [Conns -> Grant] /\ grants'[c] = pair /\ \A d \in Conns : d # c => grants'[d] = grants[d]
  BY <1>1, <1>2 DEF Jobs, Types
<1>5. /\ cut' \subseteq Slots /\ \A d \in Conns : Renewal(d) \in cut => Renewal(d) \in cut'
      /\ Renewal(c) \notin cut' => grants[c].refresh = pair.refresh
  BY <1>2, <1>4, SlotFacts DEF Jobs, Types
<1>6. Types' /\ AwaitsDrawn' /\ drawn <= drawn'
  BY <1>2, <1>3, <1>4, <1>5 DEF Jobs, Types, AwaitsDrawn
<1>7. ASSUME NEW d \in Conns PROVE Left(d) \/ \A u \in Processes : Holds(u, d) => u = Loop
  <2>1. CASE d = c
    BY <1>1, <2>1, HoldsAlone, LoopIsProcess
  <2>2. CASE d # c
    BY <1>1, <1>2, <1>3, <1>4, <1>5, <2>2 DEF Left
  <2> QED BY <2>1, <2>2
<1>8. ASSUME NEW d \in Conns PROVE GrantInv(d)'
  <2>1. GrantInv(d)
    BY DEF Jobs
  <2>2. CASE d = c
    BY <1>1, <1>3, <1>4, <2>2 DEF GrantInv
  <2>3. CASE d # c
    BY <1>1, <1>2, <1>3, <1>4, <1>5, <2>1, <2>3 DEF GrantInv, Honoured
  <2> QED BY <2>2, <2>3
<1>9. JobInv(Loop)'
  <2>1. ~ locked'
    BY <1>1, <1>2 DEF SyncInv
  <2>2. Renewal(c) \notin cut' => vault'[Renewal(c)] = grants'[c].refresh
    <3>1. Renewal(c) \notin cut => vault[Renewal(c)] = grants[c].refresh
      BY <1>1 DEF SyncInv, At
    <3> QED BY <1>2, <1>4, <1>5, <3>1
  <2> QED BY <1>1, <1>3, <1>4, <2>1, <2>2 DEF JobInv, SyncInv, Waits
<1> QED BY <1>2, <1>3, <1>6, <1>7, <1>8, <1>9, LoopIsProcess, JobsStep

\* Every step keeps it.
LEMMA JobsKept == ASSUME Jobs, [Next]_vars PROVE Jobs'
<1>1. CASE UNCHANGED vars
  <2>1. UNCHANGED <<vault, verdict, llm, locked, install, rows, due, grants, used, drawn, th, cut, raced>>
    BY <1>1 DEF vars
  <2>2. Types' /\ \A c \in Conns : Left(c)
    BY <2>1 DEF Jobs, Types, Left
  <2> QED BY <2>1, <2>2, StillStep
<1>2. ASSUME NEW t \in Processes, PutDelete(t) \/ PutStore(t) PROVE Jobs'
  BY <1>2, PutDeleteJobs, PutStoreJobs
<1>3. ASSUME NEW t \in Threads,
             \/ BeginRotate(t) \/ RotateEnd(t) \/ StoreSecret(t)
             \/ \E kind \in {"vault", "llm"} : BeginTest(t, kind)
             \/ EndTest(t)
      PROVE  Jobs'
  BY <1>3, BeginRotateJobs, RotateEndJobs, StoreSecretJobs, BeginTestJobs, EndTestJobs
<1>4. ASSUME NEW t \in Threads,
             \/ BeginConfigure(t) \/ BeginInstall(t) \/ KeepState(t)
             \/ \E s \in States, k \in 1..Codes : BeginCallback(t, s, k)
             \/ Consume(t) \/ Refused(t) \/ Exchange(t) \/ Connect(t)
      PROVE  Jobs'
  BY <1>4, BeginConfigureJobs, BeginInstallJobs, KeepStateJobs, BeginCallbackJobs, ConsumeJobs,
     RefusedJobs, ExchangeJobs, ConnectJobs
<1>5. CASE SetLlmKey \/ \E kind \in {"vault", "llm"} : DeleteKey(kind)
  BY <1>5, SetLlmKeyJobs, DeleteKeyJobs
<1>6. CASE (\E s \in States : ExpireState(s)) \/ Disconnect \/ \E c \in Conns : Due(c) \/ BeginSync(c)
  BY <1>6, ExpireStateJobs, DisconnectJobs, DueJobs, BeginSyncJobs
<1>7. CASE At(Loop, "sync", "refresh") /\ \E pair \in Pairs(th[Loop].n) : Refreshed(pair) \/ AnswerLost(pair)
  BY <1>7, RefreshedJobs, AnswerLostJobs
<1>8. CASE RefreshRefused \/ Reauth \/ RefreshEnd \/ Crash \/ Restart
  BY <1>8, RefreshRefusedJobs, ReauthJobs, RefreshEndJobs, RestartJobs
<1> QED BY <1>1, <1>2, <1>3, <1>4, <1>5, <1>6, <1>7, <1>8 DEF Next

-----------------------------------------------------------------------------
(* Secrets are kept.                                                       *)

\* Steps that delete no secret and leave what others have deleted.
LEMMA KeptQuiet ==
  ASSUME Jobs, Kept, \A u \in Processes : th[u].mid => th'[u] = th[u],
         \A c \in Conns : rows'[c] # "none" => rows[c] # "none",
         \A s \in Referred : vault'[s] = 0 => vault[s] = 0,
         \A s \in Referred : s \in cut => s \in cut'
  PROVE  Kept'
<1> SUFFICES ASSUME NEW s \in Referred', vault'[s] = 0 PROVE Between(s)' \/ s \in cut'
  BY DEF Kept
<1>1. s \in Referred
  BY DEF Referred
<1>2. CASE Between(s)
  <2>1. PICK u \in Processes : th[u].puts # <<>> /\ th[u].mid /\ Slot(u) = s
    BY <1>2 DEF Between
  <2>2. th'[u] = th[u]
    BY <2>1
  <2> QED BY <2>1, <2>2 DEF Between, Slot
<1>3. CASE s \in cut
  BY <1>1, <1>3
<1> QED BY <1>1, <1>2, <1>3 DEF Kept

\* ... among them those that change a request that has deleted nothing.
LEMMA KeptByOne ==
  ASSUME Jobs, Kept, NEW t \in Processes, ~ th[t].mid,
         \A u \in Processes : u # t => th'[u] = th[u],
         UNCHANGED <<vault, rows>>, cut \subseteq cut'
  PROVE  Kept'
<1>1. \A u \in Processes : th[u].mid => th'[u] = th[u]
  OBVIOUS
<1>2. vault' = vault /\ rows' = rows
  OBVIOUS
<1> QED BY <1>1, <1>2, KeptQuiet

\* ... those of no request ...
LEMMA KeptByNone ==
  ASSUME Jobs, Kept, th' = th,
         \A c \in Conns : rows'[c] # "none" => rows[c] # "none",
         \A s \in Slots \ {Provider} : vault'[s] = vault[s] /\ (s \in cut => s \in cut')
  PROVE  Kept'
<1>1. \A s \in Referred : s \in Slots \ {Provider}
  BY SlotFacts DEF Referred
<1> QED BY <1>1, KeptQuiet

\* ... and those that begin and end.
LEMMA KeptByBegin ==
  ASSUME Jobs, Kept, NEW t \in Processes, NEW j, Begin(t, j), UNCHANGED <<vault, rows, cut>>
  PROVE  Kept'
<1>1. ~ th[t].mid /\ \A u \in Processes : u # t => th'[u] = th[u]
  BY NoJobIsJob DEF Begin, Jobs, Types
<1> QED BY <1>1, KeptByOne

\* A request that ends between secrets leaves none deleted.
LEMMA KeptByEnd ==
  ASSUME Jobs, Kept, NEW t \in Processes, ~ th[t].mid, End(t), UNCHANGED <<vault, rows, cut>>
  PROVE  Kept'
<1>1. \A u \in Processes : u # t => th'[u] = th[u]
  BY Ended DEF Jobs, Types
<1> QED BY <1>1, KeptByOne

\* A deletion puts its request between the two commits.
LEMMA KeptByPutDelete == ASSUME Jobs, Kept, NEW t \in Processes, PutDelete(t) PROVE Kept'
<1>1. /\ th[t].puts # <<>> /\ ~ th[t].mid /\ vault' = [vault EXCEPT ![Slot(t)] = 0]
      /\ UNCHANGED <<rows, cut>>
  BY DEF PutDelete
<1>2. Slot(t) \in Slots /\ (PutsKey(t) \/ PutsClient(t) \/ \E c \in Conns : PutsToken(t, c))
  BY <1>1, WhatIsPut
<1> SUFFICES ASSUME NEW s \in Referred', vault'[s] = 0 PROVE Between(s)' \/ s \in cut'
  BY DEF Kept
<1>3. s \in Referred /\ s \in Slots \ {Provider}
  BY <1>1, SlotFacts DEF Referred
<1>4. CASE s # Slot(t)
  <2>1. vault[s] = 0
    BY <1>1, <1>3, <1>4 DEF Jobs, Types
  <2>2. CASE Between(s)
    <3>1. PICK u \in Processes : th[u].puts # <<>> /\ th[u].mid /\ Slot(u) = s
      BY <2>2 DEF Between
    <3>2. th'[u] = th[u]
      <4>1. u # t
        BY <1>1, <3>1
      <4>2. CASE End(t)
        BY <4>1, <4>2, Ended DEF Jobs, Types
      <4>3. CASE th' = [th EXCEPT ![t].mid = TRUE]
        BY <4>1, <4>3, Deleted
      <4> QED BY <4>2, <4>3 DEF PutDelete
    <3> QED BY <3>1, <3>2 DEF Between, Slot
  <2> QED BY <1>1, <1>3, <2>1, <2>2 DEF Kept
<1>5. CASE s = Slot(t)
  <2>1. th[t].job # "rotate"
    BY <1>2, <1>3, <1>5 DEF PutsKey, PutsClient, PutsToken, Holds
  <2>2. th'[t].puts = th[t].puts /\ th'[t].mid
    BY <2>1, Deleted DEF PutDelete
  <2> QED BY <1>1, <1>5, <2>2 DEF Between, Slot
<1> QED BY <1>4, <1>5

\* Storing brings the secret back, or its failure cuts it.
LEMMA KeptByPutStore == ASSUME Jobs, Kept, NEW t \in Processes, PutStore(t) PROVE Kept'
<1>1. th[t].puts # <<>> /\ th[t].mid /\ rows' = rows
  BY DEF PutStore
<1>2. Slot(t) \in Slots /\ Head(th[t].puts)[2] \in Secrets
  BY <1>1, WhatIsPut
<1>3. \A u \in Processes : u # t => th'[u] = th[u]
  <2>1. CASE StoreFails(t)
    BY <2>1, Ended DEF StoreFails, Jobs, Types
  <2>2. CASE ~ StoreFails(t)
    BY <1>1, <2>2, StoredOne DEF PutStore
  <2> QED BY <2>1, <2>2
<1> SUFFICES ASSUME NEW s \in Referred', vault'[s] = 0 PROVE Between(s)' \/ s \in cut'
  BY DEF Kept
<1>4. s \in Referred /\ s \in Slots
  BY <1>1, SlotFacts DEF Referred
<1>5. CASE s # Slot(t)
  <2>1. vault[s] = 0 /\ (s \in cut => s \in cut')
    BY <1>4, <1>5 DEF PutStore, StoreFails, Jobs, Types
  <2>2. CASE Between(s)
    <3>1. PICK u \in Processes : th[u].puts # <<>> /\ th[u].mid /\ Slot(u) = s
      BY <2>2 DEF Between
    <3>2. th'[u] = th[u]
      BY <1>3, <1>5, <3>1
    <3> QED BY <3>1, <3>2 DEF Between, Slot
  <2> QED BY <1>4, <2>1, <2>2 DEF Kept
<1>6. CASE s = Slot(t)
  <2>1. CASE StoreFails(t)
    BY <1>6, <2>1 DEF StoreFails
  <2>2. CASE ~ StoreFails(t)
    <3>1. vault' = [vault EXCEPT ![Slot(t)] = Head(th[t].puts)[2]]
      BY <2>2 DEF PutStore
    <3>2. vault'[s] # 0
      BY <1>2, <1>6, <3>1, CountFromOne DEF Secrets, Jobs, Types
    <3> QED BY <3>2
  <2> QED BY <2>1, <2>2
<1> QED BY <1>5, <1>6

\* A row refers to tokens that are in the vault.
LEMMA KeptByConnect == ASSUME Jobs, Kept, NEW t \in Threads, Connect(t) PROVE Kept'
<1>1. PICK c \in Conns : c = th[t].n /\ KeepInv(t, c) /\ th[t].puts = <<>> /\ ~ th[t].mid
  BY DEF Jobs, JobInv, CallbackInv, Connect, At, Stored, Processes
<1>2. UNCHANGED <<vault, cut>> /\ rows' = [rows EXCEPT ![c] = "connected"] /\ End(t) /\ t \in Processes
  BY <1>1 DEF Connect, Processes
<1>3. vault[Access(c)] # 0 /\ vault[Renewal(c)] # 0
  <2>1. grants[c].refresh # 0
    BY <1>1 DEF Jobs, JobInv, CallbackInv, GrantInv, Connect, At, Processes
  <2> QED BY <1>1, <2>1, ShortSeqs DEF KeepInv, TokenPuts
<1>4. \A u \in Processes : u # t => th'[u] = th[u]
  BY <1>2, Ended DEF Jobs, Types
<1> SUFFICES ASSUME NEW s \in Referred', vault'[s] = 0 PROVE Between(s)' \/ s \in cut'
  BY DEF Kept
<1>5. s \in Referred
  BY <1>2, <1>3 DEF Referred, Jobs, Types
<1>6. CASE Between(s)
  <2>1. PICK u \in Processes : th[u].puts # <<>> /\ th[u].mid /\ Slot(u) = s
    BY <1>6 DEF Between
  <2>2. th'[u] = th[u]
    BY <1>1, <1>4, <2>1
  <2> QED BY <2>1, <2>2 DEF Between, Slot
<1> QED BY <1>2, <1>5, <1>6 DEF Kept

\* A crash cuts what was between two commits.
LEMMA KeptByRestart == ASSUME Jobs, Kept, Crash \/ Restart PROVE Kept'
<1>1. UNCHANGED <<vault, rows>> /\ cut \subseteq cut'
  BY DEF Crash, Restart
<1>2. CASE Restart
  <2>1. \A u \in Processes : ~ th[u].mid
    BY <1>2, NoJobIsJob DEF Restart
  <2>2. vault' = vault /\ rows' = rows
    BY <1>1
  <2> QED BY <1>1, <2>1, <2>2, KeptQuiet
<1>3. CASE Crash
  <2> SUFFICES ASSUME NEW s \in Referred', vault'[s] = 0 PROVE s \in cut'
    BY DEF Kept
  <2>1. s \in Referred /\ s \in Slots
    BY <1>1, SlotFacts DEF Referred
  <2>2. CASE Between(s)
    <3>1. PICK u \in Processes : th[u].puts # <<>> /\ th[u].mid /\ Slot(u) = s
      BY <2>2 DEF Between
    <3>2. th[u].puts[1][1] = s /\ 1 \in DOMAIN th[u].puts
      <4>1. th[u].puts \in Seq(Slots \X Secrets)
        BY DEF Jobs, Types, Job
      <4> QED BY <3>1, <4>1 DEF Slot
    <3> QED BY <1>3, <2>1, <3>2 DEF Crash, Replacing
  <2> QED BY <1>1, <2>1, <2>2 DEF Kept
<1> QED BY <1>2, <1>3

\* No step leaves a secret missing for another reason.
LEMMA KeptKept == ASSUME Jobs, Kept, [Next]_vars PROVE Kept'
<1>1. CASE UNCHANGED vars
  BY <1>1, KeptByNone DEF vars
<1>2. ASSUME NEW t \in Processes, PutDelete(t) \/ PutStore(t) PROVE Kept'
  BY <1>2, KeptByPutDelete, KeptByPutStore
<1>3. ASSUME NEW t \in Threads,
             \/ BeginRotate(t) \/ BeginConfigure(t) \/ BeginInstall(t)
             \/ \E kind \in {"vault", "llm"} : BeginTest(t, kind)
             \/ \E s \in States, k \in 1..Codes : BeginCallback(t, s, k)
      PROVE  Kept'
  BY <1>3, KeptByBegin
     DEF BeginRotate, BeginConfigure, BeginInstall, BeginTest, BeginCallback, Processes
<1>4. ASSUME NEW t \in Threads, RotateEnd(t) \/ EndTest(t) \/ KeepState(t) \/ Refused(t)
      PROVE  Kept'
  <2>1. End(t) /\ UNCHANGED <<vault, rows, cut>> /\ t \in Processes
    BY <1>4 DEF RotateEnd, EndTest, KeepState, Refused, Processes
  <2>2. ~ th[t].mid
    BY <1>4, <2>1 DEF RotateEnd, EndTest, KeepState, Refused, Stored, At, Jobs, JobInv, TestInv,
                      CallbackInv, Waits
  <2> QED BY <2>1, <2>2, KeptByEnd
<1>5. ASSUME NEW t \in Threads, StoreSecret(t) PROVE Kept'
  <2>1. \A s \in Slots \ {Provider} : vault'[s] = vault[s] /\ (s \in cut => s \in cut')
    BY <1>5 DEF StoreSecret, Jobs, Types
  <2> QED BY <1>5, <2>1, KeptByNone DEF StoreSecret
<1>6. ASSUME NEW t \in Threads, Consume(t) PROVE Kept'
  <2>1. ~ th[t].mid /\ t \in Processes
    BY <1>6 DEF Consume, At, Jobs, JobInv, CallbackInv, Waits, Processes
  <2>2. \A u \in Processes : u # t => th'[u] = th[u]
    BY <1>6, <2>1, Stepped DEF Consume, Jobs, Types
  <2> QED BY <1>6, <2>1, <2>2, KeptByOne DEF Consume
<1>7. ASSUME NEW t \in Threads, Exchange(t) PROVE Kept'
  <2>1. ~ th[t].mid /\ t \in Processes
    BY <1>7 DEF Exchange, At, Jobs, JobInv, CallbackInv, Waits, Processes
  <2>2. \A u \in Processes : u # t => th'[u] = th[u]
    BY <1>7 DEF Exchange, Jobs, Types
  <2> QED BY <1>7, <2>1, <2>2, KeptByOne DEF Exchange
<1>8. ASSUME NEW t \in Threads, Connect(t) PROVE Kept'
  BY <1>8, KeptByConnect
<1>9. CASE SetLlmKey \/ (\E s \in States : ExpireState(s)) \/ Disconnect \/ \E c \in Conns : Due(c)
  <2>1. /\ UNCHANGED <<vault, th, cut>>
        /\ \A c \in Conns : rows'[c] # "none" => rows[c] # "none"
    BY <1>9 DEF SetLlmKey, ExpireState, Disconnect, Due
  <2> QED BY <2>1, KeptByNone
<1>10. ASSUME NEW kind \in {"vault", "llm"}, DeleteKey(kind) PROVE Kept'
  <2>1. \A s \in Slots \ {Provider} : vault'[s] = vault[s]
    BY <1>10 DEF DeleteKey, Jobs, Types
  <2> QED BY <1>10, <2>1, KeptByNone DEF DeleteKey
<1>11. ASSUME NEW c \in Conns, BeginSync(c) PROVE Kept'
  BY <1>11, LoopIsProcess, KeptByBegin DEF BeginSync
<1>12. ASSUME At(Loop, "sync", "refresh"), NEW pair \in Pairs(th[Loop].n),
              Refreshed(pair) \/ AnswerLost(pair)
       PROVE  Kept'
  <2>1. ~ th[Loop].mid
    BY <1>12, Granted DEF Waits
  <2>2. \A u \in Processes : u # Loop => th'[u] = th[u]
    BY <1>12 DEF Refreshed, AnswerLost, Step, Jobs, Types
  <2>3. UNCHANGED <<vault, rows>> /\ cut \subseteq cut'
    BY <1>12 DEF Refreshed, AnswerLost
  <2> QED BY <2>1, <2>2, <2>3, LoopIsProcess, KeptByOne
<1>13. CASE RefreshRefused
  <2>1. ~ th[Loop].mid
    BY <1>13, LoopIsProcess DEF RefreshRefused, At, Jobs, JobInv, SyncInv, Waits
  <2>2. \A u \in Processes : u # Loop => th'[u] = th[u]
    BY <1>13 DEF RefreshRefused, Step, Jobs, Types
  <2> QED BY <1>13, <2>1, <2>2, LoopIsProcess, KeptByOne DEF RefreshRefused
<1>14. CASE Reauth
  <2>1. ~ th[Loop].mid
    BY <1>14, LoopIsProcess DEF Reauth, At, Jobs, JobInv, SyncInv, Waits
  <2>2. \A u \in Processes : th[u].mid => th'[u] = th[u]
    BY <1>14, <2>1 DEF Reauth, End, Jobs, Types
  <2>3. \A c \in Conns : rows'[c] # "none" => rows[c] # "none"
    BY <1>14 DEF Reauth, Jobs, Types
  <2> QED BY <1>14, <2>2, <2>3, KeptQuiet DEF Reauth
<1>15. CASE RefreshEnd
  BY <1>15, LoopIsProcess, KeptByEnd DEF RefreshEnd, Stored
<1>16. CASE Crash \/ Restart
  BY <1>16, KeptByRestart
<1> QED BY <1>1, <1>2, <1>3, <1>4, <1>5, <1>6, <1>7, <1>8, <1>9, <1>10, <1>11, <1>12, <1>13, <1>14,
           <1>15, <1>16 DEF Next

-----------------------------------------------------------------------------
(* States connect once.                                                    *)

\* What a step leaves of a request that installs or calls back.
Stays(u) ==
  \/ th'[u].job \notin {"install", "callback"}
  \/ th'[u].job = th[u].job /\ th'[u].at = th[u].at /\ th'[u].n = th[u].n
  \/ th'[u].job = "callback" /\ th'[u].at = "connect"

\* Steps that take no state further.
LEMMA StateStays ==
  ASSUME Jobs, NEW s \in States, StateInv(s), \A u \in Processes : Stays(u),
         install' = install \/ install' = 0, used' = used, drawn' = drawn, raced \subseteq raced'
  PROVE  StateInv(s)'
<1>1. install' = s => install = s
  BY CountFromOne
<1>2. ASSUME NEW u \in Processes
      PROVE  /\ Pending(u, s)' => Pending(u, s)
             /\ Calling(u, s)' => Calling(u, s)
             /\ Consumed(u, s)' => Consumed(u, s)
  BY <1>2 DEF Stays, Pending, Calling, Consumed
<1>3. s > drawn' => install' # s /\ \A u \in used' : ~ UsedFor(u, s)
  BY <1>1 DEF StateInv
<1>4. ASSUME NEW t \in Processes, Pending(t, s)'
      PROVE  /\ install' # s /\ \A u \in used' : ~ UsedFor(u, s)
             /\ \A v \in Processes : (Pending(v, s)' => v = t) /\ ~ Calling(v, s)'
  BY <1>1, <1>2, <1>4 DEF StateInv
<1>5. ASSUME s \notin raced'
      PROVE  /\ install' = s => /\ \A u \in used' : ~ UsedFor(u, s)
                                /\ \A t \in Processes : ~ Consumed(t, s)'
             /\ \A t \in Processes : Consumed(t, s)' =>
                  /\ \A u \in used' : ~ UsedFor(u, s)
                  /\ \A v \in Processes : Consumed(v, s)' => v = t
             /\ \A u, v \in used' : UsedFor(u, s) /\ UsedFor(v, s) => u = v
  BY <1>1, <1>2, <1>5 DEF StateInv
<1> QED BY <1>3, <1>4, <1>5 DEF StateInv

\* Requests that begin are at no state, nor are those that end.
LEMMA StaysByOne ==
  ASSUME NEW t \in Processes, Stays(t), \A u \in Processes : u # t => th'[u] = th[u]
  PROVE  \A u \in Processes : Stays(u)
BY DEF Stays

\* A request that has ended waits with no state.
LEMMA StaysByEnd ==
  ASSUME Jobs, NEW t \in Processes, End(t) PROVE \A u \in Processes : Stays(u)
<1>1. th'[t].job = "none" /\ \A u \in Processes : u # t => th'[u] = th[u]
  BY Ended, NoJobIsJob DEF Jobs, Types
<1> QED BY <1>1, StaysByOne DEF Stays

\* A state is drawn.
LEMMA StateByInstall ==
  ASSUME Jobs, NEW s \in States, StateInv(s), NEW t \in Threads, BeginInstall(t)
  PROVE  StateInv(s)'
<1>1. /\ drawn \in Nat /\ drawn' = drawn + 1 /\ t \in Processes /\ th[t] = NoJob
      /\ UNCHANGED <<install, used, raced>> /\ s \in Nat
  BY CountFromOne DEF BeginInstall, Begin, Jobs, Types, Processes
<1>2. /\ th'[t].job = "install" /\ th'[t].n = drawn + 1
      /\ \A u \in Processes : u # t => th'[u] = th[u]
  BY <1>1 DEF BeginInstall, Begin, NoJob, Jobs, Types
<1>3. ASSUME NEW u \in Processes, u # t
      PROVE  /\ Pending(u, s)' <=> Pending(u, s)
             /\ Calling(u, s)' <=> Calling(u, s)
             /\ Consumed(u, s)' <=> Consumed(u, s)
  BY <1>2, <1>3 DEF Pending, Calling, Consumed
<1>4. ~ Calling(t, s)' /\ ~ Consumed(t, s)'
  BY <1>2 DEF Calling, Consumed
<1>5. Pending(t, s)' <=> s = drawn + 1
  BY <1>2 DEF Pending
<1>6. ASSUME NEW u \in Processes, Pending(u, s) \/ Calling(u, s) PROVE s <= drawn
  BY <1>6 DEF Jobs, JobInv, ClientInv, CallbackInv, Pending, Calling
<1>7. s > drawn' => install' # s /\ \A u \in used' : ~ UsedFor(u, s)
  BY <1>1 DEF StateInv
<1>8. ASSUME NEW v \in Processes, Pending(v, s)'
      PROVE  /\ install' # s /\ \A u \in used' : ~ UsedFor(u, s)
             /\ \A w \in Processes : (Pending(w, s)' => w = v) /\ ~ Calling(w, s)'
  <2>1. CASE v = t
    <3>1. s > drawn
      BY <1>1, <1>5, <1>8, <2>1
    <3>2. \A w \in Processes : ~ Pending(w, s) /\ ~ Calling(w, s)
      BY <1>1, <1>6, <3>1
    <3> QED BY <1>1, <1>3, <1>4, <2>1, <3>1, <3>2 DEF StateInv
  <2>2. CASE v # t
    <3>1. Pending(v, s) /\ s <= drawn
      BY <1>3, <1>6, <1>8, <2>2
    <3>2. ~ Pending(t, s)'
      BY <1>1, <1>5, <3>1
    <3> QED BY <1>1, <1>3, <1>4, <3>1, <3>2 DEF StateInv
  <2> QED BY <2>1, <2>2
<1>9. s \notin raced' =>
       /\ install' = s => /\ \A u \in used' : ~ UsedFor(u, s)
                          /\ \A w \in Processes : ~ Consumed(w, s)'
       /\ \A w \in Processes : Consumed(w, s)' =>
            /\ \A u \in used' : ~ UsedFor(u, s)
            /\ \A v \in Processes : Consumed(v, s)' => v = w
       /\ \A u, v \in used' : UsedFor(u, s) /\ UsedFor(v, s) => u = v
  BY <1>1, <1>3, <1>4 DEF StateInv
<1> QED BY <1>7, <1>8, <1>9 DEF StateInv

\* A state is kept.
LEMMA StateByKeep ==
  ASSUME Jobs, NEW s \in States, StateInv(s), NEW t \in Threads, KeepState(t)
  PROVE  StateInv(s)'
<1>1. /\ End(t) /\ t \in Processes /\ UNCHANGED <<drawn, used, raced>>
      /\ install' = IF th[t].job = "install" THEN th[t].n ELSE 0
  BY DEF KeepState, Processes
<1>2. CASE install' # s
  <2>1. \A u \in Processes : Stays(u)
    BY <1>1, StaysByEnd
  <2>2. ASSUME NEW u \in Processes
        PROVE  /\ Pending(u, s)' => Pending(u, s)
               /\ Calling(u, s)' => Calling(u, s)
               /\ Consumed(u, s)' => Consumed(u, s)
    BY <2>1 DEF Stays, Pending, Calling, Consumed
  <2> QED BY <1>1, <1>2, <2>2 DEF StateInv
<1>3. CASE install' = s
  <2>1. Pending(t, s)
    BY <1>1, <1>3, CountFromOne DEF Pending
  <2>2. /\ \A u \in used : ~ UsedFor(u, s)
        /\ \A v \in Processes : (Pending(v, s) => v = t) /\ ~ Calling(v, s)
    BY <1>1, <2>1 DEF StateInv
  <2>3. th'[t].job = "none" /\ \A u \in Processes : u # t => th'[u] = th[u]
    BY <1>1, Ended, NoJobIsJob DEF Jobs, Types
  <2>4. \A u \in Processes : ~ Pending(u, s)' /\ ~ Calling(u, s)' /\ ~ Consumed(u, s)'
    BY <2>2, <2>3 DEF Pending, Calling, Consumed
  <2>5. s <= drawn'
    BY <1>1, <2>1 DEF Jobs, JobInv, ClientInv, Pending
  <2>6. ~ (s > drawn')
    BY <1>1, <2>5, CountFromOne DEF Jobs, Types
  <2> QED BY <1>1, <2>2, <2>4, <2>6 DEF StateInv
<1> QED BY <1>2, <1>3

\* A callback begins.
LEMMA StateByCallback ==
  ASSUME Jobs, NEW s \in States, StateInv(s), NEW t \in Threads, NEW r \in States,
         NEW k \in 1..Codes, BeginCallback(t, r, k)
  PROVE  StateInv(s)'
<1>1. /\ t \in Processes /\ th[t] = NoJob /\ install = r
      /\ UNCHANGED <<install, drawn, used, raced>>
  BY DEF BeginCallback, Begin, Processes
<1>2. /\ th'[t].job = "callback" /\ th'[t].at = "consume" /\ th'[t].n = r
      /\ \A u \in Processes : u # t => th'[u] = th[u]
  BY <1>1 DEF BeginCallback, Begin, NoJob, Jobs, Types
<1>3. ASSUME NEW u \in Processes
      PROVE  /\ Pending(u, s)' => Pending(u, s)
             /\ Calling(u, s)' => Calling(u, s) \/ install = s
             /\ Consumed(u, s)' => Consumed(u, s)
  BY <1>1, <1>2 DEF Pending, Calling, Consumed
<1> QED BY <1>1, <1>3 DEF StateInv

\* A state is given up.
LEMMA StateByConsume ==
  ASSUME Jobs, NEW s \in States, StateInv(s), NEW t \in Threads, Consume(t)
  PROVE  StateInv(s)'
<1>1. /\ t \in Processes /\ th[t].job = "callback" /\ th[t].at = "consume" /\ install' = 0
      /\ UNCHANGED <<drawn, used>> /\ raced \subseteq raced'
      /\ install # th[t].n => th[t].n \in raced'
  BY DEF Consume, At, Processes
<1>2. /\ th'[t].job = "callback" /\ th'[t].at = "exchange" /\ th'[t].n = th[t].n
      /\ \A u \in Processes : u # t => th'[u] = th[u]
  BY <1>1, Stepped DEF Consume, Jobs, Types
<1>3. install' # s
  BY <1>1, CountFromOne
<1>4. ASSUME NEW u \in Processes
      PROVE  /\ Pending(u, s)' => Pending(u, s)
             /\ Calling(u, s)' => Calling(u, s)
             /\ u # t => (Consumed(u, s)' => Consumed(u, s))
  BY <1>1, <1>2 DEF Pending, Calling, Consumed
<1>5. CASE th[t].n # s
  <2>1. ~ Consumed(t, s)'
    BY <1>2, <1>5 DEF Consumed
  <2>2. \A u \in Processes : Consumed(u, s)' => Consumed(u, s)
    BY <1>4, <2>1
  <2> QED BY <1>1, <1>3, <1>4, <2>2 DEF StateInv
<1>6. CASE th[t].n = s
  <2>1. ASSUME s \notin raced'
        PROVE  /\ \A u \in used : ~ UsedFor(u, s)
               /\ \A u \in Processes : Consumed(u, s)' => u = t
    <3>1. install = s /\ s \notin raced
      BY <1>1, <1>6, <2>1
    <3> QED BY <1>4, <3>1 DEF StateInv
  <2> QED BY <1>1, <1>3, <1>4, <2>1 DEF StateInv
<1> QED BY <1>5, <1>6

\* A code is exchanged.
LEMMA StateByExchange ==
  ASSUME Jobs, NEW s \in States, StateInv(s), NEW t \in Threads, Exchange(t)
  PROVE  StateInv(s)'
<1>1. /\ t \in Processes /\ th[t].job = "callback" /\ th[t].at = "exchange"
      /\ UNCHANGED <<install, drawn, raced>>
  BY DEF Exchange, At, Processes
<1>2. PICK c \in Conns : /\ used' = used \cup {<<<<th[t].n, th[t].held>>, c>>}
                         /\ th' = [th EXCEPT ![t].at = "connect", ![t].n = c,
                                  ![t].puts = TokenPuts(c, [access |-> 1, refresh |-> 1])]
  BY DEF Exchange, Ungranted
<1>3. /\ th'[t].job = "callback" /\ th'[t].at = "connect"
      /\ \A u \in Processes : u # t => th'[u] = th[u]
  BY <1>1, <1>2 DEF Jobs, Types, Job
<1>4. ASSUME NEW u \in Processes
      PROVE  /\ Pending(u, s)' => Pending(u, s)
             /\ Calling(u, s)' => Calling(u, s)
             /\ Consumed(u, s)' => Consumed(u, s) /\ u # t
  BY <1>3 DEF Pending, Calling, Consumed
<1>5. Consumed(t, th[t].n) /\ Calling(t, th[t].n) /\ th[t].n \in States /\ th[t].n <= drawn
  BY <1>1 DEF Consumed, Calling, Jobs, JobInv, CallbackInv
<1>6. CASE th[t].n # s
  <2>1. \A u \in used' : UsedFor(u, s) => u \in used
    BY <1>2, <1>6 DEF UsedFor
  <2> QED BY <1>1, <1>4, <2>1 DEF StateInv
<1>7. CASE th[t].n = s
  <2>1. ~ (s > drawn') /\ \A u \in Processes : ~ Pending(u, s)'
    BY <1>1, <1>4, <1>5, <1>7, CountFromOne DEF StateInv, Jobs, Types
  <2>2. ASSUME s \notin raced'
        PROVE  /\ install' # s /\ \A u \in Processes : ~ Consumed(u, s)'
               /\ \A u, v \in used' : UsedFor(u, s) /\ UsedFor(v, s) => u = v
    <3>1. /\ install # s /\ \A u \in used : ~ UsedFor(u, s)
          /\ \A u \in Processes : Consumed(u, s) => u = t
      BY <1>1, <1>5, <1>7, <2>2 DEF StateInv
    <3> QED BY <1>1, <1>2, <1>4, <3>1
  <2> QED BY <2>1, <2>2 DEF StateInv
<1> QED BY <1>6, <1>7

\* No step lets a state connect twice.
LEMMA StateKept ==
  ASSUME Jobs, NEW s \in States, StateInv(s), [Next]_vars PROVE StateInv(s)'
<1>1. CASE UNCHANGED vars
  BY <1>1, StateStays DEF vars, Stays
<1>2. ASSUME NEW t \in Processes, PutDelete(t) \/ PutStore(t) PROVE StateInv(s)'
  <2>1. /\ UNCHANGED <<drawn, used, raced>> /\ (install' = install \/ install' = 0)
        /\ th[t].puts # <<>>
    BY <1>2 DEF PutDelete, PutStore, StoreFails
  <2>2. CASE End(t)
    BY <2>1, <2>2, StaysByEnd, StateStays
  <2>3. CASE th' = [th EXCEPT ![t].mid = TRUE]
    BY <2>1, <2>3, Deleted, StaysByOne, StateStays DEF Stays
  <2>4. CASE th' = [th EXCEPT ![t].puts = Tail(@), ![t].mid = FALSE]
    BY <2>1, <2>4, StoredOne, StaysByOne, StateStays DEF Stays
  <2> QED BY <1>2, <2>2, <2>3, <2>4 DEF PutDelete, PutStore, StoreFails
<1>3. ASSUME NEW t \in Threads, BeginRotate(t) \/ BeginConfigure(t) \/ \E kind \in {"vault", "llm"} : BeginTest(t, kind)
      PROVE  StateInv(s)'
  <2>1. UNCHANGED <<install, drawn, used, raced>> /\ t \in Processes
    BY <1>3 DEF BeginRotate, BeginConfigure, BeginTest, Processes
  <2>2. PICK j : th' = [th EXCEPT ![t] = j] /\ j.job \in {"rotate", "configure", "test"}
    <3>1. CASE BeginRotate(t)
      <4> DEFINE j == [NoJob EXCEPT !.job = "rotate",
                                    !.puts = <<<<Provider, vault[Provider] + 1>>>>]
      <4>1. th' = [th EXCEPT ![t] = j]
        BY <3>1 DEF BeginRotate, Begin
      <4>2. j.job = "rotate"
        BY DEF NoJob
      <4> HIDE DEF j
      <4> QED BY <4>1, <4>2
    <3>2. CASE BeginConfigure(t)
      <4> DEFINE j == [NoJob EXCEPT !.job = "configure", !.puts = <<<<Client, 1>>>>]
      <4>1. th' = [th EXCEPT ![t] = j]
        BY <3>2 DEF BeginConfigure, Begin
      <4>2. j.job = "configure"
        BY DEF NoJob
      <4> HIDE DEF j
      <4> QED BY <4>1, <4>2
    <3>3. ASSUME NEW kind \in {"vault", "llm"}, BeginTest(t, kind)
          PROVE  \E j : th' = [th EXCEPT ![t] = j] /\ j.job \in {"rotate", "configure", "test"}
      <4> DEFINE j == [NoJob EXCEPT !.job = "test", !.at = kind, !.held = Key(kind)]
      <4>1. th' = [th EXCEPT ![t] = j]
        BY <3>3 DEF BeginTest, Begin
      <4>2. j.job = "test"
        BY DEF NoJob
      <4> HIDE DEF j
      <4> QED BY <4>1, <4>2
    <3> QED BY <1>3, <3>1, <3>2, <3>3
  <2>3. /\ \A u \in Processes : u # t => th'[u] = th[u]
        /\ th'[t].job \notin {"install", "callback"}
    BY <2>1, <2>2 DEF Jobs, Types
  <2> QED BY <2>1, <2>3, StaysByOne, StateStays DEF Stays
<1>4. ASSUME NEW t \in Threads, RotateEnd(t) \/ EndTest(t) \/ Refused(t) \/ Connect(t)
      PROVE  StateInv(s)'
  <2>1. End(t) /\ UNCHANGED <<install, drawn, used, raced>> /\ t \in Processes
    BY <1>4 DEF RotateEnd, EndTest, Refused, Connect, Processes
  <2> QED BY <2>1, StaysByEnd, StateStays
<1>5. ASSUME NEW t \in Threads,
             \/ BeginInstall(t) \/ KeepState(t)
             \/ \E r \in States, k \in 1..Codes : BeginCallback(t, r, k)
             \/ Consume(t) \/ Exchange(t)
      PROVE  StateInv(s)'
  BY <1>5, StateByInstall, StateByKeep, StateByCallback, StateByConsume, StateByExchange
<1>6. CASE \/ SetLlmKey \/ (\E r \in States : ExpireState(r)) \/ Disconnect
           \/ (\E c \in Conns : Due(c)) \/ (\E t \in Threads : StoreSecret(t))
           \/ \E kind \in {"vault", "llm"} : DeleteKey(kind)
  <2>1. UNCHANGED <<install, drawn, used, raced, th>>
    BY <1>6 DEF SetLlmKey, ExpireState, Disconnect, Due, StoreSecret, DeleteKey
  <2> QED BY <2>1, StateStays DEF Stays
<1>7. ASSUME NEW c \in Conns, BeginSync(c) PROVE StateInv(s)'
  <2>1. /\ UNCHANGED <<install, drawn, used, raced>>
        /\ \A u \in Processes : u # Loop => th'[u] = th[u]
        /\ th'[Loop].job \notin {"install", "callback"}
    BY <1>7, LoopIsProcess DEF BeginSync, Begin, NoJob, Jobs, Types
  <2> QED BY <2>1, LoopIsProcess, StaysByOne, StateStays DEF Stays
<1>8. CASE Reauth \/ RefreshEnd
  <2>1. End(Loop) /\ UNCHANGED <<install, drawn, used, raced>>
    BY <1>8 DEF Reauth, RefreshEnd
  <2> QED BY <2>1, LoopIsProcess, StaysByEnd, StateStays
<1>9. ASSUME At(Loop, "sync", "refresh"),
             RefreshRefused \/ \E pair \in Pairs(th[Loop].n) : Refreshed(pair) \/ AnswerLost(pair)
      PROVE  StateInv(s)'
  <2>1. /\ UNCHANGED <<install, drawn, used, raced>>
        /\ \A u \in Processes : u # Loop => th'[u] = th[u]
        /\ th'[Loop].job = "sync"
    BY <1>9, LoopIsProcess DEF RefreshRefused, Refreshed, AnswerLost, Step, At, Jobs, Types, Job
  <2> QED BY <2>1, LoopIsProcess, StaysByOne, StateStays DEF Stays
<1>10. CASE Crash \/ Restart
  <2>1. UNCHANGED <<install, drawn, used, raced>>
    BY <1>10 DEF Crash, Restart
  <2>2. \A u \in Processes : th'[u] = NoJob
    BY <1>10 DEF Crash, Restart
  <2> QED BY <2>1, <2>2, NoJobIsJob, StateStays DEF Stays
<1> QED BY <1>1, <1>2, <1>3, <1>4, <1>5, <1>6, <1>7, <1>8, <1>9, <1>10
        DEF Next, RefreshRefused

-----------------------------------------------------------------------------
(* Verdicts are of the key.                                                *)

\* Steps that leave keys and verdicts.
LEMMA VerdictsStay ==
  ASSUME VerdictsAreOfTheKey, UNCHANGED <<verdict, llm, swapped>>, vault'[Provider] = vault[Provider]
  PROVE  VerdictsAreOfTheKey'
<1>1. \A kind \in {"vault", "llm"} : Key(kind)' = Key(kind)
  BY DEF Key
<1> QED BY <1>1 DEF VerdictsAreOfTheKey

\* A verdict is of the key that was tested, or the key is known to be swapped.
LEMMA VerdictByTest ==
  ASSUME Jobs, VerdictsAreOfTheKey, NEW t \in Threads, EndTest(t) PROVE VerdictsAreOfTheKey'
<1>1. /\ TestInv(t) /\ UNCHANGED <<vault, llm>> /\ th[t].at \in {"vault", "llm"}
  BY DEF EndTest, Jobs, JobInv, TestInv, Processes
<1>2. ASSUME NEW kind \in {"vault", "llm"}, verdict'[kind] = "valid", kind \notin swapped'
      PROVE  Key(kind)' \in Good
  <2>1. Key(kind)' = Key(kind)
    BY <1>1 DEF Key
  <2>2. CASE kind # th[t].at
    <3>1. verdict[kind] = "valid" /\ kind \notin swapped
      BY <1>2, <2>2 DEF EndTest, Jobs, Types
    <3> QED BY <2>1, <3>1 DEF VerdictsAreOfTheKey
  <2>3. CASE kind = th[t].at
    <3>1. Key(kind) = th[t].held /\ Key(kind) # 0
      BY <1>1, <1>2, <2>3 DEF EndTest, TestInv
    <3>2. PICK result \in Results(th[t].held) :
            verdict' = [verdict EXCEPT ![kind] =
              IF kind = "vault" THEN VaultVerdict(result) ELSE LlmVerdict(result)]
      BY <2>3, <3>1 DEF EndTest
    <3>3. (IF kind = "vault" THEN VaultVerdict(result) ELSE LlmVerdict(result)) = "valid"
      BY <1>2, <3>2 DEF Jobs, Types
    <3>4. result = "ok"
      BY <3>3 DEF VaultVerdict, LlmVerdict
    <3>5. th[t].held \in Good
      BY <3>4 DEF Results
    <3> QED BY <2>1, <3>1, <3>5
  <2> QED BY <2>2, <2>3
<1> QED BY <1>2 DEF VerdictsAreOfTheKey

\* A key that changes loses its verdict.
LEMMA VerdictByPut ==
  ASSUME Jobs, VerdictsAreOfTheKey, NEW t \in Processes, PutDelete(t) \/ PutStore(t)
  PROVE  VerdictsAreOfTheKey'
<1>1. th[t].puts # <<>> /\ UNCHANGED <<llm, swapped>>
  BY DEF PutDelete, PutStore
<1>2. CASE UNCHANGED <<vault, verdict>>
  BY <1>1, <1>2, VerdictsStay
<1>3. CASE verdict' = Untested(t) /\ \E k : vault' = [vault EXCEPT ![Slot(t)] = k]
  <2>1. CASE Slot(t) = Provider
    <3>1. verdict'["vault"] = "untested" /\ verdict'["llm"] = verdict["llm"]
      BY <1>3, <2>1 DEF Untested, Jobs, Types
    <3> QED BY <1>1, <3>1 DEF VerdictsAreOfTheKey, Key
  <2>2. CASE Slot(t) # Provider
    <3>1. verdict' = verdict
      BY <1>3, <2>2 DEF Untested, Jobs, Types
    <3>2. vault'[Provider] = vault[Provider]
      BY <1>3, <2>2, SlotFacts DEF Jobs, Types
    <3> QED BY <1>1, <3>1, <3>2, VerdictsStay
  <2> QED BY <2>1, <2>2
<1> QED BY <1>2, <1>3 DEF PutDelete, PutStore, StoreFails

\* So does a key that is stored or deleted in one commit.
LEMMA VerdictByKey ==
  ASSUME Jobs, VerdictsAreOfTheKey,
         \/ SetLlmKey \/ (\E kind \in {"vault", "llm"} : DeleteKey(kind))
         \/ \E t \in Threads : StoreSecret(t)
  PROVE  VerdictsAreOfTheKey'
<1>1. CASE SetLlmKey
  <2>1. UNCHANGED <<vault, swapped>> /\ verdict'["llm"] = "untested" /\ verdict'["vault"] = verdict["vault"]
    BY <1>1 DEF SetLlmKey, Jobs, Types
  <2> QED BY <2>1 DEF VerdictsAreOfTheKey, Key
<1>2. ASSUME NEW kind \in {"vault", "llm"}, DeleteKey(kind) PROVE VerdictsAreOfTheKey'
  <2>1. CASE kind = "vault"
    <3>1. UNCHANGED <<llm, swapped>> /\ verdict'["vault"] = "untested" /\ verdict'["llm"] = verdict["llm"]
      BY <1>2, <2>1 DEF DeleteKey, Jobs, Types
    <3> QED BY <3>1 DEF VerdictsAreOfTheKey, Key
  <2>2. CASE kind = "llm"
    <3>1. UNCHANGED <<vault, swapped>> /\ verdict'["llm"] = "untested" /\ verdict'["vault"] = verdict["vault"]
      BY <1>2, <2>2 DEF DeleteKey, Jobs, Types
    <3> QED BY <3>1 DEF VerdictsAreOfTheKey, Key
  <2> QED BY <2>1, <2>2
<1>3. ASSUME NEW t \in Threads, StoreSecret(t) PROVE VerdictsAreOfTheKey'
  <2>1. UNCHANGED <<llm, swapped>> /\ verdict'["vault"] = "untested" /\ verdict'["llm"] = verdict["llm"]
    BY <1>3 DEF StoreSecret, Jobs, Types
  <2> QED BY <2>1 DEF VerdictsAreOfTheKey, Key
<1> QED BY <1>1, <1>2, <1>3

\* No other step writes a verdict or a key.
LEMMA VerdictsKept ==
  ASSUME Jobs, VerdictsAreOfTheKey, [Next]_vars PROVE VerdictsAreOfTheKey'
<1>1. CASE UNCHANGED <<vault, verdict, llm, swapped>>
  BY <1>1, VerdictsStay
<1>2. ASSUME NEW t \in Threads, EndTest(t) PROVE VerdictsAreOfTheKey'
  BY <1>2, VerdictByTest
<1>3. ASSUME NEW t \in Threads,
             \/ BeginRotate(t) \/ RotateEnd(t)
             \/ \E kind \in {"vault", "llm"} : BeginTest(t, kind)
             \/ BeginConfigure(t) \/ BeginInstall(t) \/ KeepState(t)
             \/ \E s \in States, k \in 1..Codes : BeginCallback(t, s, k)
             \/ Consume(t) \/ Refused(t) \/ Exchange(t) \/ Connect(t)
      PROVE  VerdictsAreOfTheKey'
  BY <1>1, <1>3
     DEF BeginRotate, RotateEnd, BeginTest, BeginConfigure, BeginInstall, KeepState, BeginCallback,
         Consume, Refused, Exchange, Connect
<1>4. CASE \/ (\E s \in States : ExpireState(s)) \/ Disconnect
           \/ (\E c \in Conns : Due(c) \/ BeginSync(c))
           \/ (\E pair \in Pairs(th[Loop].n) : Refreshed(pair) \/ AnswerLost(pair))
           \/ RefreshRefused \/ Reauth \/ RefreshEnd \/ Crash \/ Restart
  BY <1>1, <1>4
     DEF ExpireState, Disconnect, Due, BeginSync, Refreshed, AnswerLost, RefreshRefused, Reauth,
         RefreshEnd, Crash, Restart
<1>5. CASE UNCHANGED vars
  BY <1>1, <1>5 DEF vars
<1> QED BY <1>2, <1>3, <1>4, <1>5, VerdictByPut, VerdictByKey DEF Next

-----------------------------------------------------------------------------
(* The theorems.                                                           *)

\* A service that starts.
LEMMA InitVaultInv == Init => VaultInv
<1> SUFFICES ASSUME Init PROVE VaultInv
  OBVIOUS
<1>1. Types
  <2>1. vault \in [Slots -> 0..MaxKey] /\ llm \in 0..MaxKey
    BY SlotFacts, CountFromOne DEF Init
  <2>2. grants \in [Conns -> Grant]
    <3>1. 0 \in 0..MaxKey
      BY CountFromOne
    <3>2. [access |-> 0, refresh |-> 0] \in Grant
      BY <3>1 DEF Grant
    <3> QED BY <3>2 DEF Init
  <2> QED BY <2>1, <2>2, NoJobIsJob DEF Init, Types
<1>2. \A t \in Processes : th[t] = NoJob
  BY DEF Init
<1>3. \A t \in Processes : JobInv(t)
  BY <1>2, NoJobIsJob DEF JobInv
<1>4. ASSUME NEW c \in Conns PROVE GrantInv(c)
  <2>1. grants[c].access = 0 /\ grants[c].refresh = 0 /\ rows[c] = "none"
    BY DEF Init
  <2>2. th[Loop].n # c
    BY <1>2, NoJobIsJob, LoopIsProcess, CountFromOne
  <2> QED BY <2>1, <2>2 DEF GrantInv, Honoured
<1>5. ConnectsAlone /\ AwaitsDrawn
  BY <1>2, NoJobIsJob DEF ConnectsAlone, Connects, AwaitsDrawn, Init
<1>6. Kept
  <2>1. \A s \in Referred : s = Client
    BY DEF Referred, Init
  <2>2. vault[Client] = 1
    BY SlotFacts DEF Init
  <2> QED BY <2>1, <2>2 DEF Kept
<1>7. ASSUME NEW s \in States PROVE StateInv(s)
  BY <1>2, NoJobIsJob, CountFromOne DEF StateInv, Pending, Calling, Consumed, Init
<1>8. VerdictsAreOfTheKey
  BY DEF VerdictsAreOfTheKey, Init
<1> QED BY <1>1, <1>3, <1>4, <1>5, <1>6, <1>7, <1>8 DEF VaultInv, Jobs

\* It is inductive.
LEMMA VaultInvHolds == Spec => []VaultInv
<1>1. VaultInv /\ [Next]_vars => VaultInv'
  BY JobsKept, KeptKept, StateKept, VerdictsKept DEF VaultInv
<1> QED BY InitVaultInv, <1>1, PTL DEF Spec

\* A secret that a row refers to (and the client secret at any time) is in the
\* vault, unless a request is between deleting it and storing it again, or a
\* crash or a missing master key cut one there: whatever requests replace it.
THEOREM SecretsKept == Spec => []SecretsAreKept
<1>1. ASSUME VaultInv PROVE TypeOK
  BY <1>1 DEF VaultInv, Jobs, Types, TypeOK
<1>2. ASSUME VaultInv, NEW s \in Referred, vault[s] = 0 PROVE Replacing(s) \/ s \in cut
  <2>1. CASE s \in cut
    BY <2>1
  <2>2. CASE Between(s)
    <3>1. PICK t \in Processes : th[t].puts # <<>> /\ Slot(t) = s
      BY <2>2 DEF Between
    <3>2. th[t].puts \in Seq(Slots \X Secrets)
      BY <1>2 DEF VaultInv, Jobs, Types, Job
    <3>3. 1 \in DOMAIN th[t].puts /\ th[t].puts[1] = Head(th[t].puts)
      BY <3>1, <3>2
    <3> QED BY <3>1, <3>3 DEF Replacing, Slot
  <2> QED BY <1>2, <2>1, <2>2 DEF VaultInv, Kept
<1>3. VaultInv => SecretsAreKept
  BY <1>1, <1>2 DEF SecretsAreKept
<1> QED BY VaultInvHolds, <1>3, PTL

\* However often a person authorizes, and in however many tabs, a state brings
\* one connection at most, unless a callback gave it up after another one or a
\* new installation had.
THEOREM StatesConnectOnlyOnce == Spec => []StatesConnectOnce
<1>1. ASSUME VaultInv, NEW s \in States \ raced
      PROVE  Cardinality({u \in used : u[1][1] = s}) <= 1
  <2> DEFINE S == {u \in used : u[1][1] = s}
  <2>1. \A u, v \in S : u = v
    BY <1>1 DEF VaultInv, StateInv, UsedFor
  <2>2. S = {} \/ \E u : S = {u}
    BY <2>1, Zenon
  <2>3. Cardinality({}) = 0 /\ \A u : Cardinality({u}) = 1
    BY FS_EmptySet, FS_Singleton
  <2> HIDE DEF S
  <2>4. Cardinality(S) \in {0, 1}
    BY <2>2, <2>3
  <2> QED BY <2>4 DEF S
<1>2. VaultInv => StatesConnectOnce
  BY <1>1 DEF StatesConnectOnce
<1> QED BY VaultInvHolds, <1>2, PTL

\* The refresh token kept for a connected row is the one the vendor honours,
\* whatever else goes on and whenever it stops, unless a refresh is under way
\* or was cut.
THEOREM TokensHonoured == Spec => []TokensAreHonoured
<1>1. VaultInv => TokensAreHonoured
  BY DEF VaultInv, Jobs, GrantInv, Honoured, TokensAreHonoured
<1> QED BY VaultInvHolds, <1>1, PTL

\* A key shown as valid is one the provider accepts, unless it was replaced
\* while the test was under way.
THEOREM VerdictsHold == Spec => []VerdictsAreOfTheKey
<1>1. VaultInv => VerdictsAreOfTheKey
  BY DEF VaultInv
<1> QED BY VaultInvHolds, <1>1, PTL

=============================================================================
