------------------------ MODULE EgressFirewallProofs ------------------------
(***************************************************************************)
(* A guest NIC comes up only behind a document that was the server's own    *)
(* since the control connection was registered, and never behind a table    *)
(* that was damaged when it was asked for: for any rules, any sequence of    *)
(* their changes and any number of faults.                                  *)
(***************************************************************************)
EXTENDS EgressFirewall, FiniteSetTheorems, SequenceTheorems, TLAPS

-----------------------------------------------------------------------------
(***************************************************************************)
(* The inductive invariant                                                 *)
(***************************************************************************)

Known == Docs \cup {None}

UpFrames == [type : {"hello", "status"}, status : HostStatus]
            \cup [type : {"reply"}, req : Nat, result : {"ok", "refused", "failed"}]

DownFrames == [type : {"welcome"}] \cup [type : {"apply"}, doc : Docs, req : Nat]

Syncs == [pc : {"idle", "read", "push"}, reason : {"push", "status"}, dirty : BOOLEAN,
          retry : BOOLEAN, confirmed : Known, refused : Known, doc : Known, req : Nat]

Links == [last : Nat, session : Nat, welcomed : BOOLEAN, sent : HostStatus, due : BOOLEAN]

Snaps == [key : Tables, listing : Tables]

Firewalls == [doc : Known, snap : Snaps, verified : BOOLEAN, confirmed : BOOLEAN,
              published : HostStatus]

Tasks == [kind : {"none", "apply", "check", "restore"}, doc : Known, req : Nat,
          session : Nat, fresh : BOOLEAN, nic : BOOLEAN]

Ops == [task : Tasks,
        step : {"idle", "load", "persist", "list", "install", "relist", "close"}]

\* What every variable holds.
BackendTypes ==
    /\ rules \in Versions /\ changed \in BOOLEAN
    /\ open \subseteq Sessions /\ cur \in open \cup {0}
    /\ heard \in HostStatus
    /\ sync \in Syncs \cup {NoSync}
    /\ (sync = NoSync) = (cur = 0)
    /\ floor \in [Sessions -> Nat]

AgentTypes ==
    /\ link \in Links /\ link.session \in {0, link.last}
    /\ fw \in Firewalls /\ queue \in Seq(Tasks) /\ op \in Ops
    /\ stored \in Known /\ table \in Tables
    /\ nic \in {"idle", "waiting", "up"} /\ damage \in BOOLEAN

WireTypes ==
    /\ up \in [Sessions -> Seq(UpFrames)]
    /\ down \in [Sessions -> Seq(DownFrames)]
    /\ faults \in 0..MaxFaults

\* The wire begins with the hello of its session, which is not registered yet.
Hello(w) == w # <<>> /\ w[1].type = "hello"

\* A session says hello once, first.
HelloFirst(w) == \A i \in 1..Len(w) : w[i].type = "hello" => i = 1

\* Where the sessions stand: those to come have no traffic and no socket; the
\* one the agent lasts on is welcomed before anything else, and registered
\* before it is welcomed.
Connections ==
    /\ \A s \in Sessions : s > link.last => up[s] = <<>> /\ down[s] = <<>> /\ s \notin open
    /\ \A s \in Sessions : HelloFirst(up[s]) /\ (Hello(up[s]) => cur # s)
    /\ link.session = 0 => ~link.welcomed
    /\ link.due => link.welcomed
    /\ link.session # 0 =>
         LET w == down[link.session] IN
         /\ Hello(up[link.session]) => w = <<>> /\ ~link.welcomed
         /\ cur = link.session => link.welcomed \/ w # <<>>
         /\ ~link.welcomed /\ w # <<>> => w[1].type = "welcome"

\* Sessions that are over for the agent while the Backend has yet to read
\* their hello: each of them may close its successor once.
Late == {s \in Sessions : s \in open /\ s # link.session /\ Hello(up[s])}

\* Every session but the first is paid for by a fault.
Paid ==
    link.last + Cardinality(Late) + (IF link.session \in open THEN 0 ELSE 1) <= 2 * faults + 1

\* The document was the server's own since the connection s was registered.
Vouched(s, doc) == \E v \in floor[s]..rules : doc = Contents[v]

\* A document of the connection that lasts.
FreshDoc(task) ==
    /\ task.kind = "apply"
    /\ link.welcomed
    /\ Vouched(link.session, task.doc)

\* The documents on the wire and those of fresh tasks are vouched for; stale ones come first.
Documents ==
    /\ \A s \in Sessions : floor[s] \in 1..rules
    /\ link.session # 0 =>
         \A i \in 1..Len(down[link.session]) :
            down[link.session][i].type = "apply" => Vouched(link.session, down[link.session][i].doc)
    /\ op.task.fresh => FreshDoc(op.task)
    /\ \A i \in 1..Len(queue) : queue[i].fresh => FreshDoc(queue[i])
    /\ \A i, j \in 1..Len(queue) : i < j /\ queue[i].fresh /\ queue[j].kind = "apply" => queue[j].fresh
    /\ op.task.fresh \/ fw.confirmed =>
         \A i \in 1..Len(queue) : queue[i].kind = "apply" => queue[i].fresh
    /\ fw.confirmed =>
         /\ link.welcomed
         /\ Vouched(link.session, fw.doc)
         /\ op.task.kind = "apply" => op.task.fresh

\* The agent restores before it dials; an operation stands where its kind takes it.
Restores ==
    /\ op.task.kind = "restore" => link.session = 0
    /\ \A i \in 1..Len(queue) : queue[i].kind = "restore" => link.session = 0
    /\ op.step = "load" => op.task.kind = "restore"
    /\ op.step = "persist" => op.task.kind = "apply"

\* One check at most waits for its turn, and at most one operation answers the
\* NIC request; once that one has written the table, no damage is left to see.
Requests ==
    /\ \A i, j \in 1..Len(queue) : queue[i].kind = "check" /\ queue[j].kind = "check" => i = j
    /\ \A i \in 1..Len(queue) :
         queue[i].nic => queue[i].kind = "check" /\ nic = "waiting" /\ ~op.task.nic
    /\ op.task.nic => op.task.kind = "check" /\ nic = "waiting"
    /\ op.task.nic /\ op.step = "relist" => ~damage

FInv ==
    /\ BackendTypes /\ AgentTypes /\ WireTypes
    /\ Connections /\ Paid
    /\ Documents /\ Restores /\ Requests


-----------------------------------------------------------------------------
(***************************************************************************)
(* Constants, wires and records                                             *)
(***************************************************************************)

LEMMA Numbers ==
    /\ Len(Contents) \in Nat \ {0} /\ MaxFaults \in Nat
    /\ Versions \subseteq Nat \ {0} /\ Sessions \subseteq Nat \ {0}
    /\ \A v \in Versions : Contents[v] \in Docs
    /\ IsFiniteSet(Sessions)
<1>1. Len(Contents) \in Nat \ {0} /\ MaxFaults \in Nat
  BY FirewallConstants, LenProperties
<1>2. 2 * MaxFaults + 1 \in Nat
  BY <1>1
<1>3. IsFiniteSet(Sessions)
  BY <1>2, FS_Interval DEF Sessions
<1>4. QED
  BY <1>1, <1>2, <1>3 DEF Versions, Sessions, Docs

\* What a frame more does to a wire.
LEMMA Longer ==
    ASSUME NEW S, NEW w \in Seq(S), NEW f \in S
    PROVE  /\ Append(w, f) \in Seq(S) /\ Append(w, f) # <<>>
           /\ Len(w) \in Nat /\ Len(Append(w, f)) = Len(w) + 1
           /\ \A i \in 1..Len(w) : Append(w, f)[i] = w[i]
           /\ Append(w, f)[Len(w) + 1] = f
<1>1. Len(w) \in Nat
  BY LenProperties
<1>2. QED
  BY <1>1, AppendProperties

\* What a frame less does to it.
LEMMA Shorter ==
    ASSUME NEW S, NEW w \in Seq(S), w # <<>>
    PROVE  /\ Head(w) \in S /\ Head(w) = w[1] /\ Tail(w) \in Seq(S)
           /\ Len(w) \in Nat \ {0} /\ Len(Tail(w)) = Len(w) - 1
           /\ \A i \in 1..Len(Tail(w)) : i + 1 \in 1..Len(w) /\ Tail(w)[i] = w[i + 1]
<1>1. Len(w) \in Nat \ {0}
  BY EmptySeq, LenProperties
<1>2. QED
  BY <1>1, HeadTailProperties

LEMMA Elements ==
    ASSUME NEW S, NEW w \in Seq(S)
    PROVE  /\ Len(w) \in Nat
           /\ DOMAIN w = 1..Len(w)
           /\ \A i \in 1..Len(w) : w[i] \in S
           /\ w # <<>> => Len(w) >= 1
           /\ Len(w) >= 1 => w # <<>>
  BY LenProperties, ElementOfSeq, EmptySeq

LEMMA StatusTyped ==
    ASSUME NEW f \in Firewalls
    PROVE  Status(f) \in HostStatus
<1>1. Present(f) \in BOOLEAN
  BY DEF Present
<1>2. f.doc \in Known
  BY DEF Firewalls
<1>3. QED
  BY <1>1, <1>2 DEF Status, HostStatus, Known

\* Taken from the invariant of the types.
LEMMA BootTyped == Boot \in Firewalls /\ Status(Boot) \in HostStatus
<1>1. Boot \in Firewalls
  BY DEF Boot, Firewalls, NoSnap, Snaps, Tables, Known, HostStatus, None
<1>2. QED
  BY <1>1, StatusTyped

-----------------------------------------------------------------------------
(***************************************************************************)
(* What steps leave alone                                                   *)
(***************************************************************************)

Types == BackendTypes /\ AgentTypes /\ WireTypes

\* There are sessions enough: the agent's own is one of them, and so is the next.
LEMMA EnoughSessions ==
    ASSUME Types, Paid
    PROVE  /\ Cardinality(Late) \in Nat /\ link.last \in Nat
           /\ link.session # 0 => link.session \in Sessions
           /\ link.session = 0 => link.last + 1 \in Sessions
<1>1. Cardinality(Late) \in Nat
  BY Numbers, FS_Subset, FS_CardinalityType DEF Late
<1>2. link.last \in Nat /\ link.session \in {0, link.last} /\ faults \in 0..MaxFaults
  BY DEF Types, AgentTypes, Links, WireTypes
<1>3. 0 \notin open
  BY Numbers DEF Types, BackendTypes
<1>4. link.last <= 2 * faults + 1 /\ (link.session = 0 => link.last <= 2 * faults)
  BY <1>1, <1>2, <1>3, Numbers DEF Paid
<1>5. QED
  BY <1>1, <1>2, <1>4, Numbers DEF Sessions

\* The agent is on the same connection.
SameSession ==
    /\ link' \in Links
    /\ link'.last = link.last
    /\ link'.session = link.session
    /\ link'.welcomed = link.welcomed
    /\ link'.due => link.due \/ link.welcomed

\* No hello is sent.
NoHello ==
    \A s \in Sessions :
      /\ HelloFirst(up'[s])
      /\ Hello(up'[s]) => Hello(up[s])
      /\ s > link.last => up'[s] = <<>>

LEMMA ConnectionsKept ==
    ASSUME Types, Connections, Paid,
           SameSession, NoHello, cur' = cur, open' = open, down' = down,
           faults' \in {faults, faults + 1}
    PROVE  Connections' /\ Paid'
<1>1. Connections'
  <2>1. \A s \in Sessions : s > link'.last => up'[s] = <<>> /\ down'[s] = <<>> /\ s \notin open'
    BY DEF Connections, SameSession, NoHello
  <2>2. \A s \in Sessions : HelloFirst(up'[s]) /\ (Hello(up'[s]) => cur' # s)
    BY DEF Connections, NoHello
  <2>3. (link'.session = 0 => ~link'.welcomed) /\ (link'.due => link'.welcomed)
    BY DEF Connections, SameSession
  <2>4. CASE link.session = 0
    BY <2>1, <2>2, <2>3, <2>4 DEF Connections, SameSession
  <2>5. CASE link.session # 0
    <3>1. link.session \in Sessions
      BY <2>5, EnoughSessions
    <3>2. Hello(up'[link.session]) => Hello(up[link.session])
      BY <3>1 DEF NoHello
    <3>3. QED
      BY <2>1, <2>2, <2>3, <2>5, <3>2 DEF Connections, SameSession
  <2>6. QED
    BY <2>4, <2>5
<1>2. Paid'
  <2>1. Late' \subseteq Late
    BY DEF Late, NoHello, SameSession
  <2>2. IsFiniteSet(Late)
    BY Numbers, FS_Subset DEF Late
  <2>3. Cardinality(Late') \in Nat /\ Cardinality(Late') <= Cardinality(Late)
    BY <2>1, <2>2, FS_Subset, FS_CardinalityType
  <2>4. Cardinality(Late) \in Nat /\ link.last \in Nat
    BY EnoughSessions
  <2>5. faults \in Nat
    BY Numbers DEF Types, WireTypes
  <2>6. QED
    BY <2>3, <2>4, <2>5 DEF Paid, SameSession
<1>3. QED
  BY <1>1, <1>2

\* More rules keep what was vouched for.
LEMMA StaysVouched ==
    ASSUME NEW s, NEW d, Vouched(s, d),
           rules \in Nat, rules' \in Nat, rules <= rules', floor'[s] = floor[s], floor[s] \in Nat
    PROVE  Vouched(s, d)'
  BY DEF Vouched

\* The documents, where they are and what is known of them.
SameDocuments ==
    /\ down' = down /\ floor' = floor
    /\ queue' = queue /\ op'.task = op.task
    /\ fw'.confirmed = fw.confirmed /\ fw'.doc = fw.doc

LEMMA DocumentsKept ==
    ASSUME Types, Connections, Paid, Documents, SameDocuments, SameSession,
           rules' \in Nat, rules <= rules'
    PROVE  Documents'
<1>1. rules \in Nat
  BY Numbers DEF Types, BackendTypes
<1>2. \A s \in Sessions : floor[s] \in Nat /\ floor'[s] \in 1..rules'
  BY <1>1 DEF Documents, SameDocuments, Types, BackendTypes
<1>3. \A s \in Sessions : \A d : Vouched(s, d) => Vouched(s, d)'
  BY <1>1, <1>2, StaysVouched DEF SameDocuments
<1>4. /\ link.session # 0 => link.session \in Sessions
      /\ link.welcomed => link.session # 0
  BY EnoughSessions DEF Connections
<1>5. \A t : FreshDoc(t) => FreshDoc(t)'
  BY <1>3, <1>4 DEF FreshDoc, SameSession
<1>6. link'.session # 0 =>
         \A i \in 1..Len(down'[link'.session]) :
            down'[link'.session][i].type = "apply"
              => Vouched(link.session, down[link.session][i].doc)'
  BY <1>3, <1>4 DEF Documents, SameDocuments, SameSession
<1>7. fw'.confirmed =>
         /\ link'.welcomed
         /\ Vouched(link.session, fw.doc)'
         /\ op'.task.kind = "apply" => op'.task.fresh
  BY <1>3, <1>4 DEF Documents, SameDocuments, SameSession
<1>8. QED
  BY <1>2, <1>5, <1>6, <1>7 DEF Documents, SameDocuments, SameSession, FreshDoc, Vouched

\* The tasks and what the agent may do meanwhile.
LEMMA RestoresKept ==
    ASSUME Restores, queue' = queue, op'.task = op.task, link'.session = link.session,
           op'.step \in {"load", "persist"} => op'.step = op.step
    PROVE  Restores'
  BY DEF Restores

LEMMA RequestsKept ==
    ASSUME Requests, queue' = queue, op'.task = op.task, nic' = nic,
           op'.step = "relist" => ~damage' \/ (op.step = "relist" /\ damage' = damage)
    PROVE  Requests'
  BY DEF Requests

\* Steps of the Backend alone, and of other programs on the host.
Elsewhere ==
    /\ UNCHANGED <<cur, open, heard, wires, agent, nic, history>>
    /\ faults' \in {faults, faults + 1} /\ faults' <= MaxFaults

LEMMA ElsewhereKeeps ==
    ASSUME FInv, Elsewhere,
           rules' \in Versions, rules <= rules', changed' \in BOOLEAN, table' \in Tables,
           sync' \in Syncs \cup {NoSync}, (sync' = NoSync) = (sync = NoSync)
    PROVE  FInv'
<1>1. Types'
  BY Numbers DEF FInv, Types, Elsewhere, BackendTypes, AgentTypes, WireTypes, wires, agent, history
<1>2. SameSession /\ NoHello
  BY DEF FInv, Elsewhere, SameSession, NoHello, AgentTypes, Connections, wires, agent
<1>3. Connections' /\ Paid'
  BY <1>2, ConnectionsKept DEF FInv, Types, Elsewhere, wires
<1>4. Documents'
  BY <1>2, DocumentsKept, Numbers DEF FInv, Types, Elsewhere, SameDocuments, wires, agent, history
<1>5. Restores' /\ Requests'
  BY DEF FInv, Elsewhere, agent, history, Restores, Requests
<1>6. QED
  BY <1>1, <1>3, <1>4, <1>5 DEF FInv, Types

-----------------------------------------------------------------------------
(***************************************************************************)
(* The Backend's steps                                                      *)
(***************************************************************************)

\* A step that shows the table to nobody.
NicStep == nic = "waiting" /\ nic' = "up" /\ damage => fw.snap.listing = table

LEMMA SyncTyped ==
    ASSUME NEW sy \in Syncs, NEW reason \in {"push", "status"}
    PROVE  /\ Attempt(sy, reason) \in Syncs
           /\ Trigger(sy, reason) \in Syncs
           /\ Finish(sy) \in Syncs
           /\ \A b \in BOOLEAN : Fail(sy, b) \in Syncs
<1>1. ASSUME NEW y \in Syncs, NEW r \in {"push", "status"} PROVE Attempt(y, r) \in Syncs
  BY DEF Attempt, Syncs
<1>2. ASSUME NEW y \in Syncs PROVE Finish(y) \in Syncs
  <2>1. [y EXCEPT !.pc = "idle"] \in Syncs
    BY DEF Syncs
  <2>2. QED
    BY <1>1, <2>1 DEF Finish
<1>3. ASSUME NEW b \in BOOLEAN PROVE Fail(sy, b) \in Syncs
  <2>1. [sy EXCEPT !.retry = b] \in Syncs
    BY DEF Syncs
  <2>2. QED
    BY <1>2, <2>1 DEF Fail
<1>4. Trigger(sy, reason) \in Syncs
  <2>1. [sy EXCEPT !.dirty = @ \/ reason = "push"] \in Syncs
    BY DEF Syncs
  <2>2. sy.pc \in {"idle", "read", "push"}
    BY DEF Syncs
  <2>3. QED
    BY <1>1, <2>1, <2>2 DEF Trigger
<1>5. QED
  BY <1>1, <1>2, <1>3, <1>4

LEMMA NoSyncApart == NoSync \notin Syncs /\ Connected \in Syncs /\ Trigger(NoSync, "push") = NoSync
                     /\ Trigger(NoSync, "status") = NoSync
<1>1. NoSync \notin Syncs
  BY DEF NoSync, Syncs
<1>2. [pc |-> "idle", reason |-> "push", dirty |-> FALSE, retry |-> FALSE, confirmed |-> None,
       refused |-> None, doc |-> None, req |-> 0] \in Syncs
  BY DEF Syncs, Known
<1>3. Connected \in Syncs
  BY <1>2, SyncTyped DEF Connected
<1>4. QED
  BY <1>1, <1>3 DEF Trigger, NoSync

\* The answer to the document under way.
LEMMA AnswerTyped ==
    ASSUME NEW f \in [type : {"reply"}, req : Nat, result : {"ok", "refused", "failed"}], sync \in Syncs
    PROVE  Answered(f) \in Syncs
<1>1. f.result \in {"ok", "refused", "failed"}
  OBVIOUS
<1>2. /\ [sync EXCEPT !.confirmed = sync.doc, !.refused = None] \in Syncs
      /\ [sync EXCEPT !.refused = sync.doc] \in Syncs
  BY DEF Syncs, Known
<1>3. QED
  BY <1>1, <1>2, SyncTyped DEF Answered

\* The steps of FirewallSyncService that send nothing.
LEMMA SyncKeeps ==
    ASSUME FInv, ChangeRules \/ RulesChanged \/ ReadFails \/ PushTimesOut \/ RetryDue
    PROVE  FInv' /\ NicStep
<1>1. NicStep
  BY DEF NicStep, ChangeRules, RulesChanged, ReadFails, PushTimesOut, RetryDue
<1>2. rules \in Nat /\ faults \in Nat /\ MaxFaults \in Nat /\ Len(Contents) \in Nat /\ faults <= MaxFaults
  BY Numbers DEF FInv, BackendTypes, WireTypes
<1>3. sync \in Syncs \cup {NoSync} /\ rules \in Versions /\ table \in Tables /\ changed \in BOOLEAN
  BY DEF FInv, BackendTypes, AgentTypes
<1>4. CASE ChangeRules
  <2>1. Elsewhere
    BY <1>2, <1>4 DEF ChangeRules, Elsewhere, wires, agent, history
  <2>2. rules' \in Versions /\ rules <= rules' /\ changed' \in BOOLEAN /\ table' = table /\ sync' = sync
    BY <1>2, <1>4 DEF ChangeRules, Versions
  <2>3. QED
    BY <1>1, <1>3, <2>1, <2>2, ElsewhereKeeps
<1>5. CASE RulesChanged \/ ReadFails \/ PushTimesOut \/ RetryDue
  <2>1. Elsewhere
    <3>1. faults' \in {faults, faults + 1} /\ faults' <= MaxFaults
      <4>1. ASSUME faults' = faults \/ (faults < MaxFaults /\ faults' = faults + 1)
            PROVE  faults' \in {faults, faults + 1} /\ faults' <= MaxFaults
        BY <1>2, <4>1
      <4>2. faults' = faults \/ (faults < MaxFaults /\ faults' = faults + 1)
        BY <1>5 DEF RulesChanged, ReadFails, PushTimesOut, RetryDue
      <4>3. QED
        BY <4>1, <4>2
    <3>2. QED
      BY <3>1, <1>5 DEF RulesChanged, ReadFails, PushTimesOut, RetryDue, Elsewhere
  <2>2. rules' = rules /\ changed' \in BOOLEAN /\ table' = table
    BY <1>3, <1>5 DEF RulesChanged, ReadFails, PushTimesOut, RetryDue
  <2>3. sync' \in Syncs \cup {NoSync} /\ (sync' = NoSync) = (sync = NoSync)
    <3>1. CASE sync = NoSync
      BY <1>5, <3>1, NoSyncApart DEF RulesChanged, ReadFails, PushTimesOut, RetryDue, NoSync
    <3>2. CASE sync \in Syncs
      <4>1. /\ [sync EXCEPT !.req = sync.req + 1] \in Syncs
            /\ [sync EXCEPT !.retry = FALSE] \in Syncs
        <5>1. sync.req \in Nat
          BY <3>2 DEF Syncs
        <5>2. [sync EXCEPT !.req = sync.req + 1] \in Syncs
          BY <3>2, <5>1 DEF Syncs
        <5>3. [sync EXCEPT !.retry = FALSE] \in Syncs
          BY <3>2 DEF Syncs
        <5>4. QED
          BY <5>2, <5>3
      <4>2. sync' \in Syncs
        BY <1>5, <3>2, <4>1, SyncTyped DEF RulesChanged, ReadFails, PushTimesOut, RetryDue
      <4>3. QED
        BY <3>2, <4>2, NoSyncApart
    <3>3. QED
      BY <1>3, <3>1, <3>2
  <2>4. QED
    BY <1>1, <1>2, <1>3, <2>1, <2>2, <2>3, ElsewhereKeeps
<1>6. QED
  BY <1>4, <1>5

\* Another program changes the table.
LEMMA TamperKeeps ==
    ASSUME FInv, NEW kind \in {None, Edited, Foreign}, Tamper(kind)
    PROVE  FInv' /\ NicStep
<1>1. faults \in Nat /\ MaxFaults \in Nat
  BY Numbers DEF FInv, WireTypes
<1>2. Elsewhere
  BY <1>1 DEF Tamper, Elsewhere, backend
<1>3. /\ rules' = rules /\ rules \in Nat /\ rules \in Versions /\ changed' = changed /\ changed \in BOOLEAN
      /\ sync' = sync /\ sync \in Syncs \cup {NoSync}
  BY Numbers DEF Tamper, backend, FInv, BackendTypes
<1>4. table' \in Tables
  BY DEF Tamper, Tables
<1>5. QED
  BY <1>2, <1>3, <1>4, ElsewhereKeeps DEF NicStep, Tamper

\* What the Backend reads and, unless the agent has it, sends is the document of
\* the rules as they are.
LEMMA ReadRulesKeeps ==
    ASSUME FInv, ReadRules
    PROVE  FInv' /\ NicStep
<1>1. /\ rules' = rules /\ changed' = changed /\ cur' = cur /\ open' = open /\ heard' = heard
      /\ up' = up /\ link' = link /\ fw' = fw /\ queue' = queue /\ op' = op /\ stored' = stored
      /\ table' = table /\ nic' = nic /\ floor' = floor /\ damage' = damage /\ faults' = faults
  BY DEF ReadRules, agent, history
<1>2. sync \in Syncs /\ cur # 0 /\ cur \in Sessions /\ cur \in open
  BY NoSyncApart DEF ReadRules, FInv, BackendTypes, NoSync
<1>3. rules \in Versions /\ rules \in Nat /\ faults \in Nat /\ faults <= MaxFaults /\ MaxFaults \in Nat
  BY Numbers DEF FInv, BackendTypes, WireTypes
<1>4. CASE Skips(sync, Contents[rules]) /\ sync' = Finish(sync) /\ down' = down
  <2>1. Elsewhere
    BY <1>1, <1>3, <1>4 DEF Elsewhere, wires, agent, history
  <2>2. sync' \in Syncs /\ sync' # NoSync /\ sync # NoSync
    BY <1>2, <1>4, SyncTyped, NoSyncApart
  <2>3. QED
    BY <1>1, <1>3, <2>1, <2>2, ElsewhereKeeps DEF FInv, BackendTypes, AgentTypes, NicStep
<1>5. CASE /\ sync' = [sync EXCEPT !.pc = "push", !.doc = Contents[rules]]
           /\ down' = Send(down, cur, [type |-> "apply", doc |-> Contents[rules], req |-> sync.req])
  <2> DEFINE frame == [type |-> "apply", doc |-> Contents[rules], req |-> sync.req]
             S == link.session
  <2>1. frame \in DownFrames /\ sync' \in Syncs
    <3>1. Contents[rules] \in Docs /\ Contents[rules] \in Known /\ sync.req \in Nat
      BY <1>2, <1>3, Numbers DEF Syncs, Known
    <3>2. QED
      BY <1>2, <1>5, <3>1 DEF DownFrames, Syncs
  <2>2. /\ down \in [Sessions -> Seq(DownFrames)]
        /\ down' = [down EXCEPT ![cur] = Append(down[cur], frame)]
    BY <1>5 DEF FInv, WireTypes, Send
  <2>3. down[cur] \in Seq(DownFrames)
    BY <1>2, <2>2
  <2>4. /\ down' \in [Sessions -> Seq(DownFrames)]
        /\ \A s \in Sessions : s # cur => down'[s] = down[s]
        /\ down'[cur] = Append(down[cur], frame)
    BY <1>2, <2>1, <2>2, <2>3, Longer
  <2>5. Types'
    BY <1>1, <1>2, <2>1, <2>4, NoSyncApart DEF FInv, Types, BackendTypes, AgentTypes, WireTypes
  <2>6. Types /\ (S # 0 => S \in Sessions)
    BY EnoughSessions DEF FInv, Types
  <2>7. Connections' /\ Paid'
    <3>1. Paid' /\ Late' = Late
      BY <1>1 DEF FInv, Paid, Late, Hello
    <3>2. \A s \in Sessions : s > link.last => s # cur
      BY <1>2 DEF FInv, Connections
    <3>3. ASSUME S # 0
          PROVE  /\ Hello(up[S]) => down'[S] = <<>> /\ ~link.welcomed
                 /\ cur = S => link.welcomed \/ down'[S] # <<>>
                 /\ ~link.welcomed /\ down'[S] # <<>> => down'[S][1].type = "welcome"
      <4>1. CASE cur = S
        <5>1. ~Hello(up[S]) /\ (link.welcomed \/ down[S] # <<>>)
          BY <3>3, <4>1, <2>6 DEF FInv, Connections
        <5>2. ~link.welcomed => down[S][1].type = "welcome" /\ down'[S][1] = down[S][1]
          BY <3>3, <4>1, <5>1, <2>1, <2>3, <2>4, Longer, Elements DEF FInv, Connections
        <5>3. down'[S] # <<>>
          BY <4>1, <2>1, <2>3, <2>4, Longer
        <5>4. QED
          BY <5>1, <5>2, <5>3
      <4>2. CASE cur # S
        BY <3>3, <4>2, <2>4, <2>6 DEF FInv, Connections
      <4>3. QED
        BY <4>1, <4>2
    <3>4. QED
      BY <1>1, <2>4, <3>1, <3>2, <3>3 DEF FInv, Connections
  <2>8. Documents'
    <3>1. ASSUME S # 0, NEW i \in 1..Len(down'[S]), down'[S][i].type = "apply"
          PROVE  Vouched(S, down'[S][i].doc)
      <4>1. CASE cur = S
        <5>1. Vouched(S, frame.doc)
          BY <1>3, <2>6, <3>1 DEF FInv, Documents, Vouched
        <5>2. CASE i \in 1..Len(down[S])
          BY <3>1, <4>1, <5>2, <2>1, <2>3, <2>4, Longer DEF FInv, Documents
        <5>3. CASE i = Len(down[S]) + 1
          BY <3>1, <4>1, <5>3, <5>1, <2>1, <2>3, <2>4, Longer
        <5>4. QED
          BY <3>1, <4>1, <5>2, <5>3, <2>1, <2>3, <2>4, Longer
      <4>2. CASE cur # S
        BY <3>1, <4>2, <2>4, <2>6 DEF FInv, Documents
      <4>3. QED
        BY <4>1, <4>2
    <3>2. QED
      BY <1>1, <3>1 DEF FInv, Documents, FreshDoc, Vouched
  <2>9. Restores' /\ Requests' /\ NicStep
    BY <1>1 DEF FInv, Restores, Requests, NicStep
  <2>10. QED
    BY <2>5, <2>7, <2>8, <2>9 DEF FInv, Types
<1>6. QED
  BY <1>4, <1>5 DEF ReadRules

\* What is left of a wire begins with no hello.
LEMMA RestOfWire ==
    ASSUME NEW w \in Seq(UpFrames), w # <<>>, HelloFirst(w)
    PROVE  Tail(w) \in Seq(UpFrames) /\ HelloFirst(Tail(w)) /\ ~Hello(Tail(w))
<1>1. Tail(w) \in Seq(UpFrames)
  BY Shorter
<1>2. ASSUME NEW i \in 1..Len(Tail(w)) PROVE Tail(w)[i].type # "hello"
  <2>1. i + 1 \in 1..Len(w) /\ Tail(w)[i] = w[i + 1] /\ i \in Nat \ {0}
    BY Shorter
  <2>2. i + 1 # 1
    BY <2>1
  <2>3. QED
    BY <2>1, <2>2 DEF HelloFirst
<1>3. HelloFirst(Tail(w))
  BY <1>2 DEF HelloFirst
<1>4. Tail(w) # <<>> => 1 \in 1..Len(Tail(w))
  BY <1>1, Elements
<1>5. QED
  BY <1>1, <1>2, <1>3, <1>4 DEF Hello

\* A frame that is no hello is taken off the wire of the registered connection.
LEMMA TakenOff ==
    ASSUME Types, Connections, cur # 0, up[cur] # <<>>, Head(up[cur]).type # "hello",
           up' = [up EXCEPT ![cur] = Tail(up[cur])]
    PROVE  NoHello /\ up' \in [Sessions -> Seq(UpFrames)] /\ Head(up[cur]) \in UpFrames
<1>1. cur \in Sessions /\ cur \in open /\ up \in [Sessions -> Seq(UpFrames)]
  BY DEF Types, BackendTypes, WireTypes
<1>2. up[cur] \in Seq(UpFrames) /\ HelloFirst(up[cur])
  BY <1>1 DEF Connections
<1>3. Tail(up[cur]) \in Seq(UpFrames) /\ Head(up[cur]) \in UpFrames
  BY <1>2, Shorter
<1>4. /\ up' \in [Sessions -> Seq(UpFrames)] /\ up'[cur] = Tail(up[cur])
      /\ \A s \in Sessions : s # cur => up'[s] = up[s]
  BY <1>1, <1>3
<1>5. HelloFirst(up'[cur]) /\ ~Hello(up'[cur])
  BY <1>2, <1>4, RestOfWire
<1>6. NoHello
  BY <1>1, <1>4, <1>5 DEF NoHello, Connections
<1>7. QED
  BY <1>3, <1>4, <1>6

\* The Backend hears a status or an answer.
LEMMA HearKeeps ==
    ASSUME FInv, HearStatus \/ HearReply
    PROVE  FInv' /\ NicStep
<1>1. /\ rules' = rules /\ changed' = changed /\ cur' = cur /\ open' = open /\ down' = down
      /\ link' = link /\ fw' = fw /\ queue' = queue /\ op' = op /\ stored' = stored
      /\ table' = table /\ nic' = nic /\ floor' = floor /\ damage' = damage /\ faults' = faults
  BY DEF HearStatus, HearReply, agent, history
<1>2. /\ cur # 0 /\ up[cur] # <<>> /\ Head(up[cur]).type \in {"status", "reply"}
      /\ up' = [up EXCEPT ![cur] = Tail(up[cur])]
  BY DEF HearStatus, HearReply
<1>3. NoHello /\ up' \in [Sessions -> Seq(UpFrames)] /\ Head(up[cur]) \in UpFrames
  BY <1>2, TakenOff DEF FInv, Types
<1>4. sync \in Syncs
  BY <1>2 DEF FInv, BackendTypes
<1>5. heard' \in HostStatus /\ sync' \in Syncs
  <2>1. CASE HearStatus
    BY <2>1, <1>3, <1>4, SyncTyped DEF HearStatus, UpFrames
  <2>2. CASE HearReply
    <3>1. Head(up[cur]) \in [type : {"reply"}, req : Nat, result : {"ok", "refused", "failed"}]
      BY <1>3, <2>2 DEF HearReply, UpFrames
    <3>2. QED
      BY <2>2, <3>1, <1>4, AnswerTyped DEF HearReply, FInv, BackendTypes
  <2>3. QED
    BY <2>1, <2>2
<1>6. Types'
  BY <1>1, <1>2, <1>3, <1>5, NoSyncApart DEF FInv, Types, BackendTypes, AgentTypes, WireTypes
<1>7. SameSession /\ Types
  BY <1>1 DEF SameSession, FInv, Types, AgentTypes
<1>8. Connections' /\ Paid'
  BY <1>1, <1>3, <1>7, ConnectionsKept DEF FInv
<1>9. Documents'
  <2>1. rules' \in Nat /\ rules <= rules'
    BY <1>1, Numbers DEF FInv, BackendTypes
  <2>2. SameDocuments
    BY <1>1 DEF SameDocuments
  <2>3. QED
    BY <2>1, <2>2, <1>7, DocumentsKept DEF FInv
<1>10. Restores' /\ Requests' /\ NicStep
  BY <1>1 DEF FInv, Restores, Requests, NicStep
<1>11. QED
  BY <1>6, <1>8, <1>9, <1>10 DEF FInv, Types

-----------------------------------------------------------------------------
(***************************************************************************)
(* Registering and closing                                                  *)
(***************************************************************************)

\* Fewer late sessions and no new sockets.
LEMMA FewerLate ==
    ASSUME Types, NEW L \in SUBSET Late
    PROVE  /\ IsFiniteSet(Late) /\ Cardinality(Late) \in Nat
           /\ Cardinality(L) \in Nat /\ Cardinality(L) <= Cardinality(Late)
           /\ \A s \in Late \ L : Cardinality(L) + 1 <= Cardinality(Late)
<1>1. IsFiniteSet(Late)
  BY Numbers, FS_Subset DEF Late
<1>2. IsFiniteSet(L) /\ Cardinality(L) <= Cardinality(Late)
  BY <1>1, FS_Subset
<1>3. Cardinality(Late) \in Nat /\ Cardinality(L) \in Nat
  BY <1>1, <1>2, FS_CardinalityType
<1>4. ASSUME NEW s \in Late \ L PROVE Cardinality(L) + 1 <= Cardinality(Late)
  <2>1. L # Late
    BY <1>4
  <2>2. Cardinality(L) # Cardinality(Late)
    BY <1>1, <2>1, FS_Subset
  <2>3. QED
    BY <1>2, <1>3, <2>2
<1>5. QED
  BY <1>1, <1>2, <1>3, <1>4

\* The hello of a session is read: it is registered, and the one before closed.
LEMMA RegisterKeeps ==
    ASSUME FInv, NEW s \in Sessions, Register(s)
    PROVE  FInv' /\ NicStep
<1> DEFINE S == link.session
<1>1. /\ rules' = rules /\ changed' = changed /\ link' = link /\ fw' = fw /\ queue' = queue /\ op' = op
      /\ stored' = stored /\ table' = table /\ nic' = nic /\ damage' = damage /\ faults' = faults
      /\ cur' = s /\ open' = open \ {cur} /\ sync' = Connected
      /\ floor' = [floor EXCEPT ![s] = rules]
      /\ s \in open /\ Hello(up[s])
  <2>1. up[s] \in Seq(UpFrames) /\ up[s] # <<>> /\ Head(up[s]).type = "hello"
    BY DEF Register, FInv, WireTypes
  <2>2. Hello(up[s])
    BY <2>1, Shorter DEF Hello
  <2>3. QED
    BY <2>2 DEF Register, agent
<1>2. cur # s /\ Types /\ s <= link.last /\ link.last \in Nat /\ (S # 0 => S \in Sessions)
  <2>1. cur # s /\ Types
    BY <1>1 DEF FInv, Connections, Types
  <2>2. link.last \in Nat /\ s \in Nat /\ (S # 0 => S \in Sessions)
    BY <2>1, Numbers, EnoughSessions DEF FInv
  <2>3. QED
    BY <1>1, <2>1, <2>2 DEF FInv, Connections
<1>3. rules \in Nat /\ rules >= 1
  BY Numbers DEF FInv, BackendTypes
<1>4. /\ up' = [t \in Sessions |-> IF t = s THEN Tail(up[s]) ELSE IF t = cur THEN <<>> ELSE up[t]]
      /\ down' = [down EXCEPT ![s] = Append(down[s], [type |-> "welcome"])]
      /\ heard' = Head(up[s]).status
  BY DEF Register, Send
<1>5. /\ up[s] \in Seq(UpFrames) /\ up[s] # <<>> /\ down[s] \in Seq(DownFrames)
      /\ [type |-> "welcome"] \in DownFrames
      /\ down \in [Sessions -> Seq(DownFrames)] /\ up \in [Sessions -> Seq(UpFrames)]
  BY <1>1 DEF FInv, WireTypes, Hello, DownFrames
<1>6. Tail(up[s]) \in Seq(UpFrames) /\ heard' \in HostStatus
  <2>1. Head(up[s]) \in UpFrames /\ Head(up[s]).type = "hello" /\ Tail(up[s]) \in Seq(UpFrames)
    BY <1>5, Shorter DEF Register
  <2>2. QED
    BY <1>4, <2>1 DEF UpFrames
<1>7. /\ up' \in [Sessions -> Seq(UpFrames)]
      /\ down' \in [Sessions -> Seq(DownFrames)]
      /\ down'[s] = Append(down[s], [type |-> "welcome"]) /\ down'[s] # <<>>
      /\ \A t \in Sessions : t # s => down'[t] = down[t]
  <2>1. /\ Append(down[s], [type |-> "welcome"]) \in Seq(DownFrames)
        /\ Append(down[s], [type |-> "welcome"]) # <<>>
    BY <1>5, Longer
  <2>2. \A t \in Sessions : up'[t] \in Seq(UpFrames)
    BY <1>4, <1>5, <1>6
  <2>3. QED
    BY <1>4, <1>5, <2>1, <2>2
<1>8. Types'
  <2>1. floor' \in [Sessions -> Nat] /\ cur' \in open' \cup {0} /\ cur' # 0
    BY <1>1, <1>2, <1>3, Numbers DEF Types, BackendTypes
  <2>2. QED
    BY <1>1, <1>6, <1>7, <2>1, NoSyncApart DEF FInv, Types, BackendTypes, AgentTypes, WireTypes
<1>9. \A t \in Sessions :
        /\ HelloFirst(up'[t]) /\ (Hello(up'[t]) => t # s /\ Hello(up[t]))
        /\ t > link.last => up'[t] = <<>>
  <2>1. HelloFirst(Tail(up[s])) /\ ~Hello(Tail(up[s]))
    BY <1>5, RestOfWire DEF FInv, Connections
  <2>2. HelloFirst(<<>>) /\ ~Hello(<<>>)
    BY DEF HelloFirst, Hello
  <2>3. QED
    BY <1>2, <1>4, <2>1, <2>2 DEF FInv, Connections
<1>10. Connections'
  <2>1. \A t \in Sessions : t > link.last => up'[t] = <<>> /\ down'[t] = <<>> /\ t \notin open'
    <3>1. ASSUME NEW t \in Sessions, t > link.last PROVE t # s
      <4>1. t \in Nat /\ s \in Nat
        BY Numbers
      <4>2. ~(link.last < s)
        BY <4>1, <1>2
      <4>3. QED
        BY <3>1, <4>2
    <3>2. \A t \in Sessions : t > link.last => down[t] = <<>> /\ t \notin open
      BY DEF FInv, Connections
    <3>3. ASSUME NEW t \in Sessions, t > link.last
          PROVE  up'[t] = <<>> /\ down'[t] = <<>> /\ t \notin open'
      <4>1. down'[t] = down[t]
        BY <1>7, <3>1, <3>3
      <4>2. QED
        BY <1>1, <1>9, <3>2, <3>3, <4>1
    <3>4. QED
      BY <3>3
  <2>2. ASSUME S # 0
        PROVE  /\ Hello(up'[S]) => down'[S] = <<>> /\ ~link.welcomed
               /\ cur' = S => link.welcomed \/ down'[S] # <<>>
               /\ ~link.welcomed /\ down'[S] # <<>> => down'[S][1].type = "welcome"
    <3>1. CASE S = s
      <4>1. down[S] = <<>> /\ ~Hello(up'[S]) /\ down'[S] # <<>>
        BY <1>1, <1>2, <1>7, <1>9, <2>2, <3>1 DEF FInv, Connections
      <4>2. down'[S][1].type = "welcome"
        BY <3>1, <4>1, <1>7
      <4>3. QED
        BY <4>1, <4>2
    <3>2. CASE S # s
      BY <1>1, <1>2, <1>7, <1>9, <2>2, <3>2 DEF FInv, Connections
    <3>3. QED
      BY <3>1, <3>2
  <2>3. QED
    BY <1>1, <1>9, <2>1, <2>2 DEF FInv, Connections
<1>11. Paid'
  <2>1. Late' \in SUBSET Late /\ s \notin Late'
    BY <1>1, <1>9 DEF Late
  <2>2. Cardinality(Late') \in Nat /\ Cardinality(Late') <= Cardinality(Late) /\ Cardinality(Late) \in Nat
    BY <1>2, <2>1, FewerLate
  <2>3. faults \in Nat
    BY Numbers DEF FInv, WireTypes
  <2>4. CASE S = s
    BY <1>1, <1>2, <2>2, <2>3, <2>4 DEF FInv, Paid
  <2>5. CASE S # s
    <3>1. s \in Late \ Late'
      BY <1>1, <2>1, <2>5 DEF Late
    <3>2. Cardinality(Late') + 1 <= Cardinality(Late)
      BY <1>2, <2>1, <3>1, FewerLate
    <3>3. QED
      BY <1>1, <1>2, <2>2, <2>3, <3>2 DEF FInv, Paid
  <2>6. QED
    BY <2>4, <2>5
<1>12. Documents'
  <2>1. \A t \in Sessions : floor'[t] \in 1..rules
    BY <1>1, <1>3 DEF FInv, Documents, BackendTypes
  <2>2. CASE S # s
    <3>1. S # 0 => floor'[S] = floor[S] /\ down'[S] = down[S]
      BY <1>1, <1>2, <1>7, <2>2 DEF FInv, BackendTypes
    <3>2. link.welcomed => S # 0
      BY DEF FInv, Connections
    <3>3. QED
      BY <1>1, <2>1, <3>1, <3>2 DEF FInv, Documents, FreshDoc, Vouched
  <2>3. CASE S = s
    <3>1. S # 0 /\ ~link.welcomed /\ down[S] = <<>>
      BY <1>1, <1>2, <2>3, Numbers DEF FInv, Connections
    <3>2. \A i \in 1..Len(down'[S]) : down'[S][i].type # "apply"
      BY <1>7, <2>3, <3>1
    <3>3. QED
      BY <1>1, <2>1, <3>1, <3>2 DEF FInv, Documents, FreshDoc
  <2>4. QED
    BY <2>2, <2>3
<1>13. Restores' /\ Requests' /\ NicStep
  BY <1>1 DEF FInv, Restores, Requests, NicStep
<1>14. QED
  BY <1>8, <1>10, <1>11, <1>12, <1>13 DEF FInv, Types

\* The Backend's socket of a session closes.
LEMMA CloseKeeps ==
    ASSUME FInv, NEW s \in Sessions, CloseSocket(s),
           \/ faults' = faults /\ link.session # s
           \/ faults < MaxFaults /\ faults' = faults + 1
    PROVE  FInv' /\ NicStep
<1> DEFINE S == link.session
<1>1. /\ rules' = rules /\ changed' = changed /\ link' = link /\ fw' = fw /\ queue' = queue /\ op' = op
      /\ stored' = stored /\ table' = table /\ nic' = nic /\ floor' = floor /\ damage' = damage
      /\ down' = down /\ open' = open \ {s}
      /\ up' = [up EXCEPT ![s] = <<>>]
      /\ cur' = IF cur = s THEN 0 ELSE cur
      /\ sync' = IF cur = s THEN NoSync ELSE sync
      /\ heard' = IF cur = s THEN Status(Boot) ELSE heard
  BY DEF CloseSocket, RegisteredWithout, agent, history
<1>2. faults \in Nat /\ faults' \in Nat /\ MaxFaults \in Nat /\ faults' \in 0..MaxFaults /\ s # 0
  BY Numbers DEF FInv, WireTypes
<1>3. Types
  BY DEF FInv, Types
<1>4. (S # 0 => S \in Sessions) /\ link.last \in Nat
  BY <1>3, EnoughSessions DEF FInv
<1>5. /\ up' \in [Sessions -> Seq(UpFrames)]
      /\ \A t \in Sessions : up'[t] = IF t = s THEN <<>> ELSE up[t]
  BY <1>1 DEF FInv, WireTypes
<1>6. Types'
  <2>1. heard' \in HostStatus
    BY <1>1, BootTyped DEF FInv, BackendTypes
  <2>2. cur' \in open' \cup {0} /\ (sync' = NoSync) = (cur' = 0)
    BY <1>1, <1>2 DEF FInv, BackendTypes
  <2>3. QED
    BY <1>1, <1>2, <1>5, <2>1, <2>2 DEF FInv, Types, BackendTypes, AgentTypes, WireTypes
<1>7. \A t \in Sessions :
        HelloFirst(up'[t]) /\ (Hello(up'[t]) => t # s /\ Hello(up[t])) /\ (t > link.last => up'[t] = <<>>)
  BY <1>5 DEF FInv, Connections, Hello, HelloFirst
<1>8. Connections'
  <2>1. \A t \in Sessions : t > link.last => up'[t] = <<>> /\ down'[t] = <<>> /\ t \notin open'
    BY <1>1, <1>7 DEF FInv, Connections
  <2>2. \A t \in Sessions : HelloFirst(up'[t]) /\ (Hello(up'[t]) => cur' # t)
    BY <1>1, <1>7, Numbers DEF FInv, Connections
  <2>3. S # 0 => (Hello(up'[S]) => Hello(up[S])) /\ (cur' = S => cur = S)
    BY <1>1, <1>4, <1>7
  <2>4. QED
    BY <1>1, <2>1, <2>2, <2>3 DEF FInv, Connections
<1>9. Paid'
  <2>1. Late' \in SUBSET Late
    BY <1>1, <1>7 DEF Late
  <2>2. Cardinality(Late') \in Nat /\ Cardinality(Late') <= Cardinality(Late) /\ Cardinality(Late) \in Nat
    BY <1>3, <2>1, FewerLate
  <2>4. link.last + Cardinality(Late) + (IF S \in open THEN 0 ELSE 1) <= 2 * faults + 1
    BY DEF FInv, Paid
  <2>5. CASE faults' = faults
    <3>1. link'.session \in open' <=> S \in open
      BY <1>1, <1>2, <2>5
    <3>2. QED
      BY <1>1, <1>2, <1>4, <2>2, <2>4, <2>5, <3>1 DEF Paid
  <2>6. CASE faults' = faults + 1
    BY <1>1, <1>2, <1>4, <2>2, <2>4, <2>6 DEF Paid
  <2>7. QED
    BY <2>5, <2>6
<1>10. Documents'
  <2>1. SameDocuments /\ SameSession
    BY <1>1 DEF SameDocuments, SameSession, FInv, AgentTypes
  <2>2. rules' \in Nat /\ rules <= rules'
    BY <1>1, Numbers DEF FInv, BackendTypes
  <2>3. QED
    BY <1>3, <2>1, <2>2, DocumentsKept DEF FInv
<1>11. Restores' /\ Requests' /\ NicStep
  BY <1>1 DEF FInv, Restores, Requests, NicStep
<1>12. QED
  BY <1>6, <1>8, <1>9, <1>10, <1>11 DEF FInv, Types

LEMMA SocketsKeep ==
    ASSUME FInv, NEW s \in Sessions, SocketGone(s) \/ SocketDropped(s)
    PROVE  FInv' /\ NicStep
  BY CloseKeeps DEF SocketGone, SocketDropped

\* The Backend restarts: no connection is left, and nothing to apply.
LEMMA BackendRestartKeeps ==
    ASSUME FInv, BackendRestart
    PROVE  FInv' /\ NicStep
<1> DEFINE S == link.session
<1>1. /\ rules' = rules /\ changed' = FALSE /\ link' = link /\ fw' = fw /\ queue' = queue /\ op' = op
      /\ stored' = stored /\ table' = table /\ nic' = nic /\ floor' = floor /\ damage' = damage
      /\ down' = down /\ open' = {} /\ cur' = 0 /\ sync' = NoSync /\ heard' = Status(Boot)
      /\ up' = [t \in Sessions |-> <<>>]
      /\ faults < MaxFaults /\ faults' = faults + 1
  BY DEF BackendRestart, agent, history
<1>2. faults \in Nat /\ faults' \in Nat /\ MaxFaults \in Nat /\ faults' \in 0..MaxFaults
  BY <1>1, Numbers DEF FInv, WireTypes
<1>3. Types
  BY DEF FInv, Types
<1>4. (S # 0 => S \in Sessions) /\ link.last \in Nat
  BY <1>3, EnoughSessions DEF FInv
<1>5. up' \in [Sessions -> Seq(UpFrames)] /\ \A t \in Sessions : up'[t] = <<>>
  BY <1>1
<1>6. Types'
  BY <1>1, <1>2, <1>5, BootTyped DEF FInv, Types, BackendTypes, AgentTypes, WireTypes
<1>7. \A t \in Sessions : HelloFirst(up'[t]) /\ ~Hello(up'[t])
  BY <1>5 DEF Hello, HelloFirst
<1>8. Connections'
  BY <1>1, <1>4, <1>5, <1>7 DEF FInv, Connections
<1>9. Paid'
  <2>1. Late' \in SUBSET Late
    BY <1>1 DEF Late
  <2>2. Cardinality(Late') \in Nat /\ Cardinality(Late') <= Cardinality(Late) /\ Cardinality(Late) \in Nat
    BY <1>3, <2>1, FewerLate
  <2>3. QED
    BY <1>1, <1>2, <1>4, <2>2 DEF FInv, Paid
<1>10. Documents'
  <2>1. SameDocuments /\ SameSession
    BY <1>1 DEF SameDocuments, SameSession, FInv, AgentTypes
  <2>2. rules' \in Nat /\ rules <= rules'
    BY <1>1, Numbers DEF FInv, BackendTypes
  <2>3. QED
    BY <1>3, <2>1, <2>2, DocumentsKept DEF FInv
<1>11. Restores' /\ Requests' /\ NicStep
  BY <1>1 DEF FInv, Restores, Requests, NicStep
<1>12. QED
  BY <1>6, <1>8, <1>9, <1>10, <1>11 DEF FInv, Types

-----------------------------------------------------------------------------
(***************************************************************************)
(* The agent's side of the connection                                        *)
(***************************************************************************)

LEMMA ResetTyped ==
    ASSUME NEW f \in Firewalls
    PROVE  /\ Reset(f) \in Firewalls /\ Reset(f).confirmed = FALSE /\ Reset(f).doc = f.doc
           /\ Status(Reset(f)) \in HostStatus
<1>1. [f EXCEPT !.confirmed = FALSE] \in Firewalls
  BY DEF Firewalls
<1>2. Status([f EXCEPT !.confirmed = FALSE]) \in HostStatus
  BY <1>1, StatusTyped
<1>3. Reset(f) \in Firewalls
  BY <1>2 DEF Reset, Firewalls
<1>4. QED
  BY <1>3, StatusTyped DEF Reset, Firewalls

\* With no connection that lasts, no task is fresh.
LEMMA NothingFresh ==
    ASSUME FInv, ~link.welcomed
    PROVE  ~op.task.fresh /\ ~fw.confirmed /\ \A i \in 1..Len(queue) : ~queue[i].fresh
  BY DEF FInv, Documents, FreshDoc

LEMMA DialKeeps ==
    ASSUME FInv, Dial
    PROVE  FInv' /\ NicStep
<1> DEFINE n == link.last + 1
           f == Reset(fw)
           hello == [type |-> "hello", status |-> Status(f)]
<1>1. /\ link.session = 0 /\ ~Restoring
      /\ rules' = rules /\ changed' = changed /\ cur' = cur /\ heard' = heard /\ sync' = sync
      /\ down' = down /\ queue' = queue /\ op' = op /\ stored' = stored /\ table' = table /\ nic' = nic
      /\ floor' = floor /\ damage' = damage /\ faults' = faults
      /\ fw' = f /\ open' = open \cup {n}
      /\ link' = [last |-> n, session |-> n, welcomed |-> FALSE, sent |-> Status(f), due |-> FALSE]
      /\ up' = [up EXCEPT ![n] = Append(up[n], hello)]
  BY DEF Dial, Send
<1>2. Types /\ n \in Sessions /\ link.last \in Nat /\ n \in Nat \ {0} /\ n > link.last
  <2>1. Types
    BY DEF FInv, Types
  <2>2. QED
    BY <1>1, <2>1, EnoughSessions DEF FInv
<1>3. f \in Firewalls /\ f.confirmed = FALSE /\ Status(f) \in HostStatus
  BY ResetTyped DEF FInv, AgentTypes
<1>4. up[n] = <<>> /\ down[n] = <<>> /\ n \notin open /\ cur # n
  BY <1>2 DEF FInv, Connections, BackendTypes
<1>5. hello \in UpFrames /\ up \in [Sessions -> Seq(UpFrames)] /\ up[n] \in Seq(UpFrames)
  BY <1>2, <1>3 DEF UpFrames, FInv, WireTypes
<1>6. /\ up'[n] = Append(up[n], hello) /\ \A t \in Sessions : t # n => up'[t] = up[t]
      /\ up' \in [Sessions -> Seq(UpFrames)]
  BY <1>1, <1>2, <1>5, Longer
<1>7. HelloFirst(up'[n])
  <2>1. Len(up'[n]) = 1
    BY <1>4, <1>5, <1>6, Longer
  <2>2. QED
    BY <2>1 DEF HelloFirst
<1>8. Types'
  <2>1. link' \in Links /\ link'.session \in {0, link'.last}
    BY <1>1, <1>2, <1>3 DEF Links
  <2>2. QED
    BY <1>1, <1>2, <1>3, <1>6, <2>1 DEF FInv, Types, BackendTypes, AgentTypes, WireTypes
<1>9. Connections'
  <2>1. ASSUME NEW t \in Sessions, t > n PROVE up'[t] = <<>> /\ down'[t] = <<>> /\ t \notin open'
    <3>1. t > link.last /\ t # n
      BY <1>2, <2>1, Numbers
    <3>2. QED
      BY <1>1, <1>6, <3>1 DEF FInv, Connections
  <2>2. \A t \in Sessions : HelloFirst(up'[t]) /\ (Hello(up'[t]) => cur' # t)
    BY <1>1, <1>4, <1>6, <1>7 DEF FInv, Connections
  <2>3. QED
    BY <1>1, <1>4, <2>1, <2>2 DEF Connections
<1>10. Paid'
  <2>1. Late' \in SUBSET Late
    BY <1>1, <1>2, <1>6, Numbers DEF Late
  <2>2. Cardinality(Late') \in Nat /\ Cardinality(Late') <= Cardinality(Late) /\ Cardinality(Late) \in Nat
    BY <1>2, <2>1, FewerLate
  <2>3. link'.last = n /\ link'.session \in open' /\ link.session \notin open
    BY <1>1, Numbers DEF FInv, BackendTypes
  <2>4. faults \in Nat /\ faults' = faults
    BY <1>1, Numbers DEF FInv, WireTypes
  <2>5. QED
    BY <1>2, <2>2, <2>3, <2>4 DEF FInv, Paid
<1>11. Documents'
  <2>1. ~op.task.fresh /\ \A i \in 1..Len(queue) : ~queue[i].fresh
    BY <1>1, NothingFresh DEF FInv, Connections
  <2>2. Len(down'[link'.session]) = 0
    BY <1>1, <1>4
  <2>3. QED
    BY <1>1, <1>3, <2>1, <2>2 DEF FInv, Documents
<1>12. Restores'
  <2>1. op.task.kind # "restore" /\ \A i \in 1..Len(queue) : queue[i].kind # "restore"
    BY <1>1, Elements DEF Restoring, FInv, AgentTypes
  <2>2. QED
    BY <1>1, <2>1 DEF FInv, Restores
<1>13. Requests' /\ NicStep
  BY <1>1 DEF FInv, Requests, NicStep
<1>14. QED
  BY <1>8, <1>9, <1>10, <1>11, <1>12, <1>13 DEF FInv, Types

\* The agent takes a frame of its connection.
LEMMA ArrivesTyped ==
    ASSUME FInv, NEW type, Arrives(type)
    PROVE  LET S == link.session
               w == down[S]
           IN  /\ S # 0 /\ S \in Sessions /\ S \in open \cup Sessions
               /\ w \in Seq(DownFrames) /\ w # <<>> /\ w[1].type = type /\ Head(w) = w[1] /\ Head(w) \in DownFrames
               /\ ~Hello(up[S])
               /\ type # "welcome" => link.welcomed
               /\ down' \in [Sessions -> Seq(DownFrames)]
               /\ down'[S] = Tail(w)
               /\ \A s \in Sessions : s # S => down'[s] = down[s]
               /\ \A i \in 1..Len(down'[S]) : i + 1 \in 1..Len(w) /\ down'[S][i] = w[i + 1]
<1> DEFINE S == link.session
           w == down[S]
<1>1. S # 0 /\ w # <<>> /\ Head(w).type = type /\ down' = [down EXCEPT ![S] = Tail(w)]
  BY DEF Arrives
<1>2. S \in Sessions /\ down \in [Sessions -> Seq(DownFrames)]
  BY <1>1, EnoughSessions DEF FInv, Types, WireTypes
<1>3. w \in Seq(DownFrames)
  BY <1>2
<1>4. Head(w) = w[1] /\ Tail(w) \in Seq(DownFrames) /\ Head(w) \in DownFrames
  BY <1>1, <1>3, Shorter
<1>5. /\ down' \in [Sessions -> Seq(DownFrames)] /\ down'[S] = Tail(w)
      /\ \A s \in Sessions : s # S => down'[s] = down[s]
  BY <1>1, <1>2, <1>4
<1>6. ~Hello(up[S]) /\ (type # "welcome" => link.welcomed)
  BY <1>1, <1>4 DEF FInv, Connections
<1>7. \A i \in 1..Len(Tail(w)) : i + 1 \in 1..Len(w) /\ Tail(w)[i] = w[i + 1]
  BY <1>1, <1>3, Shorter
<1>8. QED
  BY <1>1, <1>2, <1>3, <1>4, <1>5, <1>6, <1>7

LEMMA WelcomeKeeps ==
    ASSUME FInv, Welcome
    PROVE  FInv' /\ NicStep
<1> DEFINE S == link.session
<1>1. /\ Arrives("welcome") /\ link' = [link EXCEPT !.welcomed = TRUE, !.due = TRUE]
      /\ rules' = rules /\ changed' = changed /\ cur' = cur /\ open' = open /\ heard' = heard /\ sync' = sync
      /\ up' = up /\ fw' = fw /\ queue' = queue /\ op' = op /\ stored' = stored /\ table' = table /\ nic' = nic
      /\ floor' = floor /\ damage' = damage /\ faults' = faults
  BY DEF Welcome, backend, history
<1>2. /\ S # 0 /\ S \in Sessions /\ ~Hello(up[S])
      /\ down' \in [Sessions -> Seq(DownFrames)]
      /\ \A s \in Sessions : s # S => down'[s] = down[s]
      /\ \A i \in 1..Len(down'[S]) : i + 1 \in 1..Len(down[S]) /\ down'[S][i] = down[S][i + 1]
  BY <1>1, ArrivesTyped
<1>3. /\ link \in Links /\ link' \in Links /\ link'.last = link.last /\ link'.session = S
      /\ link'.welcomed = TRUE
  BY <1>1 DEF Links, FInv, AgentTypes
<1>4. Types'
  BY <1>1, <1>2, <1>3 DEF FInv, Types, BackendTypes, AgentTypes, WireTypes
<1>5. Connections'
  <2>1. S \in {0, link.last} /\ link.last \in Nat
    BY <1>3 DEF FInv, AgentTypes, Links
  <2>2. ASSUME NEW s \in Sessions, s > link.last PROVE s # S
    BY <1>2, <2>1, <2>2, Numbers
  <2>3. QED
    BY <1>1, <1>2, <1>3, <2>2 DEF FInv, Connections
<1>6. Paid'
  BY <1>1, <1>3 DEF FInv, Paid, Late
<1>7. Documents'
  <2>1. \A s, d : Vouched(s, d)' <=> Vouched(s, d)
    BY <1>1 DEF Vouched
  <2>2. \A t : FreshDoc(t) => FreshDoc(t)'
    BY <1>3, <2>1 DEF FreshDoc
  <2>3. \A i \in 1..Len(down'[S]) : down'[S][i].type = "apply" => Vouched(S, down'[S][i].doc)
    BY <1>2 DEF FInv, Documents
  <2>4. QED
    BY <1>1, <1>3, <2>1, <2>2, <2>3 DEF FInv, Documents, FreshDoc, Vouched
<1>8. Restores' /\ Requests' /\ NicStep
  BY <1>1, <1>3 DEF FInv, Restores, Requests, NicStep
<1>9. QED
  BY <1>4, <1>5, <1>6, <1>7, <1>8 DEF FInv, Types

\* The document that arrives is fresh, and goes behind the stale ones.
LEMMA RecvApplyKeeps ==
    ASSUME FInv, RecvApply
    PROVE  FInv' /\ NicStep
<1> DEFINE S == link.session
           frame == Head(down[S])
           task == [Task("apply") EXCEPT !.doc = frame.doc, !.req = frame.req,
                                         !.session = S, !.fresh = TRUE]
<1>1. /\ Arrives("apply") /\ queue' = Append(queue, task)
      /\ rules' = rules /\ changed' = changed /\ cur' = cur /\ open' = open /\ heard' = heard /\ sync' = sync
      /\ up' = up /\ fw' = fw /\ link' = link /\ op' = op /\ stored' = stored /\ table' = table /\ nic' = nic
      /\ floor' = floor /\ damage' = damage /\ faults' = faults
  BY DEF RecvApply, backend, history
<1>2. /\ S # 0 /\ S \in Sessions /\ ~Hello(up[S]) /\ link.welcomed
      /\ down[S] \in Seq(DownFrames) /\ down[S] # <<>> /\ frame = down[S][1] /\ frame.type = "apply"
      /\ frame \in DownFrames
      /\ down' \in [Sessions -> Seq(DownFrames)]
      /\ \A s \in Sessions : s # S => down'[s] = down[s]
      /\ \A i \in 1..Len(down'[S]) : i + 1 \in 1..Len(down[S]) /\ down'[S][i] = down[S][i + 1]
  BY <1>1, ArrivesTyped
<1>3. frame.doc \in Docs /\ frame.req \in Nat /\ Vouched(S, frame.doc)
  <2>1. frame.doc \in Docs /\ frame.req \in Nat
    BY <1>2 DEF DownFrames
  <2>2. 1 \in 1..Len(down[S])
    BY <1>2, Elements
  <2>3. QED
    BY <1>2, <2>1, <2>2 DEF FInv, Documents
<1>4. S \in Nat
  BY <1>2, Numbers
<1>5. /\ task \in Tasks /\ task.kind = "apply" /\ task.fresh = TRUE /\ task.nic = FALSE
      /\ task.doc = frame.doc
  BY <1>3, <1>4 DEF Task, Tasks, Known
<1>6. /\ queue \in Seq(Tasks) /\ queue' \in Seq(Tasks) /\ Len(queue) \in Nat /\ Len(queue') = Len(queue) + 1
      /\ \A i \in 1..Len(queue) : queue'[i] = queue[i]
      /\ queue'[Len(queue) + 1] = task
  BY <1>1, <1>5, Longer DEF FInv, AgentTypes
<1>7. \A i \in 1..Len(queue') : i \in 1..Len(queue) \/ i = Len(queue) + 1
  BY <1>6
<1>8. Types'
  BY <1>1, <1>2, <1>6 DEF FInv, Types, BackendTypes, AgentTypes, WireTypes
<1>9. Connections' /\ Paid'
  <2>1. S \in {0, link.last} /\ link.last \in Nat
    BY DEF FInv, AgentTypes, Links
  <2>2. ASSUME NEW s \in Sessions, s > link.last PROVE s # S
    BY <1>2, <2>1, <2>2, Numbers
  <2>3. Connections'
    BY <1>1, <1>2, <2>2 DEF FInv, Connections
  <2>4. QED
    BY <1>1, <2>3 DEF FInv, Paid, Late
<1>10. Documents'
  <2>1. \A s, d : Vouched(s, d)' <=> Vouched(s, d)
    BY <1>1 DEF Vouched
  <2>2. \A t : FreshDoc(t)' <=> FreshDoc(t)
    BY <1>1, <2>1 DEF FreshDoc
  <2>3. \A i \in 1..Len(down'[S]) : down'[S][i].type = "apply" => Vouched(S, down'[S][i].doc)
    BY <1>2 DEF FInv, Documents
  <2>4. FreshDoc(task)
    BY <1>2, <1>3, <1>5 DEF FreshDoc
  <2>5. ASSUME NEW i \in 1..Len(queue'), queue'[i].fresh PROVE FreshDoc(queue'[i])
    BY <1>6, <1>7, <2>4, <2>5 DEF FInv, Documents
  <2>6. ASSUME NEW i \in 1..Len(queue'), NEW j \in 1..Len(queue'), i < j, queue'[i].fresh,
               queue'[j].kind = "apply"
        PROVE  queue'[j].fresh
    <3>1. CASE j = Len(queue) + 1
      BY <1>5, <1>6, <3>1
    <3>2. CASE j \in 1..Len(queue)
      <4>1. i \in 1..Len(queue)
        BY <1>6, <2>6, <3>2
      <4>2. QED
        BY <1>6, <2>6, <3>2, <4>1 DEF FInv, Documents
    <3>3. QED
      BY <1>7, <3>1, <3>2
  <2>7. ASSUME op.task.fresh \/ fw.confirmed, NEW i \in 1..Len(queue'), queue'[i].kind = "apply"
        PROVE  queue'[i].fresh
    BY <1>5, <1>6, <1>7, <2>7 DEF FInv, Documents
  <2>8. QED
    <3>1. \A i \in 1..Len(queue') : queue'[i].fresh => FreshDoc(queue[i])'
      BY <1>1, <2>5 DEF FreshDoc, Vouched
    <3>2. \A i \in 1..Len(down'[link'.session]) :
             down'[link'.session][i].type = "apply"
               => Vouched(link.session, down[link.session][i].doc)'
      BY <1>1, <2>3 DEF Vouched
    <3>3. QED
      BY <1>1, <2>1, <2>2, <2>6, <2>7, <3>1, <3>2 DEF FInv, Documents
<1>11. Restores'
  BY <1>1, <1>5, <1>6, <1>7 DEF FInv, Restores
<1>12. Requests' /\ NicStep
  <2>1. \A i \in 1..Len(queue') : queue'[i].nic \/ queue'[i].kind = "check" =>
           i \in 1..Len(queue) /\ queue'[i] = queue[i]
    BY <1>5, <1>6, <1>7
  <2>2. QED
    BY <1>1, <2>1 DEF FInv, Requests, NicStep
<1>13. QED
  BY <1>8, <1>9, <1>10, <1>11, <1>12 DEF FInv, Types

\* A frame that is no hello goes on the wire of the agent's connection.
LEMMA PutOn ==
    ASSUME Types, Connections, Paid, NEW f \in UpFrames, f.type # "hello",
           up' = Send(up, link.session, f)
    PROVE  NoHello /\ up' \in [Sessions -> Seq(UpFrames)]
<1> DEFINE S == link.session
<1>1. up \in [Sessions -> Seq(UpFrames)] /\ up' = [up EXCEPT ![S] = Append(up[S], f)]
  BY DEF Types, WireTypes, Send
<1>2. /\ link.last \in Nat /\ S \in {0, link.last} /\ (S # 0 => S \in Sessions)
      /\ 0 \notin Sessions
  BY EnoughSessions, Numbers DEF Types, AgentTypes
<1>3. CASE S = 0
  <2>1. up' = up
    BY <1>1, <1>2, <1>3
  <2>2. QED
    BY <1>1, <2>1 DEF NoHello, Connections
<1>4. CASE S # 0
  <2>1. up[S] \in Seq(UpFrames) /\ HelloFirst(up[S])
    BY <1>1, <1>2, <1>4 DEF Connections
  <2>2. /\ Append(up[S], f) \in Seq(UpFrames) /\ Len(up[S]) \in Nat
        /\ Len(Append(up[S], f)) = Len(up[S]) + 1
        /\ \A i \in 1..Len(up[S]) : Append(up[S], f)[i] = up[S][i]
        /\ Append(up[S], f)[Len(up[S]) + 1] = f
    BY <2>1, Longer
  <2>3. /\ up' \in [Sessions -> Seq(UpFrames)] /\ up'[S] = Append(up[S], f)
        /\ \A s \in Sessions : s # S => up'[s] = up[s]
    BY <1>1, <1>2, <1>4, <2>2
  <2>4. HelloFirst(Append(up[S], f))
    <3>1. ASSUME NEW i \in 1..Len(Append(up[S], f)), Append(up[S], f)[i].type = "hello" PROVE i = 1
      <4>1. i \in 1..Len(up[S]) \/ i = Len(up[S]) + 1
        BY <2>2
      <4>2. QED
        BY <2>1, <2>2, <3>1, <4>1 DEF HelloFirst
    <3>2. QED
      BY <3>1 DEF HelloFirst
  <2>5. Hello(Append(up[S], f)) => Hello(up[S])
    <3>1. CASE up[S] = <<>>
      <4>1. Len(up[S]) + 1 = 1
        BY <3>1
      <4>2. Append(up[S], f)[1] = f
        BY <2>2, <4>1
      <4>3. QED
        BY <4>2 DEF Hello
    <3>2. CASE up[S] # <<>>
      BY <2>1, <2>2, <3>2, Elements DEF Hello
    <3>3. QED
      BY <3>1, <3>2
  <2>6. ASSUME NEW s \in Sessions, s > link.last PROVE s # S
    BY <1>2, <1>4, <2>6
  <2>7. ASSUME NEW s \in Sessions
        PROVE  /\ HelloFirst(up'[s]) /\ (Hello(up'[s]) => Hello(up[s]))
               /\ s > link.last => up'[s] = <<>>
    <3>1. CASE s = S
      BY <2>3, <2>4, <2>5, <2>6, <3>1
    <3>2. CASE s # S
      BY <2>3, <3>2 DEF Connections
    <3>3. QED
      BY <3>1, <3>2
  <2>8. QED
    BY <2>3, <2>7 DEF NoHello
<1>5. QED
  BY <1>3, <1>4

LEMMA SameWire ==
    ASSUME Connections, up' = up
    PROVE  NoHello
  BY DEF NoHello, Connections

LEMMA SendStatusKeeps ==
    ASSUME FInv, SendStatus
    PROVE  FInv' /\ NicStep
<1>1. /\ rules' = rules /\ changed' = changed /\ cur' = cur /\ open' = open /\ heard' = heard /\ sync' = sync
      /\ down' = down /\ fw' = fw /\ queue' = queue /\ op' = op /\ stored' = stored /\ table' = table
      /\ nic' = nic /\ floor' = floor /\ damage' = damage /\ faults' = faults
      /\ link' = [link EXCEPT !.due = FALSE, !.sent = Status(fw)]
      /\ \/ up' = up
         \/ up' = Send(up, link.session, [type |-> "status", status |-> Status(fw)])
  BY DEF SendStatus, backend, history
<1>2. Types
  BY DEF FInv, Types
<1>3. Status(fw) \in HostStatus /\ link \in Links
  BY <1>2, StatusTyped DEF Types, AgentTypes
<1>4. NoHello /\ up' \in [Sessions -> Seq(UpFrames)]
  <2>1. /\ [type |-> "status", status |-> Status(fw)] \in UpFrames
        /\ [type |-> "status", status |-> Status(fw)].type # "hello"
    BY <1>3 DEF UpFrames
  <2>2. CASE up' = up
    BY <1>2, <2>2, SameWire DEF FInv, WireTypes
  <2>3. CASE up' = Send(up, link.session, [type |-> "status", status |-> Status(fw)])
    BY <1>2, <2>1, <2>3, PutOn DEF FInv
  <2>4. QED
    BY <1>1, <2>2, <2>3
<1>5. SameSession /\ link'.session = link.session
  BY <1>1, <1>3 DEF SameSession, Links
<1>6. Types'
  BY <1>1, <1>4, <1>5 DEF Types, BackendTypes, AgentTypes, WireTypes, SameSession, FInv
<1>7. Connections' /\ Paid'
  BY <1>1, <1>2, <1>4, <1>5, ConnectionsKept DEF FInv
<1>8. Documents'
  <2>1. rules' \in Nat /\ rules <= rules' /\ SameDocuments
    BY <1>1, Numbers DEF FInv, BackendTypes, SameDocuments
  <2>2. QED
    BY <1>2, <1>5, <2>1, DocumentsKept DEF FInv
<1>9. Restores' /\ Requests' /\ NicStep
  BY <1>1, <1>5 DEF FInv, Restores, Requests, NicStep
<1>10. QED
  BY <1>6, <1>7, <1>8, <1>9 DEF FInv, Types

\* The agent's connection ends.
LEMMA ConnectionEnds ==
    ASSUME FInv, link' = Down(link.last), up' = up, open' = open, cur' = cur,
           \A s \in Sessions : down'[s] \in {down[s], <<>>},
           faults' = faults + 1 \/ (faults' = faults /\ link.session \notin open)
    PROVE  link' \in Links /\ link'.session = 0 /\ ~link'.welcomed /\ Connections' /\ Paid'
<1> DEFINE S == link.session
<1>1. Types /\ link.last \in Nat /\ faults \in Nat
  BY Numbers DEF FInv, Types, AgentTypes, Links, WireTypes
<1>2. /\ link' \in Links /\ link'.session = 0 /\ ~link'.welcomed /\ ~link'.due
      /\ link'.last = link.last
  BY <1>1, BootTyped DEF Down, Links
<1>3. Connections'
  BY <1>2 DEF FInv, Connections
<1>4. Late' \subseteq Late \cup {S} /\ (S \notin open => Late' \subseteq Late)
  BY DEF Late
<1>5. IsFiniteSet(Late) /\ Cardinality(Late) \in Nat
  BY <1>1, FewerLate
<1>6. /\ IsFiniteSet(Late \cup {S}) /\ Cardinality(Late \cup {S}) <= Cardinality(Late) + 1
      /\ Cardinality(Late \cup {S}) \in Nat
  <2>1. /\ IsFiniteSet(Late \cup {S})
        /\ Cardinality(Late \cup {S}) = IF S \in Late THEN Cardinality(Late) ELSE Cardinality(Late) + 1
    BY <1>5, FS_AddElement
  <2>2. QED
    BY <1>5, <2>1
<1>7. /\ Cardinality(Late') \in Nat /\ Cardinality(Late') <= Cardinality(Late) + 1
      /\ S \notin open => Cardinality(Late') <= Cardinality(Late)
  <2>1. IsFiniteSet(Late') /\ Cardinality(Late') <= Cardinality(Late \cup {S})
    BY <1>4, <1>6, FS_Subset
  <2>2. Cardinality(Late') \in Nat
    BY <2>1, FS_CardinalityType
  <2>3. S \notin open => Cardinality(Late') <= Cardinality(Late)
    BY <1>4, <1>5, FS_Subset
  <2>4. QED
    BY <1>5, <1>6, <2>1, <2>2, <2>3
<1>8. Paid'
  <2>1. link.last + Cardinality(Late) + (IF S \in open THEN 0 ELSE 1) <= 2 * faults + 1
    BY DEF FInv, Paid
  <2>2. link.last + Cardinality(Late') + 1 <= 2 * faults' + 1
    <3>1. CASE S \in open
      BY <1>1, <1>5, <1>7, <2>1, <3>1
    <3>2. CASE S \notin open
      BY <1>1, <1>5, <1>7, <2>1, <3>2
    <3>3. QED
      BY <3>1, <3>2
  <2>3. link'.session \notin open'
    BY <1>2, Numbers DEF FInv, BackendTypes
  <2>4. QED
    BY <1>2, <2>2, <2>3 DEF Paid
<1>9. QED
  BY <1>2, <1>3, <1>8

\* A task that is not fresh and answers nobody.
LEMMA StaleTyped ==
    ASSUME NEW t \in Tasks
    PROVE  /\ Stale(t) \in Tasks /\ Stale(t).kind = t.kind
           /\ Stale(t).fresh = FALSE /\ Stale(t).nic = FALSE
  BY DEF Stale, Tasks

\* The control socket closes: what is confirmed, and every request, ends with it.
LEMMA EndSessionKeeps ==
    ASSUME FInv, EndSession, faults' \in 0..MaxFaults,
           faults' = faults + 1 \/ (faults' = faults /\ link.session \notin open)
    PROVE  FInv' /\ NicStep
<1>1. /\ rules' = rules /\ changed' = changed /\ cur' = cur /\ open' = open /\ heard' = heard /\ sync' = sync
      /\ up' = up /\ stored' = stored /\ table' = table /\ floor' = floor /\ damage' = FALSE
      /\ link.session # 0 /\ link' = Down(link.last) /\ fw' = Reset(fw) /\ queue' = StaleQueue /\ op' = StaleOp
      /\ nic' = IF nic = "waiting" THEN "idle" ELSE nic
      /\ down' = [down EXCEPT ![link.session] = <<>>]
  BY DEF EndSession, backend
<1>2. down' \in [Sessions -> Seq(DownFrames)] /\ \A s \in Sessions : down'[s] \in {down[s], <<>>}
  <2>1. down \in [Sessions -> Seq(DownFrames)] /\ <<>> \in Seq(DownFrames)
    BY DEF FInv, WireTypes
  <2>2. \A s \in Sessions : down'[s] = IF s = link.session THEN <<>> ELSE down[s]
    BY <1>1, <2>1
  <2>3. QED
    BY <1>1, <2>1, <2>2
<1>3. link' \in Links /\ link'.session = 0 /\ ~link'.welcomed /\ Connections' /\ Paid'
  BY <1>1, <1>2, ConnectionEnds
<1>4. fw' \in Firewalls /\ ~fw'.confirmed
  BY <1>1, ResetTyped DEF FInv, AgentTypes
<1>5. op' \in Ops /\ op'.task.kind = op.task.kind /\ ~op'.task.fresh /\ ~op'.task.nic /\ op'.step = op.step
  <2>1. op.task \in Tasks /\ op \in Ops
    BY DEF FInv, AgentTypes, Ops
  <2>2. Stale(op.task) \in Tasks
    BY <2>1, StaleTyped
  <2>3. op' = [op EXCEPT !.task = Stale(op.task)]
    BY <1>1 DEF StaleOp
  <2>4. op' \in Ops /\ op'.task = Stale(op.task) /\ op'.step = op.step
    BY <2>1, <2>2, <2>3 DEF Ops
  <2>5. QED
    BY <2>1, <2>4, StaleTyped
<1>6. /\ queue' \in Seq(Tasks) /\ Len(queue') = Len(queue)
      /\ \A i \in 1..Len(queue') : /\ queue'[i].kind = queue[i].kind
                                   /\ ~queue'[i].fresh /\ ~queue'[i].nic
  <2>1. queue \in Seq(Tasks)
    BY DEF FInv, AgentTypes
  <2>2. Len(queue) \in Nat /\ DOMAIN queue = 1..Len(queue) /\ \A i \in 1..Len(queue) : queue[i] \in Tasks
    BY <2>1, Elements
  <2>3. queue' = [i \in 1..Len(queue) |-> Stale(queue[i])]
    BY <1>1, <2>2 DEF StaleQueue
  <2>4. \A i \in 1..Len(queue) : Stale(queue[i]) \in Tasks
    BY <2>2, StaleTyped
  <2>5. queue' \in Seq(Tasks) /\ Len(queue') = Len(queue)
    BY <2>2, <2>3, <2>4, IsASeq, LenProperties
  <2>6. QED
    BY <2>2, <2>3, <2>5, StaleTyped
<1>7. Types'
  BY <1>1, <1>2, <1>3, <1>4, <1>5, <1>6 DEF FInv, Types, BackendTypes, AgentTypes, WireTypes
<1>8. Documents'
  BY <1>1, <1>3, <1>4, <1>5, <1>6 DEF FInv, Documents
<1>9. Restores'
  BY <1>3, <1>5, <1>6 DEF FInv, Restores
<1>10. Requests' /\ NicStep
  BY <1>1, <1>5, <1>6 DEF FInv, Requests, NicStep
<1>11. QED
  BY <1>3, <1>7, <1>8, <1>9, <1>10 DEF FInv, Types

LEMMA LinkEndsKeep ==
    ASSUME FInv, LinkClosed \/ LinkDropped
    PROVE  FInv' /\ NicStep
<1>1. faults \in Nat /\ MaxFaults \in Nat /\ faults \in 0..MaxFaults
  BY Numbers DEF FInv, WireTypes
<1>2. CASE LinkClosed
  BY <1>1, <1>2, EndSessionKeeps DEF LinkClosed
<1>3. CASE LinkDropped
  <2>1. faults' = faults + 1 /\ faults' \in 0..MaxFaults
    BY <1>1, <1>3 DEF LinkDropped
  <2>2. QED
    BY <1>3, <2>1, EndSessionKeeps DEF LinkDropped
<1>4. QED
  BY <1>2, <1>3

LEMMA TaskTyped ==
    ASSUME NEW k \in {"none", "apply", "check", "restore"}
    PROVE  /\ Task(k) \in Tasks /\ Task(k).kind = k /\ Task(k).fresh = FALSE /\ Task(k).nic = FALSE
           /\ Task(k).doc = None
  BY DEF Task, Tasks, Known

LEMMA IdleTyped ==
    /\ Idle \in Ops /\ Idle.step = "idle" /\ Idle.task.kind = "none"
    /\ Idle.task.fresh = FALSE /\ Idle.task.nic = FALSE
  BY TaskTyped DEF Idle, Ops

\* A queue of one.
LEMMA OneTask ==
    ASSUME NEW t \in Tasks
    PROVE  <<t>> \in Seq(Tasks) /\ Len(<<t>>) = 1 /\ <<t>>[1] = t
  OBVIOUS

LEMMA AgentRestartKeeps ==
    ASSUME FInv, AgentRestart
    PROVE  FInv' /\ NicStep
<1>1. /\ rules' = rules /\ changed' = changed /\ cur' = cur /\ open' = open /\ heard' = heard /\ sync' = sync
      /\ up' = up /\ stored' = stored /\ table' = table /\ floor' = floor /\ damage' = FALSE
      /\ link' = Down(link.last) /\ fw' = Boot /\ queue' = <<Task("restore")>> /\ op' = Idle
      /\ nic' = IF nic = "waiting" THEN "idle" ELSE nic
      /\ down' = [s \in Sessions |-> <<>>] /\ faults < MaxFaults /\ faults' = faults + 1
  BY DEF AgentRestart, backend
<1>2. down' \in [Sessions -> Seq(DownFrames)] /\ \A s \in Sessions : down'[s] \in {down[s], <<>>}
  BY <1>1
<1>3. link' \in Links /\ link'.session = 0 /\ ~link'.welcomed /\ Connections' /\ Paid'
  BY <1>1, <1>2, ConnectionEnds
<1>4. fw' \in Firewalls /\ ~fw'.confirmed
  BY <1>1, BootTyped DEF Boot
<1>5. /\ queue' \in Seq(Tasks) /\ Len(queue') = 1 /\ queue'[1].kind = "restore"
      /\ ~queue'[1].fresh /\ ~queue'[1].nic
  BY <1>1, TaskTyped, OneTask
<1>6. faults' \in 0..MaxFaults
  BY <1>1, Numbers DEF FInv, WireTypes
<1>7. Types'
  BY <1>1, <1>2, <1>3, <1>4, <1>5, <1>6, IdleTyped DEF FInv, Types, BackendTypes, AgentTypes, WireTypes
<1>8. Documents'
  BY <1>1, <1>3, <1>4, <1>5, IdleTyped DEF FInv, Documents
<1>9. Restores'
  BY <1>1, <1>3, <1>5, IdleTyped DEF Restores
<1>10. Requests' /\ NicStep
  BY <1>1, <1>5, IdleTyped DEF FInv, Requests, NicStep
<1>11. QED
  BY <1>3, <1>7, <1>8, <1>9, <1>10 DEF FInv, Types

-----------------------------------------------------------------------------
(***************************************************************************)
(* The operations of the firewall                                            *)
(***************************************************************************)

\* A check is queued.
LEMMA AskCheckKeeps ==
    ASSUME FInv, AskCheck
    PROVE  FInv' /\ NicStep
<1>1. /\ rules' = rules /\ changed' = changed /\ cur' = cur /\ open' = open /\ heard' = heard /\ sync' = sync
      /\ up' = up /\ down' = down /\ link' = link /\ fw' = fw /\ op' = op /\ stored' = stored /\ table' = table
      /\ nic' = nic /\ floor' = floor /\ damage' = damage /\ faults' = faults
      /\ ~PendingCheck /\ queue' = Append(queue, Task("check"))
  BY DEF AskCheck, backend, wires, history
<1>2. /\ queue \in Seq(Tasks) /\ queue' \in Seq(Tasks) /\ Len(queue) \in Nat /\ Len(queue') = Len(queue) + 1
      /\ \A i \in 1..Len(queue) : queue'[i] = queue[i]
      /\ queue'[Len(queue) + 1] = Task("check")
  BY <1>1, TaskTyped, Longer DEF FInv, AgentTypes
<1>3. \A i \in 1..Len(queue') : i \in 1..Len(queue) \/ i = Len(queue) + 1
  BY <1>2
<1>4. \A i \in 1..Len(queue) : queue[i].kind # "check"
  BY <1>1, <1>2, Elements DEF PendingCheck
<1>5. Types'
  BY <1>1, <1>2 DEF FInv, Types, BackendTypes, AgentTypes, WireTypes
<1>6. Connections' /\ Paid'
  BY <1>1 DEF FInv, Connections, Paid, Late, Hello, HelloFirst
<1>7. Documents'
  <2>1. \A i \in 1..Len(queue') :
           queue'[i].fresh \/ queue'[i].kind = "apply" => i \in 1..Len(queue) /\ queue'[i] = queue[i]
    BY <1>2, <1>3, TaskTyped
  <2>2. QED
    BY <1>1, <2>1 DEF FInv, Documents, FreshDoc, Vouched
<1>8. Restores'
  BY <1>1, <1>2, <1>3, TaskTyped DEF FInv, Restores
<1>9. Requests' /\ NicStep
  <2>1. \A i \in 1..Len(queue') : queue'[i].kind = "check" => i = Len(queue) + 1
    BY <1>2, <1>3, <1>4
  <2>2. \A i \in 1..Len(queue') : queue'[i].nic => i \in 1..Len(queue) /\ queue'[i] = queue[i]
    BY <1>2, <1>3, TaskTyped
  <2>3. QED
    BY <1>1, <2>1, <2>2 DEF FInv, Requests, NicStep
<1>10. QED
  BY <1>5, <1>6, <1>7, <1>8, <1>9 DEF FInv, Types

\* A request for a NIC joins a check that has not started, or queues one.
LEMMA AskNicKeeps ==
    ASSUME FInv, AskNic
    PROVE  FInv' /\ NicStep
<1>1. /\ rules' = rules /\ changed' = changed /\ cur' = cur /\ open' = open /\ heard' = heard /\ sync' = sync
      /\ up' = up /\ down' = down /\ link' = link /\ fw' = fw /\ op' = op /\ stored' = stored /\ table' = table
      /\ floor' = floor /\ damage' = Damaged /\ faults' = faults
      /\ nic # "waiting" /\ nic' = "waiting" /\ queue' = JoinCheck
  BY DEF AskNic, backend, wires
<1>2. /\ queue \in Seq(Tasks) /\ Len(queue) \in Nat /\ DOMAIN queue = 1..Len(queue)
      /\ \A i \in 1..Len(queue) : queue[i] \in Tasks
  BY Elements DEF FInv, AgentTypes
<1>3. /\ queue' \in Seq(Tasks)
      /\ \A i \in 1..Len(queue') :
            \/ /\ i \in 1..Len(queue)
               /\ queue'[i].kind = queue[i].kind /\ queue'[i].fresh = queue[i].fresh
               /\ queue'[i].doc = queue[i].doc
               /\ queue'[i].nic => queue[i].nic \/ queue[i].kind = "check"
            \/ i = Len(queue) + 1 /\ queue'[i].kind = "check" /\ ~queue'[i].fresh
      /\ Len(queue') = Len(queue) + 1 => \A i \in 1..Len(queue) : queue[i].kind # "check"
      /\ Len(queue') \in {Len(queue), Len(queue) + 1}
  <2>1. CASE PendingCheck
    <3> DEFINE T(i) == [queue[i] EXCEPT !.nic = queue[i].nic \/ queue[i].kind = "check"]
    <3>1. queue' = [i \in 1..Len(queue) |-> T(i)]
      BY <1>1, <1>2, <2>1 DEF JoinCheck
    <3>2. ASSUME NEW i \in 1..Len(queue)
          PROVE  /\ T(i) \in Tasks /\ T(i).kind = queue[i].kind /\ T(i).fresh = queue[i].fresh
                 /\ T(i).doc = queue[i].doc /\ (T(i).nic => queue[i].nic \/ queue[i].kind = "check")
      BY <1>2 DEF Tasks
    <3>3. queue' \in Seq(Tasks) /\ Len(queue') = Len(queue)
      BY <1>2, <3>1, <3>2, IsASeq, LenProperties
    <3>4. \A i \in 1..Len(queue) : queue'[i] = T(i)
      BY <3>1
    <3>5. ASSUME NEW i \in 1..Len(queue')
          PROVE  /\ i \in 1..Len(queue)
                 /\ queue'[i].kind = queue[i].kind /\ queue'[i].fresh = queue[i].fresh
                 /\ queue'[i].doc = queue[i].doc
                 /\ queue'[i].nic => queue[i].nic \/ queue[i].kind = "check"
      <4> HIDE DEF T
      <4> QED
        BY <3>2, <3>3, <3>4, <3>5
    <3>6. Len(queue') # Len(queue) + 1
      <4>1. Len(queue) \in Nat /\ Len(queue') = Len(queue)
        BY <1>2, <3>3
      <4>2. QED
        BY <4>1
    <3>7. /\ Len(queue') = Len(queue) + 1 => \A i \in 1..Len(queue) : queue[i].kind # "check"
          /\ Len(queue') \in {Len(queue), Len(queue) + 1}
      BY <3>3, <3>6
    <3>8. QED
      BY <3>3, <3>5, <3>7, Zenon
  <2>2. CASE ~PendingCheck
    <3> DEFINE t == [Task("check") EXCEPT !.nic = TRUE]
    <3>1. t \in Tasks /\ t.kind = "check" /\ t.fresh = FALSE
      BY DEF Task, Tasks, Known
    <3>2. queue' = Append(queue, t)
      BY <1>1, <2>2 DEF JoinCheck
    <3>3. /\ queue' \in Seq(Tasks) /\ Len(queue') = Len(queue) + 1
          /\ \A i \in 1..Len(queue) : queue'[i] = queue[i]
          /\ queue'[Len(queue) + 1] = t
      BY <1>2, <3>1, <3>2, Longer
    <3>4. \A i \in 1..Len(queue) : queue[i].kind # "check"
      BY <1>2, <2>2 DEF PendingCheck
    <3>5. ASSUME NEW i \in 1..Len(queue')
          PROVE  \/ i \in 1..Len(queue) /\ queue'[i] = queue[i]
                 \/ i = Len(queue) + 1 /\ queue'[i].kind = "check" /\ ~queue'[i].fresh
      <4> HIDE DEF t
      <4> QED
        BY <1>2, <3>1, <3>3, <3>5
    <3>6. QED
      BY <3>3, <3>4, <3>5
  <2>3. QED
    BY <2>1, <2>2
<1>4. Types'
  <2>1. Damaged \in BOOLEAN
    BY DEF Damaged
  <2>2. QED
    BY <1>1, <1>3, <2>1 DEF FInv, Types, BackendTypes, AgentTypes, WireTypes
<1>5. Connections' /\ Paid'
  BY <1>1 DEF FInv, Connections, Paid, Late, Hello, HelloFirst
<1>6. Documents'
  <2>1. ASSUME NEW i \in 1..Len(queue'), queue'[i].fresh \/ queue'[i].kind = "apply"
        PROVE  /\ i \in 1..Len(queue)
               /\ queue'[i].kind = queue[i].kind /\ queue'[i].fresh = queue[i].fresh
               /\ queue'[i].doc = queue[i].doc
    BY <1>3, <2>1
  <2>2. QED
    BY <1>1, <2>1 DEF FInv, Documents, FreshDoc, Vouched
<1>7. Restores'
  BY <1>1, <1>3 DEF FInv, Restores
<1>8. Requests' /\ NicStep
  <2>1. ~op.task.nic
    BY <1>1 DEF FInv, Requests
  <2>2. \A i \in 1..Len(queue') : queue'[i].nic => queue'[i].kind = "check"
    BY <1>3 DEF FInv, Requests
  <2>3. \A i, j \in 1..Len(queue') : queue'[i].kind = "check" /\ queue'[j].kind = "check" => i = j
    BY <1>2, <1>3 DEF FInv, Requests
  <2>4. QED
    BY <1>1, <2>1, <2>2, <2>3 DEF Requests, NicStep
<1>9. QED
  BY <1>4, <1>5, <1>6, <1>7, <1>8 DEF FInv, Types

\* The firewall tells its listeners.
LEMMA PublishTyped ==
    ASSUME FInv, NEW f \in Firewalls, Publish(f)
    PROVE  /\ fw' \in Firewalls /\ fw'.confirmed = f.confirmed /\ fw'.doc = f.doc
           /\ SameSession
<1>1. Status(f) \in HostStatus /\ link \in Links
  BY StatusTyped DEF FInv, AgentTypes
<1>2. fw' = [f EXCEPT !.published = Status(f)]
  BY DEF Publish
<1>3. fw' \in Firewalls /\ fw'.confirmed = f.confirmed /\ fw'.doc = f.doc
  BY <1>1, <1>2 DEF Firewalls
<1>4. PICK b \in BOOLEAN : link' = [link EXCEPT !.due = b] /\ (b => link.due \/ link.welcomed)
  <2>1. link' = [link EXCEPT !.due = link.due \/ (link.welcomed /\ Status(f) # f.published)]
    BY DEF Publish
  <2>2. QED
    BY <2>1, Zenon
<1>5. SameSession
  BY <1>1, <1>4 DEF SameSession, Links
<1>6. QED
  BY <1>3, <1>5

\* An answer goes out on the connection its request came on.
LEMMA ReplyTyped ==
    ASSUME FInv, NEW t, NEW r \in {"ok", "refused", "failed"}, t.req \in Nat, Reply(t, r)
    PROVE  NoHello /\ up' \in [Sessions -> Seq(UpFrames)]
<1>1. /\ [type |-> "reply", req |-> t.req, result |-> r] \in UpFrames
      /\ [type |-> "reply", req |-> t.req, result |-> r].type # "hello"
  BY DEF UpFrames
<1>2. CASE up' = up
  BY <1>2, SameWire DEF FInv, WireTypes
<1>3. CASE up' = Send(up, link.session, [type |-> "reply", req |-> t.req, result |-> r])
  BY <1>1, <1>3, PutOn DEF FInv, Types
<1>4. QED
  BY <1>2, <1>3 DEF Reply

\* The agent works on its table: the connection, the documents and the tasks
\* stay, the operation goes on or is over.
Works ==
    /\ UNCHANGED <<backend, down, floor, queue>>
    /\ SameSession /\ NoHello /\ up' \in [Sessions -> Seq(UpFrames)]
    /\ fw' \in Firewalls /\ fw'.confirmed = fw.confirmed /\ fw'.doc = fw.doc
    /\ op' = Idle \/ (op' \in Ops /\ op'.task = op.task /\ op'.step \notin {"load", "persist"})
    /\ stored' \in Known /\ table' \in Tables

LEMMA WorksKeeps ==
    ASSUME FInv, Works, faults' = faults \/ (faults < MaxFaults /\ faults' = faults + 1),
           damage' \in BOOLEAN, nic' \in {"idle", "waiting", "up"},
           nic' = nic \/ (op.task.nic /\ op' = Idle),
           op'.step = "relist" => ~damage'
    PROVE  FInv'
<1>1. Types /\ faults \in Nat /\ MaxFaults \in Nat /\ faults <= MaxFaults /\ rules \in Nat
  BY Numbers DEF FInv, Types, WireTypes, BackendTypes
<1>2. faults' \in 0..MaxFaults /\ faults' \in {faults, faults + 1}
  BY <1>1
<1>3. /\ rules' = rules /\ changed' = changed /\ cur' = cur /\ open' = open /\ heard' = heard /\ sync' = sync
      /\ down' = down /\ floor' = floor /\ queue' = queue
      /\ fw' \in Firewalls /\ fw'.confirmed = fw.confirmed /\ fw'.doc = fw.doc
      /\ stored' \in Known /\ table' \in Tables
  BY DEF Works, backend
<1>4. link' \in Links /\ link'.session = link.session /\ link'.last = link.last
      /\ link'.welcomed = link.welcomed
  BY DEF Works, SameSession
<1>5. op' \in Ops /\ (op' = Idle \/ op'.task = op.task)
  BY IdleTyped DEF Works
<1>6. Types'
  BY <1>2, <1>3, <1>4, <1>5 DEF FInv, Types, BackendTypes, AgentTypes, WireTypes, Works
<1>7. Connections' /\ Paid'
  BY <1>1, <1>2, <1>3, ConnectionsKept DEF FInv, Works
<1>8. Documents'
  <2>1. \A s, d : Vouched(s, d)' <=> Vouched(s, d)
    BY <1>3 DEF Vouched
  <2>2. \A t : FreshDoc(t)' <=> FreshDoc(t)
    BY <1>4, <2>1 DEF FreshDoc
  <2>3. /\ op'.task.fresh => op'.task = op.task
        /\ op'.task.kind = "apply" => op'.task = op.task
    BY <1>5, IdleTyped
  <2>4. op'.task.fresh => FreshDoc(op'.task)
    BY <2>3 DEF FInv, Documents
  <2>5. fw'.confirmed =>
          /\ link'.welcomed
          /\ Vouched(link.session, fw.doc)
          /\ op'.task.kind = "apply" => op'.task.fresh
    BY <1>3, <1>4, <2>3 DEF FInv, Documents
  <2>6. op'.task.fresh \/ fw'.confirmed =>
         \A i \in 1..Len(queue') : queue'[i].kind = "apply" => queue'[i].fresh
    BY <1>3, <2>3 DEF FInv, Documents
  <2>7. op'.task.fresh => FreshDoc(op.task)'
    BY <1>3, <1>4, <2>4 DEF FreshDoc, Vouched
  <2>8. fw'.confirmed => Vouched(link.session, fw.doc)'
    BY <1>3, <1>4, <2>5 DEF Vouched
  <2>9. link'.session # 0 =>
           \A i \in 1..Len(down'[link'.session]) :
              down'[link'.session][i].type = "apply"
                => Vouched(link.session, down[link.session][i].doc)'
    BY <1>3, <1>4 DEF FInv, Documents, Vouched
  <2>10. QED
    BY <1>3, <2>2, <2>5, <2>6, <2>7, <2>8, <2>9 DEF FInv, Documents
<1>9. Restores'
  BY <1>3, <1>4, <1>5, IdleTyped DEF FInv, Restores, Works
<1>10. Requests'
  <2>1. CASE op.task.nic /\ op' = Idle
    BY <1>3, <2>1, IdleTyped DEF FInv, Requests
  <2>2. CASE nic' = nic
    BY <1>3, <1>5, <2>2, IdleTyped DEF FInv, Requests
  <2>3. QED
    BY <2>1, <2>2
<1>11. QED
  BY <1>6, <1>7, <1>8, <1>9, <1>10 DEF FInv, Types

\* The end of an operation: its answer, and that of the request for a NIC.
LEMMA SettleKeeps ==
    ASSUME FInv, NEW f \in Firewalls, f.confirmed = fw.confirmed, f.doc = fw.doc,
           NEW verified \in BOOLEAN, Settle(f, verified),
           UNCHANGED <<backend, down, queue, stored, table, floor>>,
           faults' = faults \/ (faults < MaxFaults /\ faults' = faults + 1),
           verified /\ op.task.nic /\ damage => fw.snap.listing = table
    PROVE  FInv' /\ NicStep
<1> DEFINE g == [f EXCEPT !.verified = verified]
<1>1. g \in Firewalls /\ g.confirmed = fw.confirmed /\ g.doc = fw.doc /\ g.verified = verified
  BY DEF Firewalls
<1>2. /\ Publish(g)
      /\ op' = IF op.task.kind = "restore" /\ ~verified /\ f.doc # None
               THEN [op EXCEPT !.step = "close"] ELSE Idle
      /\ Reply(op.task, IF verified /\ f.confirmed THEN "ok" ELSE "failed")
      /\ damage' = (damage /\ ~op.task.nic)
      /\ nic' = CASE ~op.task.nic -> nic
                  [] op.task.nic /\ Present(g)  -> "up"
                  [] op.task.nic /\ ~Present(g) -> "idle"
  BY DEF Settle
<1>3. op \in Ops /\ op.task \in Tasks /\ op.task.req \in Nat /\ op.task.nic \in BOOLEAN
  BY DEF FInv, AgentTypes, Ops, Tasks
<1>4. fw' \in Firewalls /\ fw'.confirmed = fw.confirmed /\ fw'.doc = fw.doc /\ SameSession
  BY <1>1, <1>2, PublishTyped
<1>5. NoHello /\ up' \in [Sessions -> Seq(UpFrames)]
  <2>1. PICK r \in {"ok", "refused", "failed"} : Reply(op.task, r)
    BY <1>2
  <2>2. QED
    BY <1>3, <2>1, ReplyTyped
<1>6. /\ op' = Idle \/ (op' \in Ops /\ op'.task = op.task /\ op'.step \notin {"load", "persist"})
      /\ op'.step # "relist"
      /\ op.task.nic => op' = Idle
  <2>1. op.task.nic => op.task.kind # "restore"
    BY DEF FInv, Requests
  <2>2. [op EXCEPT !.step = "close"] \in Ops /\ [op EXCEPT !.step = "close"].task = op.task
        /\ [op EXCEPT !.step = "close"].step = "close"
    BY <1>3 DEF Ops
  <2>3. QED
    BY <1>2, <2>1, <2>2, IdleTyped
<1>7. Works
  BY <1>4, <1>5, <1>6 DEF Works, FInv, AgentTypes
<1>8. nic' \in {"idle", "waiting", "up"} /\ (~op.task.nic => nic' = nic)
  BY <1>2 DEF FInv, AgentTypes
<1>9. damage' \in BOOLEAN
  BY <1>2
<1>10. FInv'
  BY <1>6, <1>7, <1>8, <1>9, WorksKeeps
<1>11. NicStep
  <2>1. nic = "waiting" /\ nic' = "up" => op.task.nic /\ Present(g)
    BY <1>2
  <2>2. Present(g) => verified
    BY <1>1 DEF Present
  <2>3. QED
    BY <2>1, <2>2 DEF NicStep
<1>12. QED
  BY <1>10, <1>11

\* The operation goes to its next step.
LEMMA GotoTyped ==
    ASSUME FInv, NEW step \in {"idle", "load", "persist", "list", "install", "relist", "close"}, Goto(step)
    PROVE  op' \in Ops /\ op'.task = op.task /\ op'.step = step
  BY DEF Goto, Ops, FInv, AgentTypes

\* The table is forgotten.
LEMMA ForgetTyped ==
    ASSUME FInv, NEW k \in Tables, NEW l \in Tables
    PROVE  LET g == [fw EXCEPT !.snap = [key |-> k, listing |-> l]]
           IN  g \in Firewalls /\ g.confirmed = fw.confirmed /\ g.doc = fw.doc
<1>1. [key |-> k, listing |-> l] \in Snaps /\ fw \in Firewalls
  BY DEF Snaps, FInv, AgentTypes
<1>2. QED
  BY <1>1 DEF Firewalls

LEMMA KeyTyped ==
    ASSUME FInv
    PROVE  /\ Key(fw) \in Tables /\ None \in Tables /\ Closed \in Tables
           /\ fw \in Firewalls /\ table \in Tables
  BY DEF Key, Tables, Known, FInv, AgentTypes, Firewalls

\* The table is listed and compared.
LEMMA ListKeeps ==
    ASSUME FInv, List
    PROVE  FInv' /\ NicStep
<1>1. UNCHANGED <<backend, down, queue, stored, table, floor>> /\ faults' = faults
  BY DEF List
<1>2. CASE Matches /\ Settle(fw, TRUE)
  <2>1. fw.snap.listing = table
    BY <1>2 DEF Matches
  <2>2. QED
    BY <1>1, <1>2, <2>1, SettleKeeps, KeyTyped
<1>3. CASE Settle(fw, FALSE)
  BY <1>1, <1>3, SettleKeeps, KeyTyped
<1>4. CASE fw' = [fw EXCEPT !.snap = NoSnap] /\ Goto("install") /\ UNCHANGED <<up, link, nic, damage>>
  <2>1. op' \in Ops /\ op'.task = op.task /\ op'.step = "install"
    BY <1>4, GotoTyped
  <2>2. fw' \in Firewalls /\ fw'.confirmed = fw.confirmed /\ fw'.doc = fw.doc
    BY <1>4, KeyTyped, ForgetTyped DEF NoSnap
  <2>3. NoHello /\ SameSession
    BY <1>4, SameWire DEF FInv, SameSession, AgentTypes
  <2>4. Works
    BY <1>1, <1>4, <2>1, <2>2, <2>3 DEF Works, FInv, AgentTypes, WireTypes
  <2>5. nic' = nic /\ damage' = damage /\ nic \in {"idle", "waiting", "up"} /\ damage \in BOOLEAN
    BY <1>4 DEF FInv, AgentTypes
  <2>6. FInv'
    BY <1>1, <2>1, <2>4, <2>5, WorksKeeps
  <2>7. QED
    BY <2>5, <2>6 DEF NicStep
<1>5. QED
  BY <1>2, <1>3, <1>4 DEF List

\* The table is written and listed again.
LEMMA RelistKeeps ==
    ASSUME FInv, Relist
    PROVE  FInv' /\ NicStep
<1>1. /\ UNCHANGED <<backend, down, queue, stored, table, floor>> /\ faults' = faults
      /\ op.step = "relist"
  BY DEF Relist
<1>2. ~(op.task.nic /\ damage)
  BY <1>1 DEF FInv, Requests
<1>3. CASE Settle([fw EXCEPT !.snap = [key |-> Key(fw), listing |-> table]], TRUE)
  <2> DEFINE g == [fw EXCEPT !.snap = [key |-> Key(fw), listing |-> table]]
  <2>1. g \in Firewalls /\ g.confirmed = fw.confirmed /\ g.doc = fw.doc
    BY KeyTyped, ForgetTyped
  <2>2. QED
    BY <1>1, <1>2, <1>3, <2>1, SettleKeeps
<1>4. CASE Settle(fw, FALSE)
  BY <1>1, <1>4, SettleKeeps, KeyTyped
<1>5. QED
  BY <1>3, <1>4 DEF Relist

LEMMA InstallKeeps ==
    ASSUME FInv, Install \/ InstallFails \/ ListFails
    PROVE  FInv' /\ NicStep
<1>1. CASE Install
  <2>1. op' \in Ops /\ op'.task = op.task /\ op'.step = "relist"
    BY <1>1, GotoTyped DEF Install
  <2>2. NoHello /\ SameSession
    BY <1>1, SameWire DEF Install, wires, FInv, SameSession, AgentTypes
  <2>3. Works
    BY <1>1, <2>1, <2>2, KeyTyped DEF Install, Works, FInv, AgentTypes, WireTypes, wires
  <2>4. nic' = nic /\ damage' = FALSE /\ nic \in {"idle", "waiting", "up"} /\ faults' = faults
    BY <1>1 DEF Install, FInv, AgentTypes
  <2>5. FInv'
    BY <2>3, <2>4, WorksKeeps
  <2>6. QED
    BY <2>4, <2>5 DEF NicStep
<1>2. CASE InstallFails
  BY <1>2, SettleKeeps, KeyTyped DEF InstallFails
<1>3. CASE ListFails
  <2>1. op' \in Ops /\ op'.task = op.task /\ op'.step = "install"
    BY <1>3, GotoTyped DEF ListFails
  <2>2. fw' \in Firewalls /\ fw'.confirmed = fw.confirmed /\ fw'.doc = fw.doc
    BY <1>3, KeyTyped, ForgetTyped DEF NoSnap, ListFails
  <2>3. NoHello /\ SameSession
    BY <1>3, SameWire DEF ListFails, wires, FInv, SameSession, AgentTypes
  <2>4. Works
    <3>1. UNCHANGED <<backend, down, floor, queue>> /\ up' = up /\ stored' = stored /\ table' = table
      BY <1>3 DEF ListFails, wires, history
    <3>2. QED
      BY <2>1, <2>2, <2>3, <3>1 DEF Works, FInv, AgentTypes, WireTypes
  <2>5. /\ nic' = nic /\ damage' = damage /\ nic \in {"idle", "waiting", "up"} /\ damage \in BOOLEAN
        /\ faults < MaxFaults /\ faults' = faults + 1
    BY <1>3 DEF ListFails, history, FInv, AgentTypes
  <2>6. FInv'
    BY <2>1, <2>4, <2>5, WorksKeeps
  <2>7. QED
    BY <2>5, <2>6 DEF NicStep
<1>4. QED
  BY <1>1, <1>2, <1>3

\* The fail-closed table takes the place of a document that did not apply.
LEMMA CloseEgressKeeps ==
    ASSUME FInv, CloseEgress
    PROVE  FInv' /\ NicStep
<1>1. /\ UNCHANGED <<backend, wires, queue, stored, nic, floor>> /\ op' = Idle
      /\ \E k, l \in Tables : Publish([fw EXCEPT !.snap = [key |-> k, listing |-> l]])
      /\ table' \in Tables /\ damage' \in BOOLEAN
      /\ faults' = faults \/ (faults < MaxFaults /\ faults' = faults + 1)
  BY KeyTyped DEF CloseEgress, NoSnap, FInv, AgentTypes
<1>2. fw' \in Firewalls /\ fw'.confirmed = fw.confirmed /\ fw'.doc = fw.doc /\ SameSession
  <2>1. PICK k \in Tables, l \in Tables : Publish([fw EXCEPT !.snap = [key |-> k, listing |-> l]])
    BY <1>1
  <2>2. LET g == [fw EXCEPT !.snap = [key |-> k, listing |-> l]]
        IN  g \in Firewalls /\ g.confirmed = fw.confirmed /\ g.doc = fw.doc
    BY ForgetTyped
  <2>3. QED
    BY <2>1, <2>2, PublishTyped
<1>3. NoHello
  BY <1>1, SameWire DEF wires, FInv
<1>4. Works
  BY <1>1, <1>2, <1>3 DEF Works, wires, FInv, AgentTypes, WireTypes
<1>5. nic' = nic /\ nic \in {"idle", "waiting", "up"} /\ op'.step # "relist"
  BY <1>1, IdleTyped DEF FInv, AgentTypes
<1>6. FInv'
  BY <1>1, <1>4, <1>5, WorksKeeps
<1>7. QED
  BY <1>5, <1>6 DEF NicStep

\* The next operation: a task leaves the queue.
LEMMA NextTask ==
    ASSUME FInv, op = Idle, queue # <<>>, queue' = Tail(queue)
    PROVE  /\ Head(queue) \in Tasks /\ Head(queue) = queue[1] /\ 1 \in 1..Len(queue)
           /\ queue' \in Seq(Tasks)
           /\ \A i \in 1..Len(queue') : i + 1 \in 1..Len(queue) /\ queue'[i] = queue[i + 1] /\ 1 < i + 1
           /\ \A i, j \in 1..Len(queue') : (i < j <=> i + 1 < j + 1) /\ (i = j <=> i + 1 = j + 1)
<1>1. queue \in Seq(Tasks)
  BY DEF FInv, AgentTypes
<1>2. /\ Head(queue) \in Tasks /\ Head(queue) = queue[1] /\ queue' \in Seq(Tasks)
      /\ Len(queue) \in Nat \ {0} /\ Len(queue') = Len(queue) - 1
      /\ \A i \in 1..Len(queue') : i + 1 \in 1..Len(queue) /\ queue'[i] = queue[i + 1]
  BY <1>1, Shorter
<1>3. Len(queue') \in Nat
  BY <1>2
<1>4. QED
  BY <1>2, <1>3

LEMMA StartTaskKeeps ==
    ASSUME FInv, StartTask
    PROVE  FInv' /\ NicStep
<1> DEFINE task == Head(queue)
<1>1. /\ rules' = rules /\ changed' = changed /\ cur' = cur /\ open' = open /\ heard' = heard /\ sync' = sync
      /\ up' = up /\ down' = down /\ link' = link /\ stored' = stored /\ table' = table
      /\ nic' = nic /\ floor' = floor /\ damage' = damage /\ faults' = faults
      /\ op = Idle /\ queue # <<>> /\ queue' = Tail(queue)
  BY DEF StartTask, backend, wires, history
<1>2. /\ task \in Tasks /\ task = queue[1] /\ 1 \in 1..Len(queue) /\ queue' \in Seq(Tasks)
      /\ \A i \in 1..Len(queue') : i + 1 \in 1..Len(queue) /\ queue'[i] = queue[i + 1] /\ 1 < i + 1
      /\ \A i, j \in 1..Len(queue') : (i < j <=> i + 1 < j + 1) /\ (i = j <=> i + 1 = j + 1)
  BY <1>1, NextTask
<1>3. \E step \in {"persist", "list", "load"} :
         /\ op' = [task |-> task, step |-> step]
         /\ step = "persist" => task.kind = "apply"
         /\ step = "load" => task.kind = "restore"
  BY DEF StartTask
<1>4. /\ op' \in Ops /\ op'.task = task /\ op'.step \in {"persist", "list", "load"}
      /\ op'.step = "persist" => task.kind = "apply"
      /\ op'.step = "load" => task.kind = "restore"
  BY <1>2, <1>3 DEF Ops
<1>5. \/ fw' = fw
      \/ task.kind = "apply" /\ task.doc = fw.doc /\ fw' = Confirm(fw, task)
  BY DEF StartTask
<1>6. /\ fw' \in Firewalls /\ fw'.doc = fw.doc
      /\ fw'.confirmed => fw.confirmed \/ (task.kind = "apply" /\ task.fresh /\ task.doc = fw.doc)
  <2>1. fw \in Firewalls /\ task.fresh \in BOOLEAN
    BY <1>2 DEF FInv, AgentTypes, Tasks
  <2>2. CASE fw' = fw
    BY <2>1, <2>2
  <2>3. CASE task.kind = "apply" /\ task.doc = fw.doc /\ fw' = Confirm(fw, task)
    <3>1. PICK b \in BOOLEAN : fw' = [fw EXCEPT !.confirmed = b] /\ (b => fw.confirmed \/ task.fresh)
      <4>1. fw' = [fw EXCEPT !.confirmed = fw.confirmed \/ task.fresh]
        BY <2>3 DEF Confirm
      <4>2. QED
        BY <4>1, Zenon
    <3>2. QED
      BY <2>1, <2>3, <3>1 DEF Firewalls
  <2>4. QED
    BY <1>5, <2>2, <2>3
<1>7. Types'
  BY <1>1, <1>2, <1>4, <1>6 DEF FInv, Types, BackendTypes, AgentTypes, WireTypes
<1>8. Connections' /\ Paid'
  BY <1>1 DEF FInv, Connections, Paid, Late, Hello, HelloFirst
<1>9. Documents'
  <2>1. \A s, d : Vouched(s, d)' <=> Vouched(s, d)
    BY <1>1 DEF Vouched
  <2>2. task.fresh => FreshDoc(task)
    BY <1>2 DEF FInv, Documents
  <2>3. \A i \in 1..Len(queue') : queue'[i].fresh => FreshDoc(queue'[i])
    BY <1>2 DEF FInv, Documents
  <2>4. \A i, j \in 1..Len(queue') : i < j /\ queue'[i].fresh /\ queue'[j].kind = "apply" => queue'[j].fresh
    <3>1. ASSUME NEW i \in 1..Len(queue'), NEW j \in 1..Len(queue'),
                 i < j, queue'[i].fresh, queue'[j].kind = "apply"
          PROVE  queue'[j].fresh
      <4>1. /\ i + 1 \in 1..Len(queue) /\ j + 1 \in 1..Len(queue) /\ i + 1 < j + 1
            /\ queue'[i] = queue[i + 1] /\ queue'[j] = queue[j + 1]
        BY <1>2, <3>1
      <4>2. QED
        BY <3>1, <4>1 DEF FInv, Documents
    <3>2. QED
      BY <3>1
  <2>5. ASSUME task.fresh \/ fw'.confirmed, NEW i \in 1..Len(queue'), queue'[i].kind = "apply"
        PROVE  queue'[i].fresh
    <3>1. i + 1 \in 1..Len(queue) /\ queue'[i] = queue[i + 1] /\ 1 < i + 1
      BY <1>2
    <3>2. fw.confirmed \/ task.fresh
      BY <1>6, <2>5
    <3>3. QED
      BY <1>2, <2>5, <3>1, <3>2 DEF FInv, Documents
  <2>6. fw'.confirmed =>
          /\ link.welcomed
          /\ Vouched(link.session, fw.doc)
          /\ task.kind = "apply" => task.fresh
    <3>1. CASE fw.confirmed
      BY <1>2, <3>1 DEF FInv, Documents
    <3>2. CASE task.kind = "apply" /\ task.fresh /\ task.doc = fw.doc
      BY <2>2, <3>2 DEF FreshDoc
    <3>3. QED
      BY <1>6, <3>1, <3>2
  <2>7. /\ op'.task.fresh => FreshDoc(op.task)'
        /\ \A i \in 1..Len(queue') : queue'[i].fresh => FreshDoc(queue[i])'
        /\ fw'.confirmed => Vouched(link.session, fw.doc)'
    BY <1>1, <1>4, <1>6, <2>2, <2>3, <2>6 DEF FreshDoc, Vouched
  <2>8. link'.session # 0 =>
           \A i \in 1..Len(down'[link'.session]) :
              down'[link'.session][i].type = "apply"
                => Vouched(link.session, down[link.session][i].doc)'
    BY <1>1 DEF FInv, Documents, Vouched
  <2>9. \A s \in Sessions : floor'[s] \in 1..rules'
    BY <1>1 DEF FInv, Documents
  <2>10. QED
    BY <1>1, <1>4, <2>4, <2>5, <2>6, <2>7, <2>8, <2>9 DEF Documents
<1>10. Restores'
  BY <1>1, <1>2, <1>4 DEF FInv, Restores
<1>11. Requests' /\ NicStep
  <2>1. /\ task.nic => task.kind = "check" /\ nic = "waiting"
        /\ ~Idle.task.nic
    BY <1>1, <1>2, IdleTyped DEF FInv, Requests
  <2>2. ASSUME NEW i \in 1..Len(queue'), task.kind = "check" PROVE queue'[i].kind # "check"
    <3>1. i + 1 \in 1..Len(queue) /\ queue'[i] = queue[i + 1] /\ 1 < i + 1
      BY <1>2
    <3>2. i + 1 # 1
      BY <3>1
    <3>3. QED
      BY <1>2, <2>2, <3>1, <3>2 DEF FInv, Requests
  <2>3. ASSUME NEW i \in 1..Len(queue'), queue'[i].nic
        PROVE  queue'[i].kind = "check" /\ nic = "waiting" /\ ~task.nic
    BY <1>2, <2>1, <2>2, <2>3 DEF FInv, Requests
  <2>4. \A i, j \in 1..Len(queue') : queue'[i].kind = "check" /\ queue'[j].kind = "check" => i = j
    BY <1>2 DEF FInv, Requests
  <2>5. QED
    BY <1>1, <1>4, <2>1, <2>3, <2>4 DEF Requests, NicStep
<1>12. QED
  BY <1>7, <1>8, <1>9, <1>10, <1>11 DEF FInv, Types

\* The firewall takes another document: one of the connection that lasts, or
\* one that nobody confirmed.
LEMMA UseKeeps ==
    ASSUME FInv, NEW f \in Firewalls, Publish(f), Goto("list"),
           UNCHANGED <<backend, wires, queue, table, nic, history, faults>>, stored' \in Known,
           f.confirmed => op.task.fresh /\ f.doc = op.task.doc
    PROVE  FInv' /\ NicStep
<1>1. fw' \in Firewalls /\ fw'.confirmed = f.confirmed /\ fw'.doc = f.doc /\ SameSession
  BY PublishTyped
<1>2. op' \in Ops /\ op'.task = op.task /\ op'.step = "list"
  BY GotoTyped
<1>3. /\ rules' = rules /\ changed' = changed /\ cur' = cur /\ open' = open /\ heard' = heard /\ sync' = sync
      /\ up' = up /\ down' = down /\ queue' = queue /\ table' = table
      /\ nic' = nic /\ floor' = floor /\ damage' = damage /\ faults' = faults
  BY DEF backend, wires, history
<1>4. Types /\ NoHello
  BY <1>3, SameWire DEF FInv, Types
<1>5. link' \in Links /\ link'.session = link.session /\ link'.last = link.last
      /\ link'.welcomed = link.welcomed
  BY <1>1 DEF SameSession
<1>6. Types'
  BY <1>1, <1>2, <1>3, <1>5 DEF FInv, Types, BackendTypes, AgentTypes, WireTypes
<1>7. Connections' /\ Paid'
  BY <1>1, <1>3, <1>4, ConnectionsKept DEF FInv
<1>8. Documents'
  <2>1. fw'.confirmed => link.welcomed /\ Vouched(link.session, fw'.doc) /\ op.task.fresh
    BY <1>1 DEF FInv, Documents, FreshDoc
  <2>2. /\ op'.task.fresh => FreshDoc(op.task)'
        /\ \A i \in 1..Len(queue') : queue'[i].fresh => FreshDoc(queue[i])'
        /\ fw'.confirmed => Vouched(link.session, fw.doc)'
    BY <1>2, <1>3, <1>5, <2>1 DEF FInv, Documents, FreshDoc, Vouched
  <2>3. link'.session # 0 =>
           \A i \in 1..Len(down'[link'.session]) :
              down'[link'.session][i].type = "apply"
                => Vouched(link.session, down[link.session][i].doc)'
    BY <1>3, <1>5 DEF FInv, Documents, Vouched
  <2>4. QED
    BY <1>2, <1>3, <1>5, <2>1, <2>2, <2>3 DEF FInv, Documents
<1>9. Restores' /\ Requests' /\ NicStep
  BY <1>2, <1>3, <1>5 DEF FInv, Restores, Requests, NicStep
<1>10. QED
  BY <1>6, <1>7, <1>8, <1>9 DEF FInv, Types

LEMMA UseDocumentTyped ==
    ASSUME FInv, NEW d \in Known
    PROVE  LET g == UseDocument(fw, d)
           IN  g \in Firewalls /\ g.confirmed = fw.confirmed /\ g.doc = d
<1>1. NoSnap \in Snaps /\ fw \in Firewalls
  BY DEF NoSnap, Snaps, Tables, FInv, AgentTypes
<1>2. QED
  BY <1>1 DEF UseDocument, Firewalls

\* The stored document is loaded before there is a connection.
LEMMA LoadKeeps ==
    ASSUME FInv, Load
    PROVE  FInv' /\ NicStep
<1> DEFINE g == UseDocument(fw, stored)
<1>1. g \in Firewalls /\ g.confirmed = fw.confirmed
  BY UseDocumentTyped DEF FInv, AgentTypes
<1>2. ~fw.confirmed
  <2>1. link.session = 0
    BY DEF Load, FInv, Restores
  <2>2. QED
    BY <2>1, NothingFresh DEF FInv, Connections
<1>3. /\ UNCHANGED <<backend, wires, queue, table, nic, history, faults>>
      /\ stored' \in Known /\ Publish(g) /\ Goto("list")
  BY DEF Load, FInv, AgentTypes
<1>4. QED
  BY <1>1, <1>2, <1>3, UseKeeps

\* A document is persisted and used, or refused.
LEMMA PersistKeeps ==
    ASSUME FInv, Persist \/ PersistFails
    PROVE  FInv' /\ NicStep
<1>1. op.step = "persist" /\ op.task.kind = "apply" /\ op.task \in Tasks /\ op.task.doc \in Known
      /\ op.task.req \in Nat /\ op.task.fresh \in BOOLEAN
  BY DEF Persist, PersistFails, FInv, Restores, AgentTypes, Ops, Tasks
<1>2. ASSUME NEW r \in {"refused", "failed"}, op' = Idle, Reply(op.task, r),
             UNCHANGED <<backend, down, queue, table, nic, history, link, fw, stored>>,
             faults' = faults \/ (faults < MaxFaults /\ faults' = faults + 1)
      PROVE  FInv' /\ NicStep
  <2>1. NoHello /\ up' \in [Sessions -> Seq(UpFrames)]
    BY <1>1, <1>2, ReplyTyped
  <2>2. SameSession
    BY <1>2 DEF SameSession, FInv, AgentTypes
  <2>3. Works
    BY <1>2, <2>1, <2>2 DEF Works, FInv, AgentTypes, history
  <2>4. /\ nic' = nic /\ damage' = damage /\ nic \in {"idle", "waiting", "up"} /\ damage \in BOOLEAN
        /\ op'.step # "relist"
    BY <1>2, IdleTyped DEF history, FInv, AgentTypes
  <2>5. FInv'
    BY <1>2, <2>3, <2>4, WorksKeeps
  <2>6. QED
    BY <2>4, <2>5 DEF NicStep
<1>3. CASE PersistFails
  <2>1. /\ op' = Idle /\ Reply(op.task, "failed") /\ faults < MaxFaults /\ faults' = faults + 1
        /\ UNCHANGED <<backend, down, queue, table, nic, history, link, fw, stored>>
    BY <1>3 DEF PersistFails
  <2>2. QED
    BY <1>2, <2>1
<1>4. CASE Persist
  <2>1. CASE op' = Idle /\ Reply(op.task, "refused") /\ UNCHANGED <<link, fw, stored>>
    <3>1. UNCHANGED <<backend, down, queue, table, nic, history, faults>>
      BY <1>4 DEF Persist
    <3>2. UNCHANGED <<backend, down, queue, table, nic, history, link, fw, stored>> /\ faults' = faults
      BY <2>1, <3>1
    <3>3. QED
      BY <1>2, <2>1, <3>2
  <2>2. CASE /\ stored' = op.task.doc /\ Goto("list") /\ UNCHANGED up
             /\ Publish(Confirm(UseDocument(fw, op.task.doc), op.task))
    <3> DEFINE g == UseDocument(fw, op.task.doc)
               c == Confirm(g, op.task)
    <3>1. g \in Firewalls /\ g.confirmed = fw.confirmed /\ g.doc = op.task.doc
      BY <1>1, UseDocumentTyped
    <3>2. c \in Firewalls /\ c.doc = op.task.doc /\ (c.confirmed => fw.confirmed \/ op.task.fresh)
      <4>1. PICK b \in BOOLEAN : c = [g EXCEPT !.confirmed = b] /\ (b => g.confirmed \/ op.task.fresh)
        <5>1. c = [g EXCEPT !.confirmed = g.confirmed \/ op.task.fresh]
          BY DEF Confirm
        <5>2. QED
          BY <5>1, Zenon
      <4>2. QED
        BY <3>1, <4>1 DEF Firewalls
    <3>3. c.confirmed => op.task.fresh
      BY <1>1, <3>2 DEF FInv, Documents
    <3>4. UNCHANGED <<backend, wires, queue, table, nic, history, faults>>
      BY <1>4, <2>2 DEF Persist, wires
    <3>5. QED
      <4> HIDE DEF c
      <4>1. Publish(c)
        BY <2>2 DEF c
      <4>2. QED
        BY <1>1, <2>2, <3>2, <3>3, <3>4, <4>1, UseKeeps
  <2>3. QED
    BY <1>4, <2>1, <2>2 DEF Persist
<1>5. QED
  BY <1>3, <1>4

-----------------------------------------------------------------------------
(***************************************************************************)
(* The theorems                                                             *)
(***************************************************************************)

LEMMA InitKeeps ==
    ASSUME Init
    PROVE  FInv
<1>1. /\ rules = 1 /\ changed = FALSE /\ cur = 0 /\ open = {} /\ heard = Status(Boot) /\ sync = NoSync
      /\ up = [s \in Sessions |-> <<>>] /\ down = [s \in Sessions |-> <<>>]
      /\ link = Down(0) /\ fw = Boot /\ queue = <<Task("restore")>> /\ op = Idle
      /\ stored \in {None, Contents[1]} /\ table = None /\ nic = "idle"
      /\ floor = [s \in Sessions |-> 1] /\ damage = FALSE /\ faults = 0
  BY DEF Init
<1>2. 1 \in Versions /\ stored \in Known
  BY <1>1, Numbers DEF Versions, Known, Docs
<1>3. BackendTypes
  BY <1>1, <1>2, BootTyped DEF BackendTypes
<1>4. /\ link \in Links /\ link.last = 0 /\ link.session = 0 /\ link.welcomed = FALSE /\ link.due = FALSE
  BY <1>1, BootTyped DEF Down, Links
<1>5. queue \in Seq(Tasks) /\ Len(queue) = 1 /\ queue[1] = Task("restore")
  BY <1>1, TaskTyped, OneTask
<1>q. \A i \in 1..Len(queue) : i = 1 /\ queue[i].fresh = FALSE /\ queue[i].nic = FALSE
  <2>1. Task("restore").fresh = FALSE /\ Task("restore").nic = FALSE
    BY TaskTyped
  <2>2. \A i \in 1..1 : i = 1
    OBVIOUS
  <2>3. QED
    BY <1>5, <2>1, <2>2
<1>6. AgentTypes
  BY <1>1, <1>2, <1>4, <1>5, BootTyped, IdleTyped DEF AgentTypes, Tables
<1>7. WireTypes
  BY <1>1, Numbers DEF WireTypes
<1>8. Connections
  BY <1>1, <1>4 DEF Connections, Hello, HelloFirst
<1>9. Paid
  <2>1. Late = {}
    BY <1>1 DEF Late
  <2>2. Cardinality(Late) = 0
    BY <2>1, FS_EmptySet
  <2>3. QED
    BY <1>1, <1>4, <2>2 DEF Paid
<1>10. Documents
  <2>1. ~op.task.fresh /\ ~fw.confirmed
    BY <1>1, IdleTyped DEF Boot
  <2>2. QED
    BY <1>1, <1>4, <1>q, <2>1 DEF Documents
<1>11. Restores /\ Requests
  <2>1. op.step = "idle" /\ ~op.task.nic
    BY <1>1, IdleTyped
  <2>2. QED
    BY <1>4, <1>q, <2>1 DEF Restores, Requests
<1>12. QED
  BY <1>3, <1>6, <1>7, <1>8, <1>9, <1>10, <1>11 DEF FInv

LEMMA NextKeeps ==
    ASSUME FInv, Next
    PROVE  FInv' /\ NicStep
<1>1. CASE ChangeRules \/ RulesChanged \/ RetryDue \/ ReadRules \/ HearStatus \/ HearReply
  BY <1>1, SyncKeeps, ReadRulesKeeps, HearKeeps
<1>2. ASSUME NEW s \in Sessions, Register(s) \/ SocketGone(s) PROVE FInv' /\ NicStep
  BY <1>2, RegisterKeeps, SocketsKeep
<1>3. CASE Dial \/ Welcome \/ RecvApply \/ SendStatus \/ LinkClosed
  BY <1>3, DialKeeps, WelcomeKeeps, RecvApplyKeeps, SendStatusKeeps, LinkEndsKeep
<1>4. CASE AskCheck \/ AskNic \/ Operation
  BY <1>4, AskCheckKeeps, AskNicKeeps, StartTaskKeeps, LoadKeeps, PersistKeeps, ListKeeps,
     InstallKeeps, RelistKeeps, CloseEgressKeeps DEF Operation
<1>5. CASE Fault
  BY <1>5, SyncKeeps, BackendRestartKeeps, LinkEndsKeep, AgentRestartKeeps, PersistKeeps,
     InstallKeeps, SocketsKeep, TamperKeeps DEF Fault
<1>6. QED
  BY <1>1, <1>2, <1>3, <1>4, <1>5 DEF Next

LEMMA StutterKeeps ==
    ASSUME FInv, UNCHANGED vars
    PROVE  FInv' /\ NicStep
<1>1. Elsewhere
  BY Numbers DEF Elsewhere, vars, wires, agent, history, FInv, WireTypes
<1>2. /\ rules' = rules /\ rules \in Versions /\ rules \in Nat /\ changed' = changed /\ changed \in BOOLEAN
      /\ table' = table /\ table \in Tables /\ sync' = sync /\ sync \in Syncs \cup {NoSync} /\ nic' = nic
  BY Numbers DEF vars, FInv, BackendTypes, AgentTypes
<1>3. QED
  BY <1>1, <1>2, ElsewhereKeeps DEF NicStep

\* The rules on their way, the agent's documents and its operations agree in
\* every reachable state: what is fresh came on the connection that lasts, what
\* came before it is stale and goes first, and each session is welcomed before
\* anything else.
THEOREM Inductive == Spec => []FInv
<1>1. Init => FInv
  BY InitKeeps
<1>2. FInv /\ [Next]_vars => FInv'
  BY NextKeeps, StutterKeeps
<1>3. QED
  BY <1>1, <1>2, PTL DEF Spec

\* The agent lets NICs up (GuestFirewall.present) only behind a document that
\* was the server's rules at some moment since its connection was registered,
\* for any rules and any number of faults; and the state is well-typed.
THEOREM NicsBehindOwnRules == Spec => []NicsAreSafe
<1>1. FInv => NicsAreSafe
  <2> SUFFICES ASSUME FInv PROVE NicsAreSafe
    OBVIOUS
  <2>1. PresentIsVouched
    BY DEF FInv, PresentIsVouched, Present, Documents, Vouched
  <2>2. sync = NoSync \/ sync.pc \in {"idle", "read", "push"}
    BY DEF FInv, BackendTypes, Syncs
  <2>3. TypeOK
    BY <2>2 DEF FInv, TypeOK, BackendTypes, AgentTypes, Links, Firewalls, Snaps, Known, Ops
  <2>4. QED
    BY <2>1, <2>3 DEF NicsAreSafe
<1>2. QED
  BY <1>1, Inductive, PTL

\* A request to bring a NIC up waits for a check that starts after it, and so
\* never passes a table that was damaged before (ensureRuleSet, verify).
THEOREM DamageKeepsNicsDown == Spec => NicSeesDamage
<1>1. FInv /\ [Next]_vars
        => [nic = "waiting" /\ nic' = "up" /\ damage => fw.snap.listing = table]_vars
  BY NextKeeps DEF NicStep
<1>2. QED
  BY <1>1, Inductive, PTL DEF Spec, NicSeesDamage

================================================================================
