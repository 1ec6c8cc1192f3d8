--------------------------- MODULE EgressFirewall ---------------------------
(***************************************************************************)
(* The guest egress firewall of one server: the rules in the database, the *)
(* Backend's FirewallSyncService that pushes them, the control connection  *)
(* between Backend and host agent, the agent's GuestFirewall that persists *)
(* the document and keeps the nft table, and the request that brings a     *)
(* guest NIC up.                                                           *)
(*                                                                         *)
(* A document is named by its content (its digest): Contents[v] is what    *)
(* the rules of the server render to after v - 1 changes, so a change may  *)
(* return to an earlier content.  Sessions are the control connections, in *)
(* the order the agent dials them; each has a FIFO wire in each direction. *)
(* MaxFaults bounds everything that goes wrong: dropped links, restarts of *)
(* either side, timeouts, failing nft or disk calls, and other programs    *)
(* changing the table.                                                     *)
(***************************************************************************)
EXTENDS Integers, Sequences

CONSTANTS Contents,     \* content of each version of the rules, in order
          Bad,          \* contents nft refuses in a dry run
          MaxFaults     \* faults of any kind

ASSUME FirewallConstants ==
    /\ Contents \in Seq(STRING) /\ Len(Contents) > 0
    /\ MaxFaults \in Nat

None    == "none"       \* no document; as a table: the table does not exist
Closed  == "closed"     \* the fail-closed table
Edited  == "edited"     \* the table, changed by another program, our comment kept
Foreign == "foreign"    \* a table another server id wrote
NoSnap  == [key |-> None, listing |-> None]
NoSync  == [pc |-> "gone"]

Versions == 1..Len(Contents)
Docs     == {Contents[v] : v \in Versions}
\* A fault ends one session; the late hello of that one may replace its successor.
Sessions == 1..(2 * MaxFaults + 1)

VARIABLES
    rules,    \* version of the rules committed
    changed,  \* a commit's rulesChanged callback has not run yet
    cur,      \* session the AgentRegistry holds (0: none)
    open,     \* sessions whose Backend socket is open
    heard,    \* host status the registered connection last reported
    sync,     \* ServerSync of the registered connection
    up,       \* frames from the agent, per session
    down,     \* frames from the Backend, per session
    link,     \* the agent's BackendConnection
    fw,       \* the agent's GuestFirewall
    queue,    \* its nft operations waiting their turn
    op,       \* the one that runs
    stored,   \* firewall.json
    table,    \* the kernel's table bridge nyabase_firewall
    nic,      \* the request that brings a guest NIC up, and whether it did
    \* history, read by properties only
    floor,    \* version committed when each session was registered
    damage,   \* the table was damaged when the NIC request came, and still is
    faults    \* faults so far

history == <<floor, damage>>
backend == <<rules, changed, cur, open, heard, sync>>
wires   == <<up, down>>
agent   == <<link, fw, queue, op, stored>>
vars    == <<rules, changed, cur, open, heard, sync, up, down, link, fw, queue,
             op, stored, table, nic, history, faults>>

-----------------------------------------------------------------------------
(* The agent's firewall state *)

Present(f) == /\ f.doc # None
              /\ f.verified
              /\ f.confirmed
              /\ f.snap.key = f.doc

Status(f) == [present |-> Present(f), digest |-> f.doc]

Key(f) == IF f.doc = None THEN Closed ELSE f.doc

Boot == [doc |-> None, snap |-> NoSnap, verified |-> FALSE, confirmed |-> FALSE,
         published |-> [present |-> FALSE, digest |-> None]]

Down(n) == [last |-> n, session |-> 0, welcomed |-> FALSE, sent |-> Status(Boot), due |-> FALSE]

Task(kind) == [kind |-> kind, doc |-> None, req |-> 0, session |-> 0,
               fresh |-> FALSE, nic |-> FALSE]

Idle == [task |-> Task("none"), step |-> "idle"]

\* The firewall becomes f and tells its listeners when its status changed;
\* publishStatus does nothing on a connection that is not welcomed.
Publish(f) ==
    /\ fw' = [f EXCEPT !.published = Status(f)]
    /\ link' = [link EXCEPT !.due = @ \/ (link.welcomed /\ Status(f) # f.published)]

Send(wire, s, frame) == [wire EXCEPT ![s] = Append(@, frame)]

-----------------------------------------------------------------------------
(* FirewallSyncService *)

Attempt(sy, reason) == [sy EXCEPT !.pc = "read", !.reason = reason,
                                  !.dirty = FALSE, !.retry = FALSE]

\* Mutant: a change during an attempt is not remembered.
TriggerForgets(sy, reason) ==
    IF sy.pc \in {"gone", "read", "push"} \/ (reason = "status" /\ sy.retry)
    THEN sy ELSE Attempt(sy, reason)

Trigger(sy, reason) ==
    CASE sy.pc = "gone" -> sy
      [] sy.pc \in {"read", "push"} -> [sy EXCEPT !.dirty = @ \/ reason = "push"]
      [] sy.pc = "idle" /\ reason = "status" /\ sy.retry -> sy
      [] OTHER -> Attempt(sy, reason)

\* The attempt is over; a push requested meanwhile runs now.
Finish(sy) == IF sy.dirty THEN Attempt(sy, "push") ELSE [sy EXCEPT !.pc = "idle"]

Fail(sy, retry) == Finish([sy EXCEPT !.retry = retry])

Connected == Attempt([pc |-> "idle", reason |-> "push", dirty |-> FALSE,
                      retry |-> FALSE, confirmed |-> None, refused |-> None,
                      doc |-> None, req |-> 0], "push")

\* A rule of the server is created, patched or deleted and committed.
ChangeRules ==
    /\ rules < Len(Contents)
    /\ rules' = rules + 1
    /\ changed' = TRUE
    /\ UNCHANGED <<cur, open, heard, sync, wires, agent, table, nic, history, faults>>

RulesChanged ==
    /\ changed
    /\ changed' = FALSE
    /\ sync' = Trigger(sync, "push")
    /\ UNCHANGED <<rules, cur, open, heard, wires, agent, table, nic, history, faults>>

\* Nothing to push: the agent reported (status) or confirmed and reported
\* (push) the document, or it refused it and nothing changed since.
Skips(sy, doc) ==
    IF sy.reason = "status"
    THEN heard.digest = doc \/ doc = sy.refused
    ELSE sy.confirmed = doc /\ heard.digest = doc

ReadRules ==
    LET doc == Contents[rules] IN
    /\ sync.pc = "read"
    /\ \/ /\ Skips(sync, doc)
          /\ sync' = Finish(sync)
          /\ UNCHANGED down
       \/ /\ ~Skips(sync, doc)
          /\ sync' = [sync EXCEPT !.pc = "push", !.doc = doc]
          /\ down' = Send(down, cur, [type |-> "apply", doc |-> doc, req |-> sync.req])
    /\ UNCHANGED <<rules, changed, cur, open, heard, up, agent, table, nic, history, faults>>

ReadFails ==
    /\ sync.pc = "read"
    /\ faults < MaxFaults
    /\ faults' = faults + 1
    /\ sync' = Fail(sync, TRUE)
    /\ UNCHANGED <<rules, changed, cur, open, heard, wires, agent, table, nic, history>>

\* The apply request is given up; its late answer is dropped (req moved on).
PushTimesOut ==
    /\ sync.pc = "push"
    /\ faults < MaxFaults
    /\ faults' = faults + 1
    /\ sync' = Fail([sync EXCEPT !.req = @ + 1], TRUE)
    /\ UNCHANGED <<rules, changed, cur, open, heard, wires, agent, table, nic, history>>

RetryDue ==
    /\ sync.pc = "idle"
    /\ sync.retry
    /\ sync' = Trigger([sync EXCEPT !.retry = FALSE], "push")
    /\ UNCHANGED <<rules, changed, cur, open, heard, wires, agent, table, nic, history, faults>>

Answered(frame) ==
    CASE frame.result = "ok"      -> Finish([sync EXCEPT !.confirmed = sync.doc, !.refused = None])
      [] frame.result = "refused" -> Fail([sync EXCEPT !.refused = sync.doc], FALSE)
      [] frame.result = "failed"  -> Fail(sync, TRUE)

-----------------------------------------------------------------------------
(* The control connection, Backend side *)

\* hello on a new socket: the connection replaces the registered one, which is
\* closed, and both presence listeners hear of it.
Register(s) ==
    /\ s \in open
    /\ up[s] # <<>>
    /\ Head(up[s]).type = "hello"
    /\ up' = [t \in Sessions |-> IF t = s THEN Tail(up[s]) ELSE IF t = cur THEN <<>> ELSE up[t]]
    /\ down' = Send(down, s, [type |-> "welcome"])
    /\ cur' = s
    /\ open' = open \ {cur}
    /\ heard' = Head(up[s]).status
    /\ sync' = Connected
    /\ floor' = [floor EXCEPT ![s] = rules]
    /\ UNCHANGED <<rules, changed, agent, table, nic, damage, faults>>

HearStatus ==
    /\ cur # 0
    /\ up[cur] # <<>>
    /\ Head(up[cur]).type = "status"
    /\ up' = [up EXCEPT ![cur] = Tail(@)]
    /\ heard' = Head(up[cur]).status
    /\ sync' = Trigger(sync, "status")
    /\ UNCHANGED <<rules, changed, cur, open, down, agent, table, nic, history, faults>>

HearReply ==
    /\ cur # 0
    /\ up[cur] # <<>>
    /\ Head(up[cur]).type = "reply"
    /\ up' = [up EXCEPT ![cur] = Tail(@)]
    /\ sync' = IF sync.pc = "push" /\ sync.req = Head(up[cur]).req
               THEN Answered(Head(up[cur]))
               ELSE sync
    /\ UNCHANGED <<rules, changed, cur, open, heard, down, agent, table, nic, history, faults>>

RegisteredWithout(s) == IF cur = s THEN 0 ELSE cur

\* The Backend's socket of s closes: unregister, and forget the sync state.
CloseSocket(s) ==
    /\ s \in open
    /\ open' = open \ {s}
    /\ up' = [up EXCEPT ![s] = <<>>]
    /\ cur' = RegisteredWithout(s)
    /\ sync' = IF cur = s THEN NoSync ELSE sync
    /\ heard' = IF cur = s THEN Status(Boot) ELSE heard
    /\ UNCHANGED <<rules, changed, down, agent, table, nic, history>>

SocketGone(s) == link.session # s /\ CloseSocket(s) /\ UNCHANGED faults

SocketDropped(s) == faults < MaxFaults /\ faults' = faults + 1 /\ CloseSocket(s)

BackendRestart ==
    /\ faults < MaxFaults
    /\ faults' = faults + 1
    /\ changed' = FALSE
    /\ open' = {}
    /\ cur' = 0
    /\ sync' = NoSync
    /\ heard' = Status(Boot)
    /\ up' = [s \in Sessions |-> <<>>]
    /\ UNCHANGED <<rules, down, agent, table, nic, history>>

-----------------------------------------------------------------------------
(* The control connection, agent side *)

\* resetConfirmation: queued documents came on a connection that is over, and
\* the requests of that connection are aborted.
Stale(task) == [task EXCEPT !.fresh = FALSE, !.nic = FALSE]
StaleQueue  == [i \in DOMAIN queue |-> Stale(queue[i])]
StaleOp     == [op EXCEPT !.task = Stale(op.task)]
Reset(f)    == [f EXCEPT !.confirmed = FALSE, !.published = Status([f EXCEPT !.confirmed = FALSE])]

Restoring == op.task.kind = "restore" \/ \E i \in DOMAIN queue : queue[i].kind = "restore"

\* Dial and hello; the agent dials only after the stored document was restored.
Dial ==
    LET n == link.last + 1
        f == Reset(fw) IN
    /\ link.session = 0
    /\ ~Restoring
    /\ fw' = f
    /\ link' = [last |-> n, session |-> n, welcomed |-> FALSE, sent |-> Status(f), due |-> FALSE]
    /\ open' = open \cup {n}
    /\ up' = Send(up, n, [type |-> "hello", status |-> Status(f)])
    /\ UNCHANGED <<rules, changed, cur, heard, sync, down, queue, op, stored, table, nic,
                   floor, damage, faults>>

Arrives(type) == /\ link.session # 0
                 /\ down[link.session] # <<>>
                 /\ Head(down[link.session]).type = type
                 /\ down' = [down EXCEPT ![link.session] = Tail(@)]

Welcome ==
    /\ Arrives("welcome")
    /\ link' = [link EXCEPT !.welcomed = TRUE, !.due = TRUE]
    /\ UNCHANGED <<backend, up, fw, queue, op, stored, table, nic, history, faults>>

\* firewall.apply: the operation is queued with the connection's epoch.
RecvApply ==
    LET frame == Head(down[link.session]) IN
    /\ Arrives("apply")
    /\ queue' = Append(queue, [Task("apply") EXCEPT !.doc = frame.doc, !.req = frame.req,
                                                    !.session = link.session, !.fresh = TRUE])
    /\ UNCHANGED <<backend, up, link, fw, op, stored, table, nic, history, faults>>

\* The trailing status frame: the latest status, unless the Backend has it.
SendStatus ==
    /\ link.due
    /\ link' = [link EXCEPT !.due = FALSE, !.sent = Status(fw)]
    /\ up' = IF Status(fw) = link.sent THEN up
             ELSE Send(up, link.session, [type |-> "status", status |-> Status(fw)])
    /\ UNCHANGED <<backend, down, fw, queue, op, stored, table, nic, history, faults>>

\* The agent's control socket closes: its requests are aborted.
EndSession ==
    /\ link.session # 0
    /\ link' = Down(link.last)
    /\ fw' = Reset(fw)
    /\ queue' = StaleQueue
    /\ op' = StaleOp
    /\ damage' = FALSE
    /\ nic' = IF nic = "waiting" THEN "idle" ELSE nic
    /\ down' = [down EXCEPT ![link.session] = <<>>]
    /\ UNCHANGED <<backend, up, stored, table, floor>>

LinkClosed == link.session \notin open /\ EndSession /\ UNCHANGED faults

LinkDropped == faults < MaxFaults /\ faults' = faults + 1 /\ EndSession

\* The agent process dies; its successor restores from firewall.json first.
AgentRestart ==
    /\ faults < MaxFaults
    /\ faults' = faults + 1
    /\ link' = Down(link.last)
    /\ fw' = Boot
    /\ queue' = <<Task("restore")>>
    /\ op' = Idle
    /\ damage' = FALSE
    /\ nic' = IF nic = "waiting" THEN "idle" ELSE nic
    /\ down' = [s \in Sessions |-> <<>>]
    /\ UNCHANGED <<backend, up, stored, table, floor>>

-----------------------------------------------------------------------------
(* GuestFirewall: one operation at a time, in arrival order *)

PendingCheck == \E i \in DOMAIN queue : queue[i].kind = "check"

\* Mutant: the table is recognised by its comment alone.
MatchesComment == table # None /\ fw.snap.key = Key(fw)

Matches == /\ table # None
           /\ fw.snap = [key |-> Key(fw), listing |-> table]

\* The timer or the nft monitor asks for a check; one that waits is shared.
\* (A check of a table that is verified and intact changes nothing.)
AskCheck ==
    /\ ~PendingCheck
    /\ ~(Matches /\ fw.verified)
    /\ ~Restoring
    /\ queue' = Append(queue, Task("check"))
    /\ UNCHANGED <<backend, wires, link, fw, op, stored, table, nic, history, faults>>

\* A request that brings a NIC up waits for a check that has not started.
JoinCheck ==
    IF PendingCheck
    THEN [i \in DOMAIN queue |-> [queue[i] EXCEPT !.nic = @ \/ queue[i].kind = "check"]]
    ELSE Append(queue, [Task("check") EXCEPT !.nic = TRUE])

Damaged == table \in {None, Edited, Foreign}

AskNic ==
    /\ link.welcomed
    /\ nic # "waiting"
    /\ nic' = "waiting"
    /\ queue' = JoinCheck
    /\ damage' = Damaged
    /\ UNCHANGED <<backend, wires, link, fw, op, stored, table, floor, faults>>

Goto(step) == op' = [op EXCEPT !.step = step]

\* Mutant: a document confirms whatever became of its connection.
ConfirmAlways(f, task) == [f EXCEPT !.confirmed = TRUE]

\* The Backend sent the document on the connection that still lasts.
Confirm(f, task) == [f EXCEPT !.confirmed = @ \/ task.fresh]

StartTask ==
    LET task == Head(queue) IN
    /\ op = Idle
    /\ queue # <<>>
    /\ queue' = Tail(queue)
    /\ \/ /\ task.kind = "apply"
          /\ task.doc # fw.doc
          /\ op' = [task |-> task, step |-> "persist"]
          /\ UNCHANGED fw
       \/ /\ task.kind = "apply"
          /\ task.doc = fw.doc
          /\ op' = [task |-> task, step |-> "list"]
          /\ fw' = Confirm(fw, task)
       \/ /\ task.kind = "check"
          /\ op' = [task |-> task, step |-> "list"]
          /\ UNCHANGED fw
       \/ /\ task.kind = "restore"
          /\ op' = [task |-> task, step |-> "load"]
          /\ UNCHANGED fw
    /\ UNCHANGED <<backend, wires, link, stored, table, nic, history, faults>>

\* useDocument: whatever was verified belonged to the previous document.
UseDocument(f, doc) == [f EXCEPT !.doc = doc, !.snap = NoSnap, !.verified = FALSE]

Load ==
    /\ op.step = "load"
    /\ Publish(UseDocument(fw, stored))
    /\ Goto("list")
    /\ UNCHANGED <<backend, wires, queue, stored, table, nic, history, faults>>

Reply(task, result) ==
    up' = IF task.kind = "apply" /\ task.session = link.session
          THEN Send(up, task.session, [type |-> "reply", req |-> task.req, result |-> result])
          ELSE up

\* Dry run, persist, use.  A document nft refuses changes nothing.
Persist ==
    /\ op.step = "persist"
    /\ \/ /\ op.task.doc \in Bad
          /\ op' = Idle
          /\ Reply(op.task, "refused")
          /\ UNCHANGED <<link, fw, stored>>
       \/ /\ op.task.doc \notin Bad
          /\ stored' = op.task.doc
          /\ Publish(Confirm(UseDocument(fw, op.task.doc), op.task))
          /\ Goto("list")
          /\ UNCHANGED up
    /\ UNCHANGED <<backend, down, queue, table, nic, history, faults>>

PersistFails ==
    /\ op.step = "persist"
    /\ faults < MaxFaults
    /\ faults' = faults + 1
    /\ op' = Idle
    /\ Reply(op.task, "failed")
    /\ UNCHANGED <<backend, down, link, fw, queue, stored, table, nic, history>>

\* settle, and the end of the operation: the reply to firewall.apply, the
\* answer to the NIC request; a restore that failed closes egress instead.
Settle(f, verified) ==
    LET g == [f EXCEPT !.verified = verified] IN
    /\ Publish(g)
    /\ op' = IF op.task.kind = "restore" /\ ~verified /\ f.doc # None
             THEN [op EXCEPT !.step = "close"] ELSE Idle
    /\ Reply(op.task, IF verified /\ f.confirmed THEN "ok" ELSE "failed")
    /\ damage' = (damage /\ ~op.task.nic)
    /\ nic' = CASE ~op.task.nic -> nic
                [] op.task.nic /\ Present(g)  -> "up"
                [] op.task.nic /\ ~Present(g) -> "idle"

\* verify: a listing equal to the one taken after the last apply is fine; a
\* passive check leaves a table another server wrote alone; any other is
\* rewritten.
List ==
    /\ op.step = "list"
    /\ \/ Matches /\ Settle(fw, TRUE)
       \/ ~Matches /\ op.task.kind = "check" /\ table = Foreign /\ Settle(fw, FALSE)
       \/ /\ ~Matches
          /\ ~(op.task.kind = "check" /\ table = Foreign)
          /\ fw' = [fw EXCEPT !.snap = NoSnap]
          /\ Goto("install")
          /\ UNCHANGED <<up, link, nic, damage>>
    /\ UNCHANGED <<backend, down, queue, stored, table, floor, faults>>

\* nft cannot list the table: it reads as missing.
ListFails ==
    /\ op.step = "list"
    /\ faults < MaxFaults
    /\ faults' = faults + 1
    /\ fw' = [fw EXCEPT !.snap = NoSnap]
    /\ Goto("install")
    /\ UNCHANGED <<backend, wires, link, queue, stored, table, nic, history>>

Install ==
    /\ op.step = "install"
    /\ table' = Key(fw)
    /\ damage' = FALSE
    /\ Goto("relist")
    /\ UNCHANGED <<backend, wires, link, fw, queue, stored, nic, floor, faults>>

InstallFails ==
    /\ op.step = "install"
    /\ faults < MaxFaults
    /\ faults' = faults + 1
    /\ Settle(fw, FALSE)
    /\ UNCHANGED <<backend, down, queue, stored, table, floor>>

\* The listing after the apply is what later checks compare with; its comment
\* must name this server and this document.
Relist ==
    /\ op.step = "relist"
    /\ \/ /\ table \in {Key(fw), Edited}
          /\ Settle([fw EXCEPT !.snap = [key |-> Key(fw), listing |-> table]], TRUE)
       \/ /\ table \notin {Key(fw), Edited}
          /\ Settle(fw, FALSE)
    /\ UNCHANGED <<backend, down, queue, stored, table, floor, faults>>

\* The stored document did not apply: the fail-closed table takes its place.
CloseEgress ==
    /\ op.step = "close"
    /\ op' = Idle
    /\ \/ /\ table' = Closed
          /\ damage' = FALSE
          /\ Publish([fw EXCEPT !.snap = [key |-> Closed, listing |-> Closed]])
          /\ UNCHANGED faults
       \/ /\ faults < MaxFaults
          /\ faults' = faults + 1
          /\ Publish([fw EXCEPT !.snap = NoSnap])
          /\ UNCHANGED <<table, damage>>
    /\ UNCHANGED <<backend, wires, queue, stored, nic, floor>>

\* External: a firewall reload, an operator or another agent on the host.
Tamper(kind) ==
    /\ faults < MaxFaults
    /\ faults' = faults + 1
    /\ kind = Edited => table \notin {None, Foreign}
    /\ kind # table
    /\ table' = kind
    /\ UNCHANGED <<backend, wires, agent, nic, history>>

-----------------------------------------------------------------------------
Init ==
    /\ rules = 1 /\ changed = FALSE
    /\ cur = 0 /\ open = {} /\ heard = Status(Boot) /\ sync = NoSync
    /\ up = [s \in Sessions |-> <<>>] /\ down = [s \in Sessions |-> <<>>]
    /\ link = Down(0) /\ fw = Boot /\ queue = <<Task("restore")>> /\ op = Idle
    /\ stored \in {None, Contents[1]}
    /\ table = None /\ nic = "idle"
    /\ floor = [s \in Sessions |-> 1] /\ damage = FALSE /\ faults = 0

Operation == StartTask \/ Load \/ Persist \/ List \/ Install \/ Relist \/ CloseEgress

Fault ==
    \/ ReadFails \/ PushTimesOut \/ BackendRestart \/ LinkDropped \/ AgentRestart
    \/ PersistFails \/ ListFails \/ InstallFails
    \/ \E s \in Sessions : SocketDropped(s)
    \/ \E kind \in {None, Edited, Foreign} : Tamper(kind)

Next ==
    \/ ChangeRules \/ RulesChanged \/ ReadRules \/ RetryDue
    \/ \E s \in Sessions : Register(s) \/ SocketGone(s)
    \/ HearStatus \/ HearReply
    \/ Dial \/ Welcome \/ RecvApply \/ SendStatus \/ LinkClosed
    \/ AskCheck \/ AskNic \/ Operation
    \/ Fault

Fairness ==
    /\ WF_vars(RulesChanged) /\ WF_vars(ReadRules) /\ WF_vars(RetryDue)
    /\ \A s \in Sessions : WF_vars(Register(s)) /\ WF_vars(SocketGone(s))
    /\ WF_vars(HearStatus \/ HearReply)
    /\ WF_vars(Dial) /\ WF_vars(Welcome \/ RecvApply) /\ WF_vars(SendStatus) /\ WF_vars(LinkClosed)
    /\ WF_vars(AskCheck) /\ WF_vars(Operation)

Spec == Init /\ [][Next]_vars /\ Fairness

-----------------------------------------------------------------------------
(* Properties *)

HostStatus == [present : BOOLEAN, digest : Docs \cup {None}]
Tables     == Docs \cup {None, Closed, Edited, Foreign}

\* Every variable holds a value the code could hold; one connection is
\* registered at most, and its socket is open.
TypeOK ==
    /\ rules \in Versions /\ changed \in BOOLEAN
    /\ open \subseteq Sessions /\ cur \in open \cup {0}
    /\ heard \in HostStatus
    /\ sync = NoSync \/ sync.pc \in {"idle", "read", "push"}
    /\ (sync = NoSync) = (cur = 0)
    /\ link.session \in {0, link.last} /\ link.sent \in HostStatus
    /\ fw.doc \in Docs \cup {None} /\ fw.snap.listing \in Tables
    /\ stored \in Docs \cup {None} /\ table \in Tables
    /\ op.step \in {"idle", "load", "persist", "list", "install", "relist", "close"}
    /\ nic \in {"idle", "waiting", "up"}

\* The agent lets guest NICs up (GuestFirewall.present) only with a document
\* that was the server's rules at some moment since the control connection was
\* registered: rules committed while the agent was away are never bypassed by
\* the document it kept, by a push that outlived its connection, or by a
\* restart.
PresentIsVouched ==
    Present(fw) => /\ link.welcomed
                   /\ fw.doc \in {Contents[v] : v \in floor[link.session]..rules}

\* A table that was already damaged when the request to bring a NIC up arrived
\* never lets it up: the request waits for a check that starts after it.  (A
\* change made between an apply and its listing becomes the baseline; that one
\* is not seen.)
NicSeesDamage ==
    [][nic = "waiting" /\ nic' = "up" /\ damage => fw.snap.listing = table]_vars

\* What holds once rules and faults come to rest.  The table holds the rules, the
\* agent lets NICs up on the registered connection, and the Backend knows which
\* document it has, unless nft refuses the rules, another server owns the
\* table, or the baseline was spoilt.
InForce ==
    \/ Contents[rules] \in Bad
    \/ table = Foreign
    \/ fw.snap.listing = Edited
    \/ /\ table = Contents[rules]
       /\ Present(fw)
       /\ cur = link.session
       /\ heard.digest = Contents[rules]

\* A table another server wrote is left alone by checks and reported.
ForeignShows == table = Foreign => cur # 0 /\ ~heard.present

\* The Backend has stopped sending, with the rules confirmed or refused.
PushesEnded == sync.pc = "idle" /\ ~sync.retry

\* The rules reach the table, two agents on a host show up instead of
\* overwriting each other, and no document is sent for ever.
RulesReach == <>[](InForce /\ ForeignShows /\ PushesEnded)

\* NICs come up behind the server's own rules only.
NicsAreSafe == TypeOK /\ PresentIsVouched
=============================================================================
