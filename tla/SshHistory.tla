----------------------------- MODULE SshHistory -----------------------------
(***************************************************************************)
(* How the history of SSH connections gets from a proxy into the database.   *)
(* The proxy keeps every record in a bounded outbox until it is              *)
(* acknowledged and sends what a link has not sent yet; the Backend stores   *)
(* the frames of a link in order, acknowledges cumulatively, and closes as   *)
(* lost what nobody reports any more.                                        *)
(*                                                                           *)
(* A connection has two records, its open and its close, each a full image   *)
(* of the connection.  One proxy, whose process may be replaced (inst).  A   *)
(* record of a channel takes the same way as one of a connection; refusal    *)
(* counts, byte counters and the folding of old rows are left out.           *)
(***************************************************************************)
EXTENDS Integers, Sequences

CONSTANTS MaxConns,    \* connections
          Backlog,     \* MAX_HISTORY_BACKLOG
          InFlight,    \* MAX_HISTORY_IN_FLIGHT
          MaxFaults    \* lost links, failed stores, early resends, restarts

ASSUME HistoryConstants ==
    /\ MaxConns \in Nat /\ MaxFaults \in Nat
    /\ Backlog \in Nat \ {0} /\ InFlight \in Nat \ {0}

\* Connections have sequence numbers.
Conns == 1 .. MaxConns

VARIABLES
    conn,       \* none, live, over (closed by the proxy) or gone (ended with the process)
    home,       \* the proxy process of a connection
    inst,       \* the proxy process that runs
    outbox,     \* Outbox.pending
    next,       \* Outbox.next_seq
    wake,       \* HistoryLog.changed holds a permit
    task,       \* run_backend_once: down, idle or sending
    sent,       \* history_sent
    link,       \* down, init (the gateway does not listen yet) or up
    up,         \* frames of this link: on their way or in ProxyLink.chain
    from,       \* ProxyLink.resendFrom, 0 for null
    acks,       \* historyAck frames on their way
    old,        \* the chain of the link before, which still finishes
    row,        \* none, open, lost or closed
    seen,       \* connections whose last_seen_at is recent
    dropped,    \* records the full outbox dropped
    unheard,    \* records sent on a link before the gateway listened
    faults

proxy == <<conn, home, inst, outbox, next, wake, dropped>>
backend == <<from, old, row, seen>>
vars == <<proxy, task, sent, link, up, acks, backend, unheard, faults>>

Faulty == faults < MaxFaults /\ faults' = faults + 1

-----------------------------------------------------------------------------
(* The proxy's log *)

\* push: the oldest records make room.
Push(r) ==
    LET all == Append(outbox, r) IN
      IF Len(all) > Backlog
        THEN outbox' = Tail(all) /\ dropped' = dropped \cup {[conn |-> Head(all).conn, close |-> Head(all).close]}
        ELSE outbox' = all /\ UNCHANGED dropped

Record(c, close) ==
    /\ Push([seq |-> next, conn |-> c, close |-> close])
    /\ next' = next + 1
    /\ wake' = TRUE
    /\ UNCHANGED <<inst, task, sent, link, up, acks, backend, unheard, faults>>

ReportOpened(c) ==
    /\ conn[c] = "none" /\ \A d \in 1 .. c - 1: conn[d] # "none"
    /\ conn' = [conn EXCEPT ![c] = "live"]
    /\ home' = [home EXCEPT ![c] = inst]
    /\ Record(c, FALSE)

ReportClosed(c) ==
    /\ conn[c] = "live"
    /\ conn' = [conn EXCEPT ![c] = "over"]
    /\ UNCHANGED home
    /\ Record(c, TRUE)

\* The process ends with its connections and its outbox; another one starts.
ProxyRestart ==
    /\ Faulty
    /\ conn' = [c \in Conns |->
                  IF conn[c] = "live" \/ \E i \in DOMAIN outbox: outbox[i].conn = c THEN "gone" ELSE conn[c]]
    /\ inst' = inst + 1
    /\ outbox' = <<>> /\ next' = 1 /\ wake' = FALSE /\ task' = "down" /\ sent' = 0
    /\ link' = "down" /\ up' = <<>> /\ acks' = <<>>
    /\ old' = [frames |-> old.frames \o (IF link = "up" THEN up ELSE <<>>), from |-> from]
    /\ from' = 0
    /\ UNCHANGED <<home, row, seen, dropped, unheard>>

-----------------------------------------------------------------------------
(* The proxy's end of the link *)

\* How many records at the front of the outbox have no higher sequence number.
Flying(box, after) ==
    CHOOSE n \in 0 .. Len(box):
      (\A i \in 1 .. n: box[i].seq <= after) /\ (n < Len(box) => box[n + 1].seq > after)

\* What is behind them.
Pending(box, after) == SubSeq(box, Flying(box, after) + 1, Len(box))

\* next_batch: what follows the records in flight and fits the bounds; how many
\* fit a frame depends on their sizes.
Batches(box, after) ==
    LET flying == Flying(box, after)
    IN  {SubSeq(box, flying + 1, flying + k) :
            k \in {k \in 1 .. Len(box): flying + k <= Len(box) /\ flying + k <= InFlight}}

\* send_history begins, or goes on, behind the last record sent.
Sending(box, after) ==
    /\ sent' = after
    /\ task' = IF Batches(box, after) = {} THEN "idle" ELSE "sending"

\* A new link: everything unacknowledged is sent again.
Connect ==
    /\ task = "down"
    /\ link' = "init"
    /\ UNCHANGED <<proxy, up, acks, backend, unheard, faults>>
    /\ Sending(outbox, 0)

\* A step of send_history.  ws drops what arrives before the gateway listens.
SendFrame ==
    /\ task = "sending"
    /\ \E b \in Batches(outbox, sent):
         /\ \/ /\ link # "down"
               /\ up' = Append(up, [kind |-> "history", inst |-> inst, recs |-> b])
               /\ UNCHANGED unheard
            \/ /\ link = "init" /\ up = <<>>
               /\ unheard' = unheard \cup {[conn |-> b[i].conn, close |-> b[i].close] : i \in DOMAIN b}
               /\ UNCHANGED up
            \/ /\ link = "down"
               /\ UNCHANGED <<up, unheard>>
         /\ UNCHANGED <<proxy, link, acks, backend, faults>>
         /\ Sending(outbox, b[Len(b)].seq)

Changed ==
    /\ task = "idle" /\ wake
    /\ wake' = FALSE
    /\ UNCHANGED <<conn, home, inst, outbox, next, dropped, link, up, acks, backend, unheard, faults>>
    /\ Sending(outbox, sent)

\* acknowledge, and send on.
HistoryAck ==
    /\ task = "idle" /\ acks # <<>>
    /\ acks' = Tail(acks)
    /\ outbox' = Pending(outbox, Head(acks))
    /\ UNCHANGED <<conn, home, inst, next, wake, dropped, link, up, backend, unheard, faults>>
    /\ Sending(Pending(outbox, Head(acks)), IF sent > Head(acks) THEN sent ELSE Head(acks))

\* oldest_pending() <= history_sent, without progress for HISTORY_RESEND_AFTER.
Stalled == outbox # <<>> /\ Head(outbox).seq <= sent

\* No records and no acknowledgements are on their way.
Quiet == acks = <<>> /\ \A i \in DOMAIN up: up[i].kind # "history"

Resend ==
    /\ task = "idle" /\ Stalled
    /\ UNCHANGED <<proxy, link, up, acks, backend, unheard>>
    /\ Sending(outbox, 0)

ResendLost == Quiet /\ Resend /\ UNCHANGED faults

\* The answer took longer than HISTORY_RESEND_AFTER.
ResendEarly == ~Quiet /\ Resend /\ Faulty

\* Mutant: what a report omits does not make it incomplete.
CompleteMutant(listed) == outbox = <<>>

\* A report is complete when nothing is omitted and nothing waits to be sent.
Complete(listed) ==
    outbox = <<>> /\ \A c \in Conns: conn[c] = "live" => c \in listed

\* A status report goes out while nothing else is on its way.
Report(listed) ==
    /\ task = "idle" /\ link = "up" /\ up = <<>>
    /\ up' = <<[kind |-> "status", inst |-> inst, listed |-> listed, complete |-> Complete(listed)]>>
    /\ UNCHANGED <<proxy, task, sent, link, acks, backend, unheard>>

Live == {c \in Conns: conn[c] = "live" /\ home[c] = inst}

Status == Report(Live) /\ UNCHANGED faults

\* bounded(): while there are too many connections the newest are left out.
StatusOmits == Faulty /\ Live # {} /\ Report(Live \ {CHOOSE c \in Live: \A d \in Live: d <= c})

\* The link is found dead; acknowledgements under way are lost with it.
Disconnected ==
    /\ task # "down" /\ link = "down"
    /\ task' = "down"
    /\ acks' = <<>>
    /\ UNCHANGED <<proxy, sent, link, up, backend, unheard, faults>>

-----------------------------------------------------------------------------
(* The Backend *)

\* handleConnection has built the first snapshot: from now on it listens.
Listen ==
    /\ link = "init"
    /\ link' = "up"
    /\ UNCHANGED <<proxy, task, sent, up, acks, backend, unheard, faults>>

\* The link breaks and some of its last frames with it, or the Backend ends and
\* its chains too.
LinkLost ==
    /\ link # "down"
    /\ Faulty
    /\ link' = "down" /\ up' = <<>> /\ from' = 0
    /\ \/ \E k \in 0 .. Len(up):
            old' = [frames |-> old.frames \o (IF link = "up" THEN SubSeq(up, 1, k) ELSE <<>>), from |-> from]
       \/ old' = [frames |-> <<>>, from |-> 0]
    /\ UNCHANGED <<proxy, task, sent, acks, row, seen, unheard>>

Reported(recs) == {recs[i].conn : i \in DOMAIN recs}

\* Mutant: the latest record decides.
UpsertedMutant(recs) ==
    [c \in Conns |->
        LET of == SelectSeq(recs, LAMBDA r: r.conn = c) IN
          IF of = <<>> THEN row[c] ELSE IF of[Len(of)].close THEN "closed" ELSE "open"]

\* The rows after a batch: a close is kept once known, and replaces a lost one.
Upserted(recs) ==
    [c \in Conns |->
        IF \E i \in DOMAIN recs: recs[i].conn = c /\ recs[i].close THEN "closed"
        ELSE IF c \in Reported(recs) /\ row[c] = "none" THEN "open"
        ELSE row[c]]

\* Mutant: frames behind a failed one are stored and acknowledged.
WaitsMutant(f, waiting) == FALSE

\* Frames behind a failed one are dropped until it comes again.
Waits(f, waiting) == waiting # 0 /\ f.recs[1].seq > waiting

\* ingest of the next frame in the chain of the current link.
Ingest ==
    /\ link = "up" /\ up # <<>> /\ Head(up).kind = "history"
    /\ LET f == Head(up) IN
         \/ /\ Waits(f, from)
            /\ UNCHANGED <<from, row, seen, acks, faults>>
         \/ /\ ~Waits(f, from)
            /\ from' = 0
            /\ row' = Upserted(f.recs)
            /\ seen' = seen \cup Reported(f.recs)
            /\ acks' = Append(acks, f.recs[Len(f.recs)].seq)
            /\ UNCHANGED faults
         \/ /\ ~Waits(f, from)
            /\ Faulty
            /\ from' = f.recs[1].seq
            /\ UNCHANGED <<row, seen, acks>>
    /\ up' = Tail(up)
    /\ UNCHANGED <<proxy, task, sent, link, old, unheard>>

\* The rows of an instance that a complete report does not list any more.
Missing(f) ==
    {c \in Conns: f.complete /\ row[c] = "open" /\ home[c] = f.inst /\ c \notin f.listed /\ c \notin seen}

Checkpointed(f) ==
    /\ row' = [c \in Conns |-> IF c \in Missing(f) THEN "lost" ELSE row[c]]
    /\ seen' = seen \cup {c \in f.listed: row[c] = "open"}

Checkpoint ==
    /\ link = "up" /\ up # <<>> /\ Head(up).kind = "status"
    /\ Checkpointed(Head(up))
    /\ up' = Tail(up)
    /\ UNCHANGED <<proxy, task, sent, link, acks, from, old, unheard, faults>>

\* The queued writes of a link that is gone: they finish (their own failures are
\* left out), and nobody hears the answer.
OldWrite ==
    /\ old.frames # <<>>
    /\ LET f == Head(old.frames) IN
         IF f.kind = "status" THEN Checkpointed(f) /\ old' = [old EXCEPT !.frames = Tail(@)]
         ELSE IF Waits(f, old.from) THEN old' = [old EXCEPT !.frames = Tail(@)] /\ UNCHANGED <<row, seen>>
         ELSE /\ row' = Upserted(f.recs)
              /\ seen' = seen \cup Reported(f.recs)
              /\ old' = [frames |-> Tail(old.frames), from |-> 0]
    /\ UNCHANGED <<proxy, task, sent, link, up, acks, from, unheard, faults>>

\* Mutant: every instance that ever reported counts as connected.
ConnectedMutant(i) == link = "up"

\* The instances of the links there are.
Connected(i) == link = "up" /\ i = inst

\* closeLost
Sweep ==
    /\ \E c \in Conns: row[c] = "open" /\ c \notin seen /\ ~Connected(home[c])
    /\ row' = [c \in Conns |->
                 IF row[c] = "open" /\ c \notin seen /\ ~Connected(home[c]) THEN "lost" ELSE row[c]]
    /\ UNCHANGED <<proxy, task, sent, link, up, acks, from, old, seen, unheard, faults>>

\* LOST_AFTER passes; what is queued is written long before.
Age ==
    /\ seen # {} /\ Quiet /\ old.frames = <<>>
    /\ seen' = {}
    /\ UNCHANGED <<proxy, task, sent, link, up, acks, from, old, row, unheard, faults>>

-----------------------------------------------------------------------------
Init ==
    /\ conn = [c \in Conns |-> "none"] /\ home = [c \in Conns |-> 0] /\ inst = 0
    /\ outbox = <<>> /\ next = 1 /\ wake = FALSE
    /\ task = "down" /\ sent = 0
    /\ link = "down" /\ up = <<>> /\ from = 0 /\ acks = <<>>
    /\ old = [frames |-> <<>>, from |-> 0]
    /\ row = [c \in Conns |-> "none"] /\ seen = {}
    /\ dropped = {} /\ unheard = {} /\ faults = 0

LoopStep == Connect \/ SendFrame \/ Changed \/ HistoryAck \/ ResendLost
ChainStep == Ingest \/ Checkpoint

Next ==
    \/ \E c \in Conns: ReportOpened(c) \/ ReportClosed(c)
    \/ ProxyRestart \/ LoopStep \/ Disconnected \/ ResendEarly \/ Status \/ StatusOmits
    \/ Listen \/ LinkLost \/ ChainStep \/ OldWrite \/ Sweep \/ Age

\* The loop of the proxy goes on, the chains too, reports and the sweep keep
\* coming.  Nothing is assumed of clients.
Spec ==
    /\ Init /\ [][Next]_vars
    /\ WF_vars(LoopStep) /\ WF_vars(Disconnected) /\ WF_vars(Status)
    /\ WF_vars(Listen) /\ WF_vars(ChainStep) /\ WF_vars(OldWrite) /\ WF_vars(Sweep) /\ WF_vars(Age)

-----------------------------------------------------------------------------
TypeOK ==
    /\ conn \in [Conns -> {"none", "live", "over", "gone"}]
    /\ home \in [Conns -> Nat] /\ inst \in Nat
    /\ Len(outbox) <= Backlog
    /\ \A i \in DOMAIN outbox: outbox[i].seq < next /\ (i > 1 => outbox[i - 1].seq < outbox[i].seq)
    /\ sent < next
    /\ task \in {"down", "idle", "sending"} /\ link \in {"down", "init", "up"}
    /\ row \in [Conns -> {"none", "open", "lost", "closed"}]
    /\ seen \subseteq Conns

\* The record is behind the proxy: acknowledged, not waiting and not dropped by
\* the bound of the outbox.
Settled(c, close) ==
    /\ \A i \in DOMAIN outbox: outbox[i].conn # c \/ outbox[i].close # close
    /\ [conn |-> c, close |-> close] \notin dropped

\* What was acknowledged was stored, although the acknowledgement is cumulative
\* and frames before it may have failed, on this link or on one before.  The
\* exception are records sent before the gateway listened: a later frame is
\* then acknowledged for them too.
AckedIsStored ==
    \A c \in Conns:
      /\ conn[c] \in {"live", "over"} /\ Settled(c, FALSE) /\ [conn |-> c, close |-> FALSE] \notin unheard =>
           row[c] # "none"
      /\ conn[c] = "over" /\ Settled(c, TRUE) /\ [conn |-> c, close |-> TRUE] \notin unheard =>
           row[c] = "closed"

\* The outbox is in order and loses nothing but what its bound drops.
RecordsAreSafe == TypeOK /\ AckedIsStored

\* A close that is known stays, whatever is sent again or finished late; a row
\* that was given up is not reopened; no row disappears.
CloseIsKept ==
    [][\A c \in Conns:
         /\ row[c] = "closed" => row'[c] = "closed"
         /\ row[c] = "lost" => row'[c] \in {"lost", "closed"}
         /\ row[c] = "open" => row'[c] # "none"]_vars

\* A connection is given up only when it has ended, or its proxy is not
\* connected: a report of the proxy never gives up one that lives.
LostIsOver ==
    [][\A c \in Conns:
         row[c] # "lost" /\ row'[c] = "lost" => conn[c] # "live" \/ ~Connected(home[c])]_vars

\* The link waits for a record that the full outbox has dropped meanwhile.
Overrun == from # 0 /\ outbox # <<>> /\ Head(outbox).seq > from

\* In the end the outbox has drained (a failed store was repeated, a lost frame
\* sent again, a notification not missed) and the end of every connection is
\* known, be it as lost, after a dropped close record, a proxy that died or a
\* link that broke - unless the link waits for what cannot come.
Settles ==
    <>[](\/ Overrun
         \/ /\ outbox = <<>>
            /\ \A c \in Conns: conn[c] \in {"over", "gone"} => row[c] # "open")
=============================================================================
