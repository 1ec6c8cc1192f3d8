-------------------------- MODULE SshHistoryProofs --------------------------
(***************************************************************************)
(* The history of SSH connections loses nothing but what its outbox drops    *)
(* or what is sent before anyone listens, keeps every close it knows, and     *)
(* gives up no connection that lives: for any number of connections, any      *)
(* size of the outbox and of what is in flight, and any number of faults.     *)
(***************************************************************************)
EXTENDS SshHistory, SequenceTheorems, TLAPS

-----------------------------------------------------------------------------
(***************************************************************************)
(* The inductive invariant                                                 *)
(***************************************************************************)

Recs == [seq : Nat, conn : Conns, close : BOOLEAN]
HistoryFrames == [kind : {"history"}, inst : Nat, recs : Seq(Recs) \ {<<>>}]
StatusFrames == [kind : {"status"}, inst : Nat, listed : SUBSET Conns, complete : BOOLEAN]
Frames == HistoryFrames \cup StatusFrames

Box == {outbox[i] : i \in 1 .. Len(outbox)}
FirstSeq(f) == f.recs[1].seq
LastSeq(f) == f.recs[Len(f.recs)].seq
Carries(f, r) == f.kind = "history" /\ \E i \in 1 .. Len(f.recs): f.recs[i] = r

Types ==
    /\ conn \in [Conns -> {"none", "live", "over", "gone"}]
    /\ home \in [Conns -> Nat] /\ inst \in Nat
    /\ outbox \in Seq(Recs) /\ Len(outbox) <= Backlog
    /\ next \in Nat \ {0} /\ sent \in Nat /\ sent < next
    /\ task \in {"down", "idle", "sending"} /\ link \in {"down", "init", "up"}
    /\ up \in Seq(Frames) /\ from \in Nat /\ acks \in Seq(Nat)
    /\ old \in [frames : Seq(Frames), from : Nat]
    /\ row \in [Conns -> {"none", "open", "lost", "closed"}]
    /\ seen \subseteq Conns

\* The outbox holds the last records of the log, in order.
BoxOrder ==
    /\ Len(outbox) < next
    /\ \A i \in 1 .. Len(outbox): outbox[i].seq = next - Len(outbox) + i - 1

\* Without a link nothing is on its way to the Backend.
LinkEnds ==
    /\ link = "down" => up = <<>> /\ from = 0
    /\ task = "down" => link = "down"

\* A frame has every record that waits between its first and its last.
FramesCover ==
    \A k \in 1 .. Len(up): up[k].kind = "history" =>
      /\ FirstSeq(up[k]) \in Nat /\ LastSeq(up[k]) \in Nat
      /\ 1 <= FirstSeq(up[k]) /\ FirstSeq(up[k]) <= LastSeq(up[k]) /\ LastSeq(up[k]) < next
      /\ \A i \in 1 .. Len(up[k].recs): FirstSeq(up[k]) <= up[k].recs[i].seq /\ up[k].recs[i].seq <= LastSeq(up[k])
      /\ \A r \in Box: FirstSeq(up[k]) <= r.seq /\ r.seq <= LastSeq(up[k]) => Carries(up[k], r)

Done(r) ==
    \/ IF r.close THEN row[r.conn] = "closed" ELSE row[r.conn] # "none"
    \/ [conn |-> r.conn, close |-> r.close] \in unheard

\* Where the history of the link continues: at a frame of it, or behind the last
\* record sent.
Marks == {k \in 1 .. Len(up): up[k].kind = "history"} \cup (IF link = "down" THEN {} ELSE {Len(up) + 1})
Mark(k) == IF k <= Len(up) THEN FirstSeq(up[k]) ELSE sent + 1

Held(r) == from # 0 /\ from <= r.seq

\* What a frame of the link goes past is stored, comes before it, or is at or
\* behind the record whose store failed.
Reached ==
    \A k \in Marks: \A r \in Box: r.seq < Mark(k) =>
      Done(r) \/ Held(r) \/ \E j \in 1 .. k - 1: Carries(up[j], r)

\* The frames of a link leave no gaps.
NoGaps ==
    \A k \in Marks: \A j \in 1 .. k - 1: \A r \in Box:
      up[j].kind = "history" /\ LastSeq(up[j]) < r.seq /\ r.seq < Mark(k) =>
        \E i \in j + 1 .. k - 1: Carries(up[i], r)

\* What an acknowledgement on its way covers is stored.
AcksGood ==
    \A i \in 1 .. Len(acks): acks[i] < next /\ \A r \in Box: r.seq <= acks[i] => Done(r)

\* Only connections there are have records and rows.
Known ==
    /\ \A i \in 1 .. Len(outbox): conn[outbox[i].conn] # "none"
    /\ \A k \in 1 .. Len(up): up[k].kind = "history" => \A i \in 1 .. Len(up[k].recs): conn[up[k].recs[i].conn] # "none"
    /\ \A k \in 1 .. Len(old.frames): old.frames[k].kind = "history" =>
          \A i \in 1 .. Len(old.frames[k].recs): conn[old.frames[k].recs[i].conn] # "none"
    /\ \A c \in Conns: row[c] # "none" => conn[c] # "none"

\* A report has the link to itself.
ReportFirst ==
    /\ \A k \in 1 .. Len(up): up[k].kind = "status" => k = 1
    /\ \A k \in 1 .. Len(up): up[k].inst = inst

InOld(c) == \E k \in 1 .. Len(old.frames): old.frames[k].kind = "history" /\
               \E i \in 1 .. Len(old.frames[k].recs): old.frames[k].recs[i].conn = c

\* A live connection that the complete report on its way does not list was
\* opened after it, so nothing of it is stored or about to be.
StatusUp ==
    up # <<>> /\ up[1].kind = "status" /\ up[1].complete =>
      \A c \in Conns: conn[c] = "live" /\ c \notin up[1].listed => row[c] = "none" /\ ~InOld(c)

\* One of a link that is gone may meet the row of such a connection, but only
\* one stored a moment ago.
StatusOld ==
    \A k \in 1 .. Len(old.frames): old.frames[k].kind = "status" /\ old.frames[k].complete =>
      \A c \in Conns: conn[c] = "live" /\ home[c] = old.frames[k].inst /\ c \notin old.frames[k].listed =>
        row[c] # "open" \/ c \in seen

HInv ==
    /\ Types /\ BoxOrder /\ LinkEnds /\ FramesCover /\ Reached /\ NoGaps /\ AcksGood
    /\ Known /\ ReportFirst /\ StatusUp /\ StatusOld /\ AckedIsStored

-----------------------------------------------------------------------------
(***************************************************************************)
(* The outbox                                                              *)
(***************************************************************************)

\* What the two kinds of frames are made of.
LEMMA FrameKinds ==
    ASSUME NEW f \in Frames
    PROVE  /\ f.kind \in {"history", "status"} /\ f.inst \in Nat
           /\ f.kind = "history" => f.recs \in Seq(Recs) /\ f.recs # <<>> /\ Len(f.recs) \in Nat \ {0}
           /\ f.kind = "status" => f.listed \subseteq Conns /\ f.complete \in BOOLEAN
<1>1. CASE f \in HistoryFrames
    <2>1. f.kind = "history" /\ f.inst \in Nat /\ f.recs \in Seq(Recs) /\ f.recs # <<>>
        BY <1>1 DEF HistoryFrames
    <2>2. Len(f.recs) \in Nat \ {0}
        BY <2>1, EmptySeq
    <2> QED
        BY <2>1, <2>2
<1>2. CASE f \in StatusFrames
    BY <1>2 DEF StatusFrames
<1> QED
    BY <1>1, <1>2 DEF Frames

\* The frame that a chain takes next.
LEMMA NextFrame ==
    ASSUME NEW s \in Seq(Frames), s # <<>>
    PROVE  Head(s) \in Frames /\ Head(s) = s[1] /\ 1 \in 1 .. Len(s)
<1>1. Len(s) \in Nat \ {0}
    BY EmptySeq
<1> QED
    BY <1>1, ElementOfSeq

\* The records of a frame.
LEMMA RecordIs ==
    ASSUME NEW f \in Frames, f.kind = "history", NEW i \in 1 .. Len(f.recs)
    PROVE  f.recs[i] \in Recs /\ f.recs[i].seq \in Nat /\ f.recs[i].conn \in Conns /\ f.recs[i].close \in BOOLEAN
<1>1. f.recs \in Seq(Recs)
    BY FrameKinds
<1>2. f.recs[i] \in Recs
    BY <1>1, ElementOfSeq
<1> QED
    BY <1>2 DEF Recs

\* The records of the outbox, by position and by number.
LEMMA BoxIs ==
    ASSUME Types, BoxOrder
    PROVE  /\ Len(outbox) \in Nat
           /\ \A i \in 1 .. Len(outbox): outbox[i] \in Box /\ outbox[i] \in Recs
           /\ \A r \in Box: /\ r \in Recs /\ r.seq \in Nat /\ r.conn \in Conns /\ r.close \in BOOLEAN
                            /\ 1 <= r.seq /\ r.seq < next
                            /\ \E i \in 1 .. Len(outbox): r = outbox[i]
<1>1. Len(outbox) \in Nat /\ \A i \in 1 .. Len(outbox): outbox[i] \in Recs
    BY ElementOfSeq, LenProperties DEF Types
<1>2. \A i \in 1 .. Len(outbox): 1 <= outbox[i].seq /\ outbox[i].seq < next
    BY <1>1 DEF BoxOrder, Types
<1>3. \A r \in Recs: r.seq \in Nat /\ r.conn \in Conns /\ r.close \in BOOLEAN
    BY DEF Recs
<1> QED
    BY <1>1, <1>2, <1>3 DEF Box

\* take_while: as many records are in flight as have been sent, and the rest is
\* what has not.
LEMMA FlyingIs ==
    ASSUME Types, BoxOrder, NEW after \in Nat
    PROVE  LET n == Flying(outbox, after)
           IN  /\ n \in 0 .. Len(outbox)
               /\ \A i \in 1 .. n: outbox[i].seq <= after
               /\ \A i \in n + 1 .. Len(outbox): outbox[i].seq > after
<1> DEFINE P(n) == (\A i \in 1 .. n: outbox[i].seq <= after) /\ (n < Len(outbox) => outbox[n + 1].seq > after)
<1>1. PICK len \in Nat, base \in Nat \ {0}:
        /\ len = Len(outbox) /\ base = next - Len(outbox) /\ next = base + len
        /\ \A i \in 1 .. len: outbox[i].seq = base + i - 1
    <2>1. PICK len \in Nat, base \in Nat \ {0}: len = Len(outbox) /\ base = next - len /\ next = base + len
        BY BoxIs DEF BoxOrder, Types
    <2>2. \A i \in 1 .. len: outbox[i].seq = base + i - 1
        BY <2>1 DEF BoxOrder
    <2> QED
        BY <2>1, <2>2
<1>2. \E x \in 0 .. Len(outbox): P(x)
    <2>1. PICK x \in 0 .. len:
            /\ after < base => x = 0
            /\ after >= base + len => x = len
            /\ base <= after /\ after < base + len => x = after - base + 1
        <3>1. CASE after < base
            BY <3>1
        <3>2. CASE after >= base + len
            BY <3>2
        <3>3. CASE base <= after /\ after < base + len
            <4>1. after - base + 1 \in 0 .. len
                BY <3>3
            <4> QED
                BY <3>3, <4>1
        <3> QED
            BY <3>1, <3>2, <3>3
    <2>2. x \in 0 .. len
        BY <2>1
    <2>3. ASSUME NEW i \in 1 .. x
          PROVE  outbox[i].seq <= after
        <3>1. i \in 1 .. len /\ base + i - 1 <= after
            BY <2>1, <2>2
        <3> QED
            BY <1>1, <3>1
    <2>4. ASSUME x < len
          PROVE  outbox[x + 1].seq > after
        <3>1. x + 1 \in 1 .. len /\ base + (x + 1) - 1 > after
            BY <2>1, <2>4
        <3> QED
            BY <1>1, <3>1
    <2> QED
        BY <1>1, <2>2, <2>3, <2>4
<1>3. PICK n \in 0 .. len: n = Flying(outbox, after) /\ P(n)
    <2>1. Flying(outbox, after) = CHOOSE x \in 0 .. Len(outbox): P(x)
        BY DEF Flying
    <2> HIDE DEF P
    <2> QED
        BY <1>1, <1>2, <2>1
<1>4. ASSUME NEW i \in n + 1 .. Len(outbox)
      PROVE  outbox[i].seq > after
    <2>1. n < len /\ n + 1 \in 1 .. len /\ i \in 1 .. len /\ n + 1 <= i
        BY <1>1
    <2>2. outbox[n + 1].seq > after
        BY <1>1, <1>3, <2>1
    <2>3. outbox[n + 1].seq = base + (n + 1) - 1 /\ outbox[i].seq = base + i - 1
        BY <1>1, <2>1
    <2> QED
        BY <2>1, <2>2, <2>3
<1> QED
    BY <1>1, <1>3, <1>4

\* next_batch: a frame begins behind what was sent and leaves nothing out.
LEMMA BatchIs ==
    ASSUME Types, BoxOrder, NEW b \in Batches(outbox, sent)
    PROVE  LET f == [kind |-> "history", inst |-> inst, recs |-> b]
           IN  /\ f \in Frames
               /\ Len(b) \in Nat \ {0}
               /\ \A i \in 1 .. Len(b): b[i] \in Box
               /\ FirstSeq(f) \in Nat /\ LastSeq(f) \in Nat
               /\ sent < FirstSeq(f) /\ FirstSeq(f) <= LastSeq(f) /\ LastSeq(f) < next
               /\ \A i \in 1 .. Len(b): FirstSeq(f) <= b[i].seq /\ b[i].seq <= LastSeq(f)
               /\ \A r \in Box: FirstSeq(f) <= r.seq /\ r.seq <= LastSeq(f) => Carries(f, r)
               /\ \A r \in Box: r.seq < FirstSeq(f) => r.seq <= sent
<1> DEFINE f == [kind |-> "history", inst |-> inst, recs |-> b]
<1>0. PICK len \in Nat, base \in Nat \ {0}: len = Len(outbox) /\ base = next - len /\ next = base + len
    BY BoxIs DEF BoxOrder, Types
<1>1. \A i \in 1 .. len: outbox[i].seq = base + i - 1 /\ outbox[i] \in Recs /\ outbox[i] \in Box
    BY <1>0, BoxIs DEF BoxOrder
<1>2. PICK n \in 0 .. len:
        /\ n = Flying(outbox, sent)
        /\ \A i \in 1 .. n: outbox[i].seq <= sent
        /\ \A i \in n + 1 .. len: outbox[i].seq > sent
    BY <1>0, FlyingIs DEF Types
<1>3. PICK k \in 1 .. len: n + k <= len /\ b = SubSeq(outbox, n + 1, n + k)
    <2>1. PICK k \in 1 .. Len(outbox): /\ Flying(outbox, sent) + k <= Len(outbox)
                                       /\ b = SubSeq(outbox, Flying(outbox, sent) + 1, Flying(outbox, sent) + k)
        BY DEF Batches
    <2> QED
        BY <1>0, <1>2, <2>1
<1>4. n \in Nat /\ k \in Nat \ {0} /\ n + 1 \in 1 .. len + 1 /\ n + k \in n .. len
    <2>1. n + k <= len
        BY <1>3
    <2> QED
        BY <2>1
<1>5. /\ b \in Seq(Recs) /\ Len(b) = k
      /\ \A i \in 1 .. k: b[i] = outbox[n + i] /\ n + i \in 1 .. len
    <2>1. n + 1 \in 1 .. Len(outbox) + 1 /\ n + k \in n + 1 - 1 .. Len(outbox) /\ outbox \in Seq(Recs)
        BY <1>0, <1>4 DEF Types
    <2>2. /\ SubSeq(outbox, n + 1, n + k) \in Seq(Recs)
          /\ Len(SubSeq(outbox, n + 1, n + k)) = (IF n + 1 <= n + k THEN n + k - (n + 1) + 1 ELSE 0)
          /\ \A i \in 1 .. n + k - (n + 1) + 1: SubSeq(outbox, n + 1, n + k)[i] = outbox[n + 1 + i - 1]
        BY <2>1, SubSeqProperties
    <2>3. n + 1 <= n + k /\ n + k - (n + 1) + 1 = k
        BY <1>4
    <2>4. \A i \in 1 .. k: n + 1 + i - 1 = n + i /\ n + i \in 1 .. len
        BY <1>4
    <2> QED
        BY <1>3, <2>2, <2>3, <2>4
<1>6. \A i \in 1 .. k: b[i].seq = base + n + i - 1
    <2> SUFFICES ASSUME NEW i \in 1 .. k PROVE b[i].seq = base + n + i - 1
        OBVIOUS
    <2>1. b[i] = outbox[n + i] /\ n + i \in 1 .. len
        BY <1>5
    <2>2. outbox[n + i].seq = base + (n + i) - 1
        BY <1>1, <2>1
    <2> QED
        BY <1>4, <2>1, <2>2
<1>7. FirstSeq(f) = base + n /\ LastSeq(f) = base + n + k - 1
    <2>1. 1 \in 1 .. k /\ k \in 1 .. k
        BY <1>4
    <2>2. b[1].seq = base + n + 1 - 1 /\ b[k].seq = base + n + k - 1
        BY <1>6, <2>1
    <2> QED
        BY <1>4, <1>5, <2>2 DEF FirstSeq, LastSeq
<1>8. f \in Frames
    <2>1. b # <<>>
        BY <1>4, <1>5
    <2> QED
        BY <1>5, <2>1 DEF Frames, HistoryFrames, Types
<1>9. sent < FirstSeq(f) /\ FirstSeq(f) <= LastSeq(f) /\ LastSeq(f) < next
    <2>1. n + k <= len /\ n + 1 <= len
        BY <1>3, <1>4
    <2>2. n + 1 \in n + 1 .. len /\ n + 1 \in 1 .. len
        BY <1>4, <2>1
    <2>3. outbox[n + 1].seq > sent
        BY <1>2, <2>2
    <2>4. outbox[n + 1].seq = base + (n + 1) - 1
        BY <1>1, <2>2
    <2>5. outbox[n + 1].seq = base + n
        BY <1>4, <2>4
    <2>6. sent < base + n /\ base + n <= base + n + k - 1 /\ base + n + k - 1 < base + len
        BY <1>4, <2>1, <2>3, <2>5 DEF Types
    <2> QED
        BY <1>0, <1>7, <2>6
<1>10. ASSUME NEW r \in Box, FirstSeq(f) <= r.seq, r.seq <= LastSeq(f)
       PROVE  Carries(f, r)
    <2>1. PICK i \in 1 .. len: r = outbox[i]
        BY <1>0, BoxIs
    <2>2. r.seq = base + i - 1 /\ i \in Nat
        BY <1>1, <2>1
    <2>3. i - n \in 1 .. k /\ n + (i - n) = i
        BY <1>1, <1>4, <1>7, <1>10, <2>2
    <2>4. b[i - n] = r
        BY <1>5, <2>1, <2>3
    <2> QED
        BY <1>5, <2>3, <2>4 DEF Carries
<1>11. ASSUME NEW r \in Box, r.seq < FirstSeq(f)
       PROVE  r.seq <= sent
    <2>1. PICK i \in 1 .. len: r = outbox[i]
        BY <1>0, BoxIs
    <2>2. r.seq = base + i - 1 /\ i \in Nat
        BY <1>1, <2>1
    <2>3. i \in 1 .. n
        BY <1>1, <1>4, <1>7, <1>11, <2>1, <2>2
    <2> QED
        BY <1>2, <2>1, <2>3
<1>12. /\ Len(b) \in Nat \ {0}
       /\ \A i \in 1 .. Len(b): b[i] \in Box /\ FirstSeq(f) <= b[i].seq /\ b[i].seq <= LastSeq(f)
       /\ FirstSeq(f) \in Nat /\ LastSeq(f) \in Nat
    <2>1. FirstSeq(f) \in Nat /\ LastSeq(f) \in Nat
        BY <1>4, <1>7
    <2> SUFFICES ASSUME NEW i \in 1 .. k
                 PROVE  b[i] \in Box /\ FirstSeq(f) <= b[i].seq /\ b[i].seq <= LastSeq(f)
        BY <1>4, <1>5, <2>1
    <2>2. b[i] \in Box
        BY <1>1, <1>5
    <2>3. b[i].seq = base + n + i - 1
        BY <1>6
    <2> QED
        BY <1>4, <1>7, <2>2, <2>3
<1> QED
    BY <1>8, <1>9, <1>10, <1>11, <1>12

-----------------------------------------------------------------------------
(***************************************************************************)
(* What is on its way                                                      *)
(***************************************************************************)

\* The frames of the link.
LEMMA UpIs ==
    ASSUME Types
    PROVE  Len(up) \in Nat /\ \A k \in 1 .. Len(up): up[k] \in Frames
BY ElementOfSeq, LenProperties DEF Types

\* Marks stand at positions of the link, or right behind it.
LEMMA MarksAre ==
    ASSUME Types, FramesCover, NEW k \in Marks
    PROVE  /\ k \in Nat /\ 1 <= k /\ k <= Len(up) + 1 /\ Mark(k) \in Nat /\ Mark(k) <= next
           /\ k <= Len(up) => up[k].kind = "history"
           /\ k = Len(up) + 1 => link # "down" /\ Mark(k) = sent + 1
<1>1. Len(up) \in Nat /\ next \in Nat /\ sent \in Nat /\ sent < next
    BY UpIs DEF Types
<1>2. CASE k \in {i \in 1 .. Len(up): up[i].kind = "history"}
    <2>1. k \in 1 .. Len(up) /\ up[k].kind = "history"
        BY <1>2
    <2>2. k \in Nat /\ 1 <= k /\ k <= Len(up) /\ k # Len(up) + 1
        BY <1>1, <2>1
    <2>3. /\ FirstSeq(up[k]) \in Nat /\ LastSeq(up[k]) \in Nat
          /\ FirstSeq(up[k]) <= LastSeq(up[k]) /\ LastSeq(up[k]) < next
        BY <2>1 DEF FramesCover
    <2>4. Mark(k) = FirstSeq(up[k])
        BY <2>2 DEF Mark
    <2> QED
        BY <1>1, <2>1, <2>2, <2>3, <2>4
<1>3. CASE link # "down" /\ k = Len(up) + 1
    <2>1. k \in Nat /\ 1 <= k /\ ~(k <= Len(up))
        BY <1>1, <1>3
    <2>2. Mark(k) = sent + 1
        BY <2>1 DEF Mark
    <2> QED
        BY <1>1, <1>3, <2>1, <2>2
<1> QED
    BY <1>2, <1>3 DEF Marks

\* A step that leaves the frames of the link alone: new records come behind all
\* of them, and sending goes on where it was or starts before all that waits.
LEMMA LinkAtRest ==
    ASSUME Types, Types', BoxOrder, BoxOrder', FramesCover, Reached, NoGaps,
           up' = up, from' = from, next <= next',
           \A r \in Box': r \in Box \/ r.seq >= next,
           \A r \in Box: Done(r) => Done(r)',
           link' = "down" \/ (link # "down" /\ sent' = sent) \/ \A r \in Box': r.seq > sent'
    PROVE  FramesCover' /\ Reached' /\ NoGaps'
<1>1. Len(up) \in Nat /\ next \in Nat /\ next' \in Nat /\ sent \in Nat /\ sent' \in Nat /\ sent < next
    BY UpIs DEF Types
<1>2. \A r \in Box': r.seq \in Nat
    <2>1. \A i \in 1 .. Len(outbox'): outbox'[i] \in Recs
        BY ElementOfSeq DEF Types
    <2> QED
        BY <2>1 DEF Box, Recs
<1>3. FramesCover'
    <2> SUFFICES ASSUME NEW k \in 1 .. Len(up), up[k].kind = "history"
                 PROVE  /\ FirstSeq(up[k]) \in Nat /\ LastSeq(up[k]) \in Nat
                        /\ 1 <= FirstSeq(up[k]) /\ FirstSeq(up[k]) <= LastSeq(up[k]) /\ LastSeq(up[k]) < next'
                        /\ \A i \in 1 .. Len(up[k].recs): FirstSeq(up[k]) <= up[k].recs[i].seq /\ up[k].recs[i].seq <= LastSeq(up[k])
                        /\ \A r \in Box': FirstSeq(up[k]) <= r.seq /\ r.seq <= LastSeq(up[k]) => Carries(up[k], r)
        BY DEF FramesCover, FirstSeq, LastSeq, Carries
    <2>1. /\ FirstSeq(up[k]) \in Nat /\ LastSeq(up[k]) \in Nat
          /\ 1 <= FirstSeq(up[k]) /\ FirstSeq(up[k]) <= LastSeq(up[k]) /\ LastSeq(up[k]) < next
          /\ \A i \in 1 .. Len(up[k].recs): FirstSeq(up[k]) <= up[k].recs[i].seq /\ up[k].recs[i].seq <= LastSeq(up[k])
          /\ \A r \in Box: FirstSeq(up[k]) <= r.seq /\ r.seq <= LastSeq(up[k]) => Carries(up[k], r)
        BY DEF FramesCover
    <2>2. LastSeq(up[k]) < next'
        BY <1>1, <2>1
    <2>3. ASSUME NEW r \in Box', FirstSeq(up[k]) <= r.seq, r.seq <= LastSeq(up[k])
          PROVE  Carries(up[k], r)
        <3>1. r \in Box
            BY <1>1, <1>2, <2>1, <2>3
        <3> QED
            BY <2>1, <2>3, <3>1
    <2> QED
        BY <2>1, <2>2, <2>3
<1>4. ASSUME NEW k \in Marks', NEW r \in Box', r.seq < Mark(k)'
      PROVE  k \in Marks /\ r \in Box /\ r.seq < Mark(k)
    <2>1. \/ k \in 1 .. Len(up) /\ up[k].kind = "history"
          \/ k = Len(up) + 1 /\ link' # "down"
        BY DEF Marks
    <2>2. CASE k \in 1 .. Len(up) /\ up[k].kind = "history"
        <3>1. k \in Marks /\ k <= Len(up)
            BY <1>1, <2>2 DEF Marks
        <3>2. Mark(k)' = Mark(k)
            BY <3>1 DEF Mark, FirstSeq
        <3>3. Mark(k) \in Nat /\ Mark(k) <= next
            BY <3>1, MarksAre
        <3>4. r \in Box
            BY <1>1, <1>2, <1>4, <3>2, <3>3
        <3> QED
            BY <1>4, <3>1, <3>2, <3>4
    <2>3. CASE k = Len(up) + 1 /\ link' # "down"
        <3>1. Mark(k)' = sent' + 1 /\ Mark(k) = sent + 1
            <4>1. ~(k <= Len(up))
                BY <1>1, <2>3
            <4> QED
                BY <4>1 DEF Mark
        <3>2. link # "down" /\ sent' = sent
            BY <1>1, <1>2, <1>4, <2>3, <3>1
        <3>3. k \in Marks
            BY <2>3, <3>2 DEF Marks
        <3>4. r \in Box
            BY <1>1, <1>2, <1>4, <3>1, <3>2
        <3> QED
            BY <1>4, <3>1, <3>2, <3>3, <3>4
    <2> QED
        BY <2>1, <2>2, <2>3
<1>5. Reached'
    <2> SUFFICES ASSUME NEW k \in Marks', NEW r \in Box', r.seq < Mark(k)'
                 PROVE  Done(r)' \/ Held(r) \/ \E j \in 1 .. k - 1: Carries(up[j], r)
        BY DEF Reached, Held, Carries
    <2>1. k \in Marks /\ r \in Box /\ r.seq < Mark(k)
        BY <1>4
    <2> QED
        BY <2>1 DEF Reached
<1>6. NoGaps'
    <2> SUFFICES ASSUME NEW k \in Marks', NEW j \in 1 .. k - 1, NEW r \in Box',
                        up[j].kind = "history", LastSeq(up[j]) < r.seq, r.seq < Mark(k)'
                 PROVE  \E i \in j + 1 .. k - 1: Carries(up[i], r)
        BY DEF NoGaps, LastSeq, Carries
    <2>1. k \in Marks /\ r \in Box /\ r.seq < Mark(k)
        BY <1>4
    <2> QED
        BY <2>1 DEF NoGaps
<1> QED
    BY <1>3, <1>5, <1>6

\* The chain takes the first frame of the link.  What it carries is stored, or at
\* or behind the record whose store failed; and a record waited for is still
\* waited for, or not before this frame.
LEMMA FrameTaken ==
    ASSUME Types, Types', BoxOrder, FramesCover, Reached, NoGaps,
           link = "up", link' = "up", up # <<>>, up' = Tail(up),
           outbox' = outbox, next' = next, sent' = sent,
           \A r \in Box: Done(r) => Done(r)',
           \A r \in Box: Carries(up[1], r) => Done(r)' \/ Held(r)',
           \A r \in Box: Held(r) => Held(r)' \/ (up[1].kind = "history" /\ FirstSeq(up[1]) <= r.seq)
    PROVE  FramesCover' /\ Reached' /\ NoGaps'
<1>1. Len(up) \in Nat \ {0} /\ Len(up') = Len(up) - 1 /\ \A j \in 1 .. Len(up'): up'[j] = up[j + 1] /\ j + 1 \in 1 .. Len(up)
    <2>1. up \in Seq(Frames) /\ up # <<>>
        BY DEF Types
    <2>2. Len(up) \in Nat \ {0} /\ Len(Tail(up)) = Len(up) - 1 /\ \A j \in 1 .. Len(Tail(up)): Tail(up)[j] = up[j + 1]
        BY <2>1, EmptySeq, HeadTailProperties
    <2> QED
        BY <2>2
<1>2. Box' = Box
    BY DEF Box
<1>3. \A r \in Box: r.seq \in Nat
    BY BoxIs
<1>4. FramesCover'
    <2> SUFFICES ASSUME NEW k \in 1 .. Len(up'), up'[k].kind = "history"
                 PROVE  /\ FirstSeq(up'[k]) \in Nat /\ LastSeq(up'[k]) \in Nat
                        /\ 1 <= FirstSeq(up'[k]) /\ FirstSeq(up'[k]) <= LastSeq(up'[k]) /\ LastSeq(up'[k]) < next
                        /\ \A i \in 1 .. Len(up'[k].recs): FirstSeq(up'[k]) <= up'[k].recs[i].seq /\ up'[k].recs[i].seq <= LastSeq(up'[k])
                        /\ \A r \in Box: FirstSeq(up'[k]) <= r.seq /\ r.seq <= LastSeq(up'[k]) => Carries(up'[k], r)
        BY <1>2 DEF FramesCover, FirstSeq, LastSeq, Carries
    <2>1. up'[k] = up[k + 1] /\ k + 1 \in 1 .. Len(up)
        BY <1>1
    <2> QED
        BY <2>1 DEF FramesCover
<1>5. ASSUME NEW k \in Marks'
      PROVE  k \in Nat /\ 1 <= k /\ k + 1 \in Marks /\ Mark(k)' = Mark(k + 1) /\ k - 1 <= Len(up')
    <2>1. k \in {i \in 1 .. Len(up'): up'[i].kind = "history"} \/ k = Len(up') + 1
        BY DEF Marks
    <2>2. CASE k \in {i \in 1 .. Len(up'): up'[i].kind = "history"}
        <3>1. k \in 1 .. Len(up') /\ up'[k].kind = "history" /\ up'[k] = up[k + 1] /\ k + 1 \in 1 .. Len(up)
            BY <1>1, <2>2
        <3>2. k \in Nat /\ 1 <= k /\ k - 1 <= Len(up') /\ k <= Len(up') /\ k + 1 <= Len(up)
            BY <1>1, <3>1
        <3>3. k + 1 \in Marks
            BY <3>1 DEF Marks
        <3>4. Mark(k)' = FirstSeq(up'[k]) /\ Mark(k + 1) = FirstSeq(up[k + 1])
            BY <3>2 DEF Mark, FirstSeq
        <3> QED
            BY <3>1, <3>2, <3>3, <3>4 DEF FirstSeq
    <2>3. CASE k = Len(up') + 1
        <3>1. k + 1 = Len(up) + 1 /\ k \in Nat /\ 1 <= k /\ k - 1 <= Len(up') /\ ~(k <= Len(up')) /\ ~(k + 1 <= Len(up))
            BY <1>1, <2>3
        <3>2. k + 1 \in Marks
            BY <3>1 DEF Marks
        <3>3. Mark(k)' = sent + 1 /\ Mark(k + 1) = sent + 1
            BY <3>1 DEF Mark
        <3> QED
            BY <3>1, <3>2, <3>3
    <2> QED
        BY <2>1, <2>2, <2>3
<1>6. ASSUME NEW k \in Marks', NEW j \in 1 .. k - 1
      PROVE  j \in 1 .. Len(up') /\ up'[j] = up[j + 1] /\ j + 1 \in 1 .. Len(up)
    <2>1. j \in 1 .. Len(up')
        BY <1>1, <1>5
    <2> QED
        BY <1>1, <2>1
<1>7. ASSUME NEW k \in Marks', NEW i \in 2 .. (k + 1) - 1, NEW r \in Box, Carries(up[i], r)
      PROVE  i - 1 \in 1 .. k - 1 /\ Carries(up'[i - 1], r)
    <2>1. i - 1 \in 1 .. k - 1 /\ i - 1 + 1 = i
        BY <1>5
    <2> QED
        BY <1>6, <1>7, <2>1
<1>8. Reached'
    <2> SUFFICES ASSUME NEW k \in Marks', NEW r \in Box, r.seq < Mark(k)'
                 PROVE  Done(r)' \/ Held(r)' \/ \E j \in 1 .. k - 1: Carries(up'[j], r)
        BY <1>2 DEF Reached, Carries
    <2>1. k \in Nat /\ 1 <= k /\ k + 1 \in Marks /\ r.seq < Mark(k + 1)
        BY <1>5
    <2>2. Done(r) \/ Held(r) \/ \E j \in 1 .. (k + 1) - 1: Carries(up[j], r)
        BY <2>1 DEF Reached
    <2>3. ASSUME NEW j \in 1 .. (k + 1) - 1, Carries(up[j], r), j # 1
          PROVE  \E i \in 1 .. k - 1: Carries(up'[i], r)
        <3>1. j \in 2 .. (k + 1) - 1
            BY <2>1, <2>3
        <3> QED
            BY <1>7, <2>3, <3>1
    <2>4. CASE Held(r) /\ up[1].kind = "history" /\ FirstSeq(up[1]) <= r.seq
        <3>1. /\ 1 \in 1 .. Len(up) /\ 1 \in 1 .. (k + 1) - 1
              /\ FirstSeq(up[1]) \in Nat /\ LastSeq(up[1]) \in Nat
            BY <1>1, <2>1, <2>4 DEF FramesCover
        <3>2. CASE r.seq <= LastSeq(up[1])
            BY <2>4, <3>1, <3>2 DEF FramesCover
        <3>3. CASE LastSeq(up[1]) < r.seq
            <4>1. PICK i \in 1 + 1 .. (k + 1) - 1: Carries(up[i], r)
                BY <2>1, <2>4, <3>1, <3>3 DEF NoGaps
            <4>2. i \in 2 .. (k + 1) - 1
                BY <4>1
            <4> QED
                BY <1>7, <4>1, <4>2
        <3>4. r.seq <= LastSeq(up[1]) \/ LastSeq(up[1]) < r.seq
            BY <1>3, <3>1
        <3> QED
            BY <3>2, <3>3, <3>4
    <2> QED
        BY <2>2, <2>3, <2>4
<1>9. NoGaps'
    <2> SUFFICES ASSUME NEW k \in Marks', NEW j \in 1 .. k - 1, NEW r \in Box,
                        up'[j].kind = "history", LastSeq(up'[j]) < r.seq, r.seq < Mark(k)'
                 PROVE  \E i \in j + 1 .. k - 1: Carries(up'[i], r)
        <3>1. (\A k \in Marks': \A j \in 1 .. k - 1: \A r \in Box:
                 up'[j].kind = "history" /\ LastSeq(up'[j]) < r.seq /\ r.seq < Mark(k)' =>
                   \E i \in j + 1 .. k - 1: Carries(up'[i], r)) => NoGaps'
            BY <1>2 DEF NoGaps, LastSeq, Carries
        <3> QED
            BY <3>1
    <2>1. k \in Nat /\ k + 1 \in Marks /\ r.seq < Mark(k + 1)
        BY <1>5
    <2>2. up'[j] = up[j + 1] /\ j + 1 \in 1 .. (k + 1) - 1
        BY <1>6, <2>1
    <2>3. PICK i \in (j + 1) + 1 .. (k + 1) - 1: Carries(up[i], r)
        BY <2>1, <2>2 DEF NoGaps
    <2>4. i \in 2 .. (k + 1) - 1 /\ i - 1 \in j + 1 .. k - 1
        BY <2>1, <2>3
    <2> QED
        BY <1>7, <2>3, <2>4
<1> QED
    BY <1>4, <1>8, <1>9

\* A frame joins the link: it goes on where the last one ended.
LEMMA FrameSent ==
    ASSUME Types, BoxOrder, FramesCover, Reached, NoGaps,
           NEW b \in Batches(outbox, sent), link # "down", link' = link,
           up' = Append(up, [kind |-> "history", inst |-> inst, recs |-> b]),
           sent' = b[Len(b)].seq,
           outbox' = outbox, next' = next, from' = from, row' = row, unheard' = unheard
    PROVE  FramesCover' /\ Reached' /\ NoGaps'
<1> DEFINE f == [kind |-> "history", inst |-> inst, recs |-> b]
<1>1. PICK len \in Nat: len = Len(up)
    BY UpIs
<1>2. /\ f \in Frames /\ Len(b) \in Nat \ {0}
      /\ FirstSeq(f) \in Nat /\ LastSeq(f) \in Nat
      /\ sent < FirstSeq(f) /\ FirstSeq(f) <= LastSeq(f) /\ LastSeq(f) < next
      /\ \A i \in 1 .. Len(b): FirstSeq(f) <= b[i].seq /\ b[i].seq <= LastSeq(f)
      /\ \A r \in Box: FirstSeq(f) <= r.seq /\ r.seq <= LastSeq(f) => Carries(f, r)
      /\ \A r \in Box: r.seq < FirstSeq(f) => r.seq <= sent
    BY BatchIs
<1>3. Len(up') = len + 1 /\ (\A i \in 1 .. len: up'[i] = up[i]) /\ up'[len + 1] = f
    BY <1>1, <1>2, AppendProperties DEF Types
<1>4. sent' = LastSeq(f) /\ sent \in Nat
    BY DEF LastSeq, Types
<1>5. Box' = Box /\ \A r \in Box: r.seq \in Nat
    BY BoxIs DEF Box
<1>6. \A k \in 1 .. len + 1: k \in 1 .. len \/ k = len + 1
    OBVIOUS
<1> HIDE DEF f
<1>7. f.kind = "history" /\ f.recs = b
    BY DEF f
<1>8. FramesCover'
    <2> SUFFICES ASSUME NEW k \in 1 .. len + 1, up'[k].kind = "history"
                 PROVE  /\ FirstSeq(up'[k]) \in Nat /\ LastSeq(up'[k]) \in Nat
                        /\ 1 <= FirstSeq(up'[k]) /\ FirstSeq(up'[k]) <= LastSeq(up'[k]) /\ LastSeq(up'[k]) < next
                        /\ \A i \in 1 .. Len(up'[k].recs): FirstSeq(up'[k]) <= up'[k].recs[i].seq /\ up'[k].recs[i].seq <= LastSeq(up'[k])
                        /\ \A r \in Box: FirstSeq(up'[k]) <= r.seq /\ r.seq <= LastSeq(up'[k]) => Carries(up'[k], r)
        <3>1. (\A k \in 1 .. Len(up'): up'[k].kind = "history" =>
                  /\ FirstSeq(up'[k]) \in Nat /\ LastSeq(up'[k]) \in Nat
                  /\ 1 <= FirstSeq(up'[k]) /\ FirstSeq(up'[k]) <= LastSeq(up'[k]) /\ LastSeq(up'[k]) < next
                  /\ \A i \in 1 .. Len(up'[k].recs): FirstSeq(up'[k]) <= up'[k].recs[i].seq /\ up'[k].recs[i].seq <= LastSeq(up'[k])
                  /\ \A r \in Box: FirstSeq(up'[k]) <= r.seq /\ r.seq <= LastSeq(up'[k]) => Carries(up'[k], r)) => FramesCover'
            BY <1>5 DEF FramesCover, FirstSeq, LastSeq, Carries
        <3> QED
            BY <1>3, <3>1
    <2>1. CASE k \in 1 .. len
        BY <1>1, <1>3, <2>1 DEF FramesCover
    <2>2. CASE k = len + 1
        <3>1. 1 <= FirstSeq(f)
            BY <1>2, <1>4
        <3> QED
            BY <1>2, <1>3, <1>7, <2>2, <3>1
    <2> QED
        BY <1>6, <2>1, <2>2
<1>9. len + 1 \in Marks /\ Mark(len + 1) = sent + 1
    <2>1. ~(len + 1 <= len)
        OBVIOUS
    <2> QED
        BY <1>1, <2>1 DEF Marks, Mark
<1>10. ASSUME NEW k \in Marks', NEW r \in Box, r.seq < Mark(k)'
       PROVE  /\ k \in Nat /\ 1 <= k /\ k <= len + 2
              /\ \/ k \in Marks /\ k <= len /\ r.seq < Mark(k)
                 \/ len + 1 <= k /\ r.seq < sent + 1
                 \/ k = len + 2 /\ Carries(f, r)
    <2>1. (k \in 1 .. len + 1 /\ up'[k].kind = "history") \/ k = len + 2
        <3>1. k \in {i \in 1 .. Len(up'): up'[i].kind = "history"} \/ k = Len(up') + 1
            BY DEF Marks
        <3>2. Len(up') + 1 = len + 2
            BY <1>3
        <3> QED
            BY <1>3, <3>1, <3>2
    <2>2. CASE k \in 1 .. len /\ up'[k].kind = "history"
        <3>1. k <= Len(up) /\ k <= Len(up') /\ k \in Nat /\ 1 <= k /\ k <= len + 2 /\ k <= len
            BY <1>1, <1>3, <2>2
        <3>2. up'[k] = up[k] /\ k \in Marks
            BY <1>1, <1>3, <2>2 DEF Marks
        <3>3. Mark(k)' = Mark(k)
            BY <3>1, <3>2 DEF Mark, FirstSeq
        <3> QED
            BY <1>10, <3>1, <3>2, <3>3
    <2>3. CASE k = len + 1
        <3>1. k <= Len(up') /\ k \in Nat /\ 1 <= k /\ k <= len + 2 /\ len + 1 <= k
            BY <1>3, <2>3
        <3>2. Mark(k)' = FirstSeq(f)
            BY <1>3, <2>3, <3>1 DEF Mark, FirstSeq
        <3>3. r.seq <= sent
            BY <1>2, <1>10, <3>2
        <3> QED
            BY <1>4, <1>5, <3>1, <3>3
    <2>4. CASE k = len + 2
        <3>1. ~(k <= Len(up')) /\ k \in Nat /\ 1 <= k /\ k <= len + 2 /\ len + 1 <= k
            BY <1>3, <2>4
        <3>2. Mark(k)' = sent' + 1
            BY <3>1 DEF Mark
        <3>3. r.seq <= LastSeq(f)
            BY <1>2, <1>4, <1>5, <1>10, <3>2
        <3>4. CASE r.seq < FirstSeq(f)
            <4>1. r.seq <= sent
                BY <1>2, <3>4
            <4> QED
                BY <1>4, <1>5, <3>1, <4>1
        <3>5. CASE FirstSeq(f) <= r.seq
            BY <1>2, <2>4, <3>1, <3>3, <3>5
        <3> QED
            BY <1>2, <1>5, <3>4, <3>5
    <2> QED
        BY <1>6, <2>1, <2>2, <2>3, <2>4
<1>11. ASSUME NEW r, NEW i \in 1 .. len
       PROVE  Carries(up[i], r) <=> Carries(up'[i], r)
    BY <1>3 DEF Carries
<1>12. ASSUME NEW r, Carries(f, r)
       PROVE  Carries(up'[len + 1], r)
    BY <1>3, <1>12
<1>13. Reached'
    <2> SUFFICES ASSUME NEW k \in Marks', NEW r \in Box, r.seq < Mark(k)'
                 PROVE  Done(r) \/ Held(r) \/ \E j \in 1 .. k - 1: Carries(up'[j], r)
        <3>1. (\A k \in Marks': \A r \in Box: r.seq < Mark(k)' =>
                 Done(r) \/ Held(r) \/ \E j \in 1 .. k - 1: Carries(up'[j], r)) => Reached'
            <4>1. \A r: (Done(r) => Done(r)') /\ (Held(r) => Held(r)')
                BY DEF Done, Held
            <4> HIDE DEF Done, Held
            <4> QED
                BY <1>5, <4>1 DEF Reached, Carries
        <3> QED
            BY <3>1
    <2>1. CASE k \in Marks /\ k <= len /\ r.seq < Mark(k)
        <3>1. Done(r) \/ Held(r) \/ \E j \in 1 .. k - 1: Carries(up[j], r)
            BY <2>1 DEF Reached
        <3>2. \A j \in 1 .. k - 1: j \in 1 .. len
            BY <1>10, <2>1
        <3> QED
            BY <1>11, <3>1, <3>2
    <2>2. CASE len + 1 <= k /\ r.seq < sent + 1
        <3>1. Done(r) \/ Held(r) \/ \E j \in 1 .. (len + 1) - 1: Carries(up[j], r)
            BY <1>9, <2>2 DEF Reached
        <3>2. \A j \in 1 .. (len + 1) - 1: j \in 1 .. len /\ j \in 1 .. k - 1
            BY <1>10, <2>2
        <3> QED
            BY <1>11, <3>1, <3>2
    <2>3. CASE k = len + 2 /\ Carries(f, r)
        <3>1. len + 1 \in 1 .. k - 1
            BY <2>3
        <3> QED
            BY <1>12, <2>3, <3>1
    <2> QED
        BY <1>10, <2>1, <2>2, <2>3
<1>14. NoGaps'
    <2> SUFFICES ASSUME NEW k \in Marks', NEW j \in 1 .. k - 1, NEW r \in Box,
                        up'[j].kind = "history", LastSeq(up'[j]) < r.seq, r.seq < Mark(k)'
                 PROVE  \E i \in j + 1 .. k - 1: Carries(up'[i], r)
        <3>1. (\A k \in Marks': \A j \in 1 .. k - 1: \A r \in Box:
                 up'[j].kind = "history" /\ LastSeq(up'[j]) < r.seq /\ r.seq < Mark(k)' =>
                   \E i \in j + 1 .. k - 1: Carries(up'[i], r)) => NoGaps'
            BY <1>5 DEF NoGaps, LastSeq, Carries
        <3> QED
            BY <3>1
    <2>1. k \in Nat /\ 1 <= k /\ k <= len + 2
        BY <1>10
    <2>2. CASE k \in Marks /\ k <= len /\ r.seq < Mark(k)
        <3>1. \A i \in 1 .. k - 1: i \in 1 .. len
            BY <2>1, <2>2
        <3>2. up'[j] = up[j]
            BY <1>3, <3>1
        <3>3. PICK i \in j + 1 .. k - 1: Carries(up[i], r)
            BY <2>2, <3>2 DEF NoGaps
        <3>4. i \in 1 .. k - 1
            BY <2>1, <3>3
        <3> QED
            BY <1>11, <3>1, <3>3, <3>4
    <2>3. CASE len + 1 <= k /\ r.seq < sent + 1
        <3>1. j # len + 1
            <4> SUFFICES ASSUME j = len + 1 PROVE FALSE
                OBVIOUS
            <4>1. LastSeq(f) < r.seq
                BY <1>3
            <4> QED
                BY <1>2, <1>4, <1>5, <2>3, <4>1
        <3>2. j \in 1 .. len /\ j \in 1 .. (len + 1) - 1
            BY <2>1, <3>1
        <3>3. up'[j] = up[j]
            BY <1>3, <3>2
        <3>4. PICK i \in j + 1 .. (len + 1) - 1: Carries(up[i], r)
            BY <1>9, <2>3, <3>2, <3>3 DEF NoGaps
        <3>5. i \in 1 .. len /\ i \in j + 1 .. k - 1
            BY <2>1, <2>3, <3>2, <3>4
        <3> QED
            BY <1>11, <3>4, <3>5
    <2>4. CASE k = len + 2 /\ Carries(f, r)
        <3>1. j # len + 1
            <4> SUFFICES ASSUME j = len + 1 PROVE FALSE
                OBVIOUS
            <4>1. LastSeq(f) < r.seq
                BY <1>3
            <4>2. r.seq <= LastSeq(f)
                BY <1>2, <1>7, <2>4 DEF Carries
            <4> QED
                BY <1>2, <1>5, <4>1, <4>2
        <3>2. len + 1 \in j + 1 .. k - 1
            BY <2>1, <2>4, <3>1
        <3> QED
            BY <1>12, <2>4, <3>2
    <2> QED
        BY <1>10, <2>2, <2>3, <2>4
<1> QED
    BY <1>8, <1>13, <1>14

\* A frame nobody hears: what it has counts as unheard.
LEMMA FrameUnheard ==
    ASSUME Types, BoxOrder, FramesCover, Reached, NoGaps,
           NEW b \in Batches(outbox, sent), link # "down", link' = link,
           up = <<>>, up' = up, sent' = b[Len(b)].seq,
           unheard' = unheard \cup {[conn |-> b[i].conn, close |-> b[i].close] : i \in DOMAIN b},
           outbox' = outbox, next' = next, from' = from, row' = row
    PROVE  FramesCover' /\ Reached' /\ NoGaps'
<1> DEFINE f == [kind |-> "history", inst |-> inst, recs |-> b]
<1>1. /\ f \in Frames /\ Len(b) \in Nat \ {0}
      /\ FirstSeq(f) \in Nat /\ LastSeq(f) \in Nat
      /\ \A r \in Box: FirstSeq(f) <= r.seq /\ r.seq <= LastSeq(f) => Carries(f, r)
      /\ \A r \in Box: r.seq < FirstSeq(f) => r.seq <= sent
    BY BatchIs
<1>2. sent' = LastSeq(f) /\ sent \in Nat
    BY DEF LastSeq, Types
<1>3. Box' = Box /\ \A r \in Box: r.seq \in Nat
    BY BoxIs DEF Box
<1>4. Len(up) = 0 /\ DOMAIN b = 1 .. Len(b)
    <2>1. b \in Seq(Recs)
        <3>1. f.recs = b /\ f.kind = "history"
            OBVIOUS
        <3> HIDE DEF f
        <3> QED
            BY <1>1, <3>1, FrameKinds
    <2> QED
        BY <2>1, EmptySeq, LenProperties
<1>5. Marks = {1} /\ Marks' = {1} /\ Mark(1) = sent + 1 /\ Mark(1)' = sent' + 1
    BY <1>4 DEF Marks, Mark
<1>6. Reached'
    <2> SUFFICES ASSUME NEW r \in Box, r.seq < sent' + 1
                 PROVE  Done(r)' \/ Held(r)
        BY <1>3, <1>5 DEF Reached, Held
    <2>1. CASE r.seq < FirstSeq(f)
        <3>1. r.seq < sent + 1
            BY <1>1, <1>2, <1>3, <2>1
        <3>2. Done(r) \/ Held(r) \/ \E j \in 1 .. 1 - 1: Carries(up[j], r)
            BY <1>5, <3>1 DEF Reached
        <3>3. \A j: j \notin 1 .. 1 - 1
            OBVIOUS
        <3> QED
            BY <3>2, <3>3 DEF Done
    <2>2. CASE FirstSeq(f) <= r.seq
        <3>1. r.seq <= LastSeq(f)
            BY <1>1, <1>2, <1>3
        <3>2. PICK i \in 1 .. Len(b): b[i] = r
            BY <1>1, <2>2, <3>1 DEF Carries
        <3>3. [conn |-> r.conn, close |-> r.close] \in unheard'
            BY <1>4, <3>2
        <3> QED
            BY <3>3 DEF Done
    <2> QED
        BY <1>1, <1>3, <2>1, <2>2
<1>7. NoGaps' /\ FramesCover'
    <2>1. \A j: j \notin 1 .. 1 - 1 /\ j \notin 1 .. Len(up)
        BY <1>4
    <2> QED
        BY <1>5, <2>1 DEF NoGaps, FramesCover
<1> QED
    BY <1>6, <1>7

\* A report joins the empty link.
LEMMA ReportSent ==
    ASSUME Types, Types', BoxOrder, FramesCover, Reached, NoGaps,
           link # "down", link' = link, up = <<>>, Len(up') = 1, up'[1].kind = "status",
           outbox' = outbox, next' = next, sent' = sent, from' = from, row' = row, unheard' = unheard
    PROVE  FramesCover' /\ Reached' /\ NoGaps'
<1>1. Len(up) = 0 /\ Box' = Box
    BY EmptySeq DEF Box
<1>2. \A k \in 1 .. Len(up'): k = 1
    OBVIOUS
<1>3. Marks = {1} /\ Marks' = {2} /\ Mark(1) = sent + 1 /\ Mark(2)' = sent + 1
    <2>1. {k \in 1 .. Len(up'): up'[k].kind = "history"} = {}
        BY <1>2
    <2> QED
        BY <1>1, <2>1 DEF Marks, Mark
<1>4. Reached'
    <2> SUFFICES ASSUME NEW r \in Box, r.seq < sent + 1
                 PROVE  Done(r) \/ Held(r)
        BY <1>1, <1>3 DEF Reached, Held, Done
    <2>1. Done(r) \/ Held(r) \/ \E j \in 1 .. 1 - 1: Carries(up[j], r)
        BY <1>3 DEF Reached
    <2>2. \A j: j \notin 1 .. 1 - 1
        OBVIOUS
    <2> QED
        BY <2>1, <2>2
<1>5. FramesCover' /\ NoGaps'
    <2>1. \A j \in 1 .. 2 - 1: j = 1
        OBVIOUS
    <2> QED
        BY <1>2, <1>3, <2>1 DEF FramesCover, NoGaps
<1> QED
    BY <1>4, <1>5

-----------------------------------------------------------------------------
(***************************************************************************)
(* The rows                                                                *)
(***************************************************************************)

\* What a step may do to the rows: the body of CloseIsKept.
RowsKept ==
    \A c \in Conns:
      /\ row[c] = "closed" => row'[c] = "closed"
      /\ row[c] = "lost" => row'[c] \in {"lost", "closed"}
      /\ row[c] = "open" => row'[c] # "none"

\* A row that becomes open was reported at that moment.
OpensAreSeen ==
    \A c \in Conns: row'[c] = "open" => c \in seen' \/ (row[c] = "open" /\ c \notin seen)

\* What is stored stays stored.
LEMMA DoneStays ==
    ASSUME Types, BoxOrder, RowsKept, unheard \subseteq unheard'
    PROVE  \A r \in Box: Done(r) => Done(r)'
<1> SUFFICES ASSUME NEW r \in Box, Done(r) PROVE Done(r)'
    OBVIOUS
<1>1. r.conn \in Conns
    BY BoxIs
<1>2. row[r.conn] \in {"none", "open", "lost", "closed"}
    BY <1>1 DEF Types
<1>3. /\ row[r.conn] = "closed" => row'[r.conn] = "closed"
      /\ row[r.conn] # "none" => row'[r.conn] # "none"
    BY <1>1, <1>2 DEF RowsKept
<1> QED
    BY <1>3 DEF Done

\* upsert: a batch stores all it has, opens only what it reports and keeps what
\* is closed.
LEMMA UpsertedIs ==
    ASSUME Types, NEW f \in Frames, f.kind = "history",
           row' = Upserted(f.recs), seen' = seen \cup Reported(f.recs)
    PROVE  /\ row' \in [Conns -> {"none", "open", "lost", "closed"}] /\ seen' \subseteq Conns
           /\ RowsKept /\ OpensAreSeen
           /\ \A c \in Conns: row[c] # "lost" => row'[c] # "lost"
           /\ \A i \in 1 .. Len(f.recs): IF f.recs[i].close THEN row'[f.recs[i].conn] = "closed" ELSE row'[f.recs[i].conn] # "none"
           /\ \A c \in Conns: row'[c] = row[c] \/ \E i \in 1 .. Len(f.recs): f.recs[i].conn = c
<1>1. f.recs \in Seq(Recs) /\ DOMAIN f.recs = 1 .. Len(f.recs) /\ \A i \in 1 .. Len(f.recs): f.recs[i] \in Recs
    BY FrameKinds, LenProperties, ElementOfSeq
<1>2. \A i \in 1 .. Len(f.recs): f.recs[i].conn \in Conns /\ f.recs[i].close \in BOOLEAN
    BY <1>1 DEF Recs
<1>3. Reported(f.recs) = {f.recs[i].conn : i \in 1 .. Len(f.recs)}
    BY <1>1 DEF Reported
<1>4. ASSUME NEW c \in Conns
      PROVE  /\ row[c] \in {"none", "open", "lost", "closed"}
             /\ (\E i \in 1 .. Len(f.recs): f.recs[i].conn = c /\ f.recs[i].close) => row'[c] = "closed"
             /\ ~(\E i \in 1 .. Len(f.recs): f.recs[i].conn = c /\ f.recs[i].close) =>
                   row'[c] = IF c \in Reported(f.recs) /\ row[c] = "none" THEN "open" ELSE row[c]
    BY <1>1 DEF Upserted, Types
<1>5. \A c \in Conns: row'[c] \in {"none", "open", "lost", "closed"}
    BY <1>4
<1>6. row' \in [Conns -> {"none", "open", "lost", "closed"}]
    BY <1>5 DEF Upserted
<1>7. RowsKept
    BY <1>4 DEF RowsKept
<1>8. OpensAreSeen
    <2> SUFFICES ASSUME NEW c \in Conns, row'[c] = "open"
                 PROVE  c \in seen' \/ (row[c] = "open" /\ c \notin seen)
        BY DEF OpensAreSeen
    <2>1. (c \in Reported(f.recs) \/ c \in seen) => c \in seen'
        OBVIOUS
    <2>2. c \in Reported(f.recs) \/ row[c] = "open"
        BY <1>4
    <2> QED
        BY <2>1, <2>2
<1>9. seen' \subseteq Conns
    BY <1>2, <1>3 DEF Types
<1>10. \A c \in Conns: row[c] # "lost" => row'[c] # "lost"
    BY <1>4
<1>11. \A i \in 1 .. Len(f.recs): IF f.recs[i].close THEN row'[f.recs[i].conn] = "closed" ELSE row'[f.recs[i].conn] # "none"
    <2> SUFFICES ASSUME NEW i \in 1 .. Len(f.recs)
                 PROVE  IF f.recs[i].close THEN row'[f.recs[i].conn] = "closed" ELSE row'[f.recs[i].conn] # "none"
        OBVIOUS
    <2>1. f.recs[i].conn \in Conns /\ f.recs[i].conn \in Reported(f.recs)
        BY <1>2, <1>3
    <2>2. f.recs[i].close => row'[f.recs[i].conn] = "closed"
        BY <1>4, <2>1
    <2>3. row'[f.recs[i].conn] # "none"
        BY <1>4, <2>1
    <2> QED
        BY <2>2, <2>3
<1>12. \A c \in Conns: row'[c] = row[c] \/ \E i \in 1 .. Len(f.recs): f.recs[i].conn = c
    BY <1>3, <1>4
<1> QED
    BY <1>6, <1>7, <1>8, <1>9, <1>10, <1>11, <1>12

\* checkpoint: a report gives up open rows of its instance, and opens none.
LEMMA CheckpointedIs ==
    ASSUME Types, NEW f \in Frames, f.kind = "status", Checkpointed(f)
    PROVE  /\ row' \in [Conns -> {"none", "open", "lost", "closed"}] /\ seen' \subseteq Conns
           /\ RowsKept /\ OpensAreSeen
           /\ \A c \in Conns: row'[c] # row[c] => /\ row[c] = "open" /\ f.complete
                                                 /\ home[c] = f.inst /\ c \notin f.listed /\ c \notin seen
<1>1. \A c \in Conns: /\ row[c] \in {"none", "open", "lost", "closed"}
                      /\ row'[c] = IF c \in Missing(f) THEN "lost" ELSE row[c]
    BY DEF Checkpointed, Types
<1>2. \A c \in Missing(f): row[c] = "open" /\ f.complete /\ home[c] = f.inst /\ c \notin f.listed /\ c \notin seen
    BY DEF Missing
<1>3. f.listed \subseteq Conns
    BY FrameKinds
<1>4. seen' \subseteq Conns /\ seen \subseteq seen'
    BY <1>3 DEF Checkpointed, Types
<1>5. \A c \in Conns: row'[c] \in {"none", "open", "lost", "closed"}
    BY <1>1
<1>6. row' \in [Conns -> {"none", "open", "lost", "closed"}]
    BY <1>5 DEF Checkpointed
<1> QED
    BY <1>1, <1>2, <1>4, <1>6 DEF RowsKept, OpensAreSeen

\* Without news of rows.
LEMMA RowsAtRest ==
    ASSUME row' = row, seen' = seen
    PROVE  RowsKept /\ OpensAreSeen
BY DEF RowsKept, OpensAreSeen

-----------------------------------------------------------------------------
(***************************************************************************)
(* Acknowledgements and reports                                            *)
(***************************************************************************)

\* The acknowledgements there were stay good: new records have higher numbers.
LEMMA AcksAtRest ==
    ASSUME Types, Types', BoxOrder, AcksGood, next <= next',
           \A r \in Box': r \in Box \/ r.seq >= next,
           \A r \in Box: Done(r) => Done(r)',
           \A i \in 1 .. Len(acks'): \E j \in 1 .. Len(acks): acks'[i] = acks[j]
    PROVE  AcksGood'
<1> SUFFICES ASSUME NEW i \in 1 .. Len(acks')
             PROVE  acks'[i] < next' /\ \A r \in Box': r.seq <= acks'[i] => Done(r)'
    BY DEF AcksGood
<1>1. PICK j \in 1 .. Len(acks): acks'[i] = acks[j]
    OBVIOUS
<1>2. acks[j] \in Nat /\ next \in Nat /\ next' \in Nat
    BY ElementOfSeq DEF Types
<1>3. acks[j] < next /\ \A r \in Box: r.seq <= acks[j] => Done(r)
    BY DEF AcksGood
<1>4. ASSUME NEW r \in Box', r.seq <= acks[j]
      PROVE  Done(r)'
    <2>1. r.seq \in Nat
        <3>1. \A n \in 1 .. Len(outbox'): outbox'[n] \in Recs
            BY ElementOfSeq DEF Types
        <3> QED
            BY <3>1 DEF Box, Recs
    <2>2. r \in Box
        BY <1>2, <1>3, <1>4, <2>1
    <2> QED
        BY <1>3, <1>4, <2>2
<1> QED
    BY <1>1, <1>2, <1>3, <1>4

\* What is known of a connection stays known; so a step that takes the frames of
\* a link that is gone from those there were keeps the reports among them.
LEMMA OldAtRest ==
    ASSUME StatusOld, OpensAreSeen,
           \A c \in Conns: conn'[c] = "live" => conn[c] = "live" /\ home'[c] = home[c],
           \A k \in 1 .. Len(old'.frames): \E j \in 1 .. Len(old.frames): old'.frames[k] = old.frames[j]
    PROVE  StatusOld'
<1> SUFFICES ASSUME NEW k \in 1 .. Len(old'.frames), old'.frames[k].kind = "status", old'.frames[k].complete,
                    NEW c \in Conns, conn'[c] = "live", home'[c] = old'.frames[k].inst, c \notin old'.frames[k].listed
             PROVE  row'[c] # "open" \/ c \in seen'
    BY DEF StatusOld
<1>1. PICK j \in 1 .. Len(old.frames): old'.frames[k] = old.frames[j]
    OBVIOUS
<1>2. row[c] # "open" \/ c \in seen
    BY <1>1 DEF StatusOld
<1> QED
    BY <1>2 DEF OpensAreSeen

-----------------------------------------------------------------------------
(***************************************************************************)
(* The proxy's steps                                                       *)
(***************************************************************************)

\* push: the record is the last of the log, and what makes room is dropped.
LEMMA Pushed ==
    ASSUME Types, BoxOrder, NEW r \in Recs, r.seq = next, Push(r), next' = next + 1
    PROVE  /\ outbox' \in Seq(Recs) /\ Len(outbox') <= Backlog /\ BoxOrder'
           /\ r \in Box' /\ Box' \subseteq Box \cup {r}
           /\ dropped \subseteq dropped'
           /\ \A q \in Box: q \in Box' \/ [conn |-> q.conn, close |-> q.close] \in dropped'
<1> DEFINE all == Append(outbox, r)
<1>0. PICK len \in Nat: len = Len(outbox) /\ len < next /\ len <= Backlog /\ next \in Nat /\ Backlog \in Nat \ {0}
    BY BoxIs, HistoryConstants DEF BoxOrder, Types
<1>1. /\ all \in Seq(Recs) /\ Len(all) = len + 1
      /\ \A i \in 1 .. len: all[i] = outbox[i]
      /\ all[len + 1] = r
    BY <1>0, AppendProperties DEF Types
<1>2. \A i \in 1 .. len + 1: all[i].seq = (next + 1) - (len + 1) + i - 1 /\ (i \in 1 .. len \/ i = len + 1)
    <2> SUFFICES ASSUME NEW i \in 1 .. len + 1
                 PROVE  all[i].seq = (next + 1) - (len + 1) + i - 1 /\ (i \in 1 .. len \/ i = len + 1)
        OBVIOUS
    <2>1. CASE i \in 1 .. len
        <3>1. all[i].seq = next - len + i - 1
            BY <1>0, <1>1, <2>1 DEF BoxOrder
        <3> QED
            BY <1>0, <2>1, <3>1
    <2>2. CASE i = len + 1
        BY <1>0, <1>1, <2>2
    <2>3. i \in 1 .. len \/ i = len + 1
        OBVIOUS
    <2> HIDE DEF all
    <2> QED
        BY <2>1, <2>2, <2>3
<1>3. \A q \in Box: \E i \in 1 .. len: q = all[i]
    BY <1>0, <1>1 DEF Box
<1>4. \A i \in 1 .. len + 1: all[i] \in Box \cup {r}
    BY <1>0, <1>1, <1>2 DEF Box
<1>5. CASE Len(all) > Backlog
    <2>1. outbox' = Tail(all) /\ dropped' = dropped \cup {[conn |-> Head(all).conn, close |-> Head(all).close]}
        BY <1>5 DEF Push
    <2>2. all # <<>> /\ Head(all) = all[1]
        <3>1. Len(all) # 0
            BY <1>0, <1>1
        <3> HIDE DEF all
        <3> QED
            BY <1>1, <3>1, EmptySeq
    <2>3. outbox' \in Seq(Recs) /\ Len(outbox') = len /\ \A i \in 1 .. len: outbox'[i] = all[i + 1]
        <3>1. Len(all) - 1 = len
            BY <1>1
        <3> QED
            BY <1>1, <2>1, <2>2, <3>1, HeadTailProperties
    <2>4. len <= Backlog /\ 1 <= len
        BY <1>0, <1>1, <1>5
    <2>5. BoxOrder'
        <3>1. \A i \in 1 .. len: i + 1 \in 1 .. len + 1 /\ (next + 1) - (len + 1) + (i + 1) - 1 = (next + 1) - len + i - 1
            BY <1>0
        <3>2. \A i \in 1 .. len: outbox'[i].seq = (next + 1) - len + i - 1
            BY <1>2, <2>3, <3>1
        <3> QED
            BY <1>0, <2>3, <3>2 DEF BoxOrder
    <2>6. r \in Box' /\ Box' \subseteq Box \cup {r}
        <3>1. len \in 1 .. len /\ \A i \in 1 .. len: i + 1 \in 1 .. len + 1
            BY <2>4
        <3> QED
            BY <1>1, <1>4, <2>3, <3>1 DEF Box
    <2>7. ASSUME NEW q \in Box
          PROVE  q \in Box' \/ [conn |-> q.conn, close |-> q.close] \in dropped'
        <3>1. PICK i \in 1 .. len: q = all[i]
            BY <1>3
        <3>2. CASE i = 1
            BY <2>1, <2>2, <3>1, <3>2
        <3>3. CASE i # 1
            <4>1. i - 1 \in 1 .. len /\ i - 1 + 1 = i
                BY <3>3
            <4>2. outbox'[i - 1] = q
                BY <2>3, <3>1, <4>1
            <4> QED
                BY <2>3, <4>1, <4>2 DEF Box
        <3> QED
            BY <3>2, <3>3
    <2> QED
        BY <2>1, <2>3, <2>4, <2>5, <2>6, <2>7
<1>6. CASE ~(Len(all) > Backlog)
    <2>1. outbox' = all /\ dropped' = dropped
        BY <1>6 DEF Push
    <2>2. Len(outbox') <= Backlog
        BY <1>0, <1>1, <1>6, <2>1
    <2>3. BoxOrder'
        BY <1>0, <1>1, <1>2, <2>1 DEF BoxOrder
    <2>4. r \in Box' /\ Box' \subseteq Box \cup {r} /\ Box \subseteq Box'
        <3>1. len + 1 \in 1 .. len + 1 /\ \A i \in 1 .. len: i \in 1 .. len + 1
            OBVIOUS
        <3> QED
            BY <1>1, <1>3, <1>4, <2>1, <3>1 DEF Box
    <2> QED
        BY <1>1, <2>1, <2>2, <2>3, <2>4
<1> QED
    BY <1>5, <1>6

\* A connection opens or closes.
LEMMA RecordKeeps ==
    ASSUME HInv, NEW c \in Conns, ReportOpened(c) \/ ReportClosed(c)
    PROVE  HInv'
<1> USE DEF HInv
<1>1. PICK close \in BOOLEAN: Record(c, close) /\ (close <=> ReportClosed(c) /\ ~ReportOpened(c)) /\ conn'[c] # "none"
            /\ (close => conn[c] = "live" /\ conn'[c] = "over" /\ home' = home)
            /\ (~close => conn[c] = "none" /\ conn'[c] = "live")
    <2>1. CASE ReportOpened(c)
        BY <2>1 DEF ReportOpened, Types
    <2>2. CASE ReportClosed(c) /\ ~ReportOpened(c)
        BY <2>2 DEF ReportClosed, Types
    <2> QED
        BY <2>1, <2>2
<1> DEFINE r == [seq |-> next, conn |-> c, close |-> close]
<1>2. r \in Recs /\ r.seq = next /\ r.conn = c /\ r.close = close
    BY DEF Recs, Types
<1>3. Push(r) /\ next' = next + 1 /\ UNCHANGED <<inst, task, sent, link, up, acks, backend, unheard, faults>>
    BY <1>1 DEF Record
<1> HIDE DEF r
<1>4. from' = from /\ old' = old /\ row' = row /\ seen' = seen
    BY <1>3 DEF backend
<1>5. /\ outbox' \in Seq(Recs) /\ Len(outbox') <= Backlog /\ BoxOrder'
      /\ r \in Box' /\ Box' \subseteq Box \cup {r}
      /\ dropped \subseteq dropped'
      /\ \A q \in Box: q \in Box' \/ [conn |-> q.conn, close |-> q.close] \in dropped'
    BY <1>2, <1>3, Pushed
<1>6. /\ conn' \in [Conns -> {"none", "live", "over", "gone"}] /\ home' \in [Conns -> Nat]
      /\ \A d \in Conns: d # c => conn'[d] = conn[d] /\ home'[d] = home[d]
      /\ \A d \in Conns: conn[d] # "none" => conn'[d] # "none"
    BY DEF ReportOpened, ReportClosed, Types
<1>7. Types'
    BY <1>3, <1>4, <1>5, <1>6 DEF Types
<1>8. next \in Nat /\ next' \in Nat /\ next <= next'
    BY <1>3 DEF Types
<1>9. \A q \in Box': q \in Box \/ q.seq >= next
    BY <1>2, <1>5, <1>8
<1>10. \A q \in Box: Done(q) => Done(q)'
    BY <1>3, <1>4 DEF Done
<1>11. FramesCover' /\ Reached' /\ NoGaps'
    <2>1. link' = "down" \/ (link # "down" /\ sent' = sent)
        BY <1>3
    <2> QED
        BY <1>3, <1>4, <1>5, <1>7, <1>8, <1>9, <1>10, <2>1, LinkAtRest
<1>12. AcksGood'
    BY <1>3, <1>7, <1>8, <1>9, <1>10, AcksAtRest
<1>13. LinkEnds' /\ ReportFirst'
    BY <1>3, <1>4 DEF LinkEnds, ReportFirst
<1>14. Known'
    <2>1. \A i \in 1 .. Len(outbox'): conn'[outbox'[i].conn] # "none"
        <3> SUFFICES ASSUME NEW i \in 1 .. Len(outbox') PROVE conn'[outbox'[i].conn] # "none"
            OBVIOUS
        <3>1. outbox'[i] \in Box \/ outbox'[i] = r
            BY <1>5 DEF Box
        <3>2. CASE outbox'[i] = r
            BY <1>1, <1>2, <3>2
        <3>3. CASE outbox'[i] \in Box
            <4>1. PICK j \in 1 .. Len(outbox): outbox'[i] = outbox[j]
                BY <3>3 DEF Box
            <4>2. outbox[j].conn \in Conns /\ conn[outbox[j].conn] # "none"
                BY <3>3, <4>1, BoxIs DEF Known
            <4> QED
                BY <1>6, <4>1, <4>2
        <3> QED
            BY <3>1, <3>2, <3>3
    <2>2. \A k \in 1 .. Len(up): up[k].kind = "history" => \A i \in 1 .. Len(up[k].recs): conn'[up[k].recs[i].conn] # "none"
        <3> SUFFICES ASSUME NEW k \in 1 .. Len(up), up[k].kind = "history", NEW i \in 1 .. Len(up[k].recs)
                     PROVE  conn'[up[k].recs[i].conn] # "none"
            OBVIOUS
        <3>1. up[k] \in Frames
            BY UpIs
        <3>2. up[k].recs[i].conn \in Conns
            BY <3>1, RecordIs
        <3> QED
            BY <1>6, <3>2 DEF Known
    <2>3. \A k \in 1 .. Len(old.frames): old.frames[k].kind = "history" =>
            \A i \in 1 .. Len(old.frames[k].recs): conn'[old.frames[k].recs[i].conn] # "none"
        <3> SUFFICES ASSUME NEW k \in 1 .. Len(old.frames), old.frames[k].kind = "history",
                            NEW i \in 1 .. Len(old.frames[k].recs)
                     PROVE  conn'[old.frames[k].recs[i].conn] # "none"
            OBVIOUS
        <3>1. old.frames[k] \in Frames
            BY ElementOfSeq DEF Types
        <3>2. old.frames[k].recs[i].conn \in Conns
            BY <3>1, RecordIs
        <3> QED
            BY <1>6, <3>2 DEF Known
    <2>4. \A d \in Conns: row[d] # "none" => conn'[d] # "none"
        BY <1>6 DEF Known
    <2> QED
        BY <1>3, <1>4, <2>1, <2>2, <2>3, <2>4 DEF Known
<1>15. ASSUME NEW d \in Conns, conn'[d] = "live"
       PROVE  \/ conn[d] = "live" /\ home'[d] = home[d]
              \/ row[d] = "none" /\ ~InOld(d)
    <2>1. CASE d # c \/ close
        BY <1>1, <1>6, <1>15, <2>1
    <2>2. CASE d = c /\ ~close
        <3>1. conn[d] = "none"
            BY <1>1, <2>2
        <3> QED
            BY <3>1 DEF Known, InOld
    <2> QED
        BY <2>1, <2>2
<1>16. StatusUp'
    <2> SUFFICES ASSUME up # <<>>, up[1].kind = "status", up[1].complete,
                        NEW d \in Conns, conn'[d] = "live", d \notin up[1].listed
                 PROVE  row[d] = "none" /\ ~InOld(d)
        BY <1>3, <1>4 DEF StatusUp, InOld
    <2> QED
        BY <1>15 DEF StatusUp
<1>17. StatusOld'
    <2> SUFFICES ASSUME NEW k \in 1 .. Len(old.frames), old.frames[k].kind = "status", old.frames[k].complete,
                        NEW d \in Conns, conn'[d] = "live", home'[d] = old.frames[k].inst, d \notin old.frames[k].listed
                 PROVE  row[d] # "open" \/ d \in seen
        BY <1>4 DEF StatusOld
    <2> QED
        BY <1>15 DEF StatusOld
<1>18. AckedIsStored'
    <2>1. \A i \in 1 .. Len(outbox'): outbox'[i] \in Recs
        BY <1>5, ElementOfSeq
    <2>2. DOMAIN outbox' = 1 .. Len(outbox') /\ DOMAIN outbox = 1 .. Len(outbox)
        BY <1>5, LenProperties DEF Types
    <2>3. ASSUME NEW d \in Conns, NEW e \in BOOLEAN, Settled(d, e)'
          PROVE  Settled(d, e) /\ ~(d = c /\ e = close)
        <3>1. /\ \A q \in Box': q.conn # d \/ q.close # e
              /\ [conn |-> d, close |-> e] \notin dropped'
            BY <2>2, <2>3 DEF Settled, Box
        <3>2. \A q \in Box: q.conn # d \/ q.close # e
            BY <1>5, <3>1
        <3>3. ~(d = c /\ e = close)
            BY <1>2, <1>5, <3>1
        <3> QED
            BY <1>5, <2>2, <3>1, <3>2, <3>3 DEF Settled, Box
    <2> SUFFICES ASSUME NEW d \in Conns
                 PROVE  /\ conn'[d] \in {"live", "over"} /\ Settled(d, FALSE)' /\ [conn |-> d, close |-> FALSE] \notin unheard =>
                             row[d] # "none"
                        /\ conn'[d] = "over" /\ Settled(d, TRUE)' /\ [conn |-> d, close |-> TRUE] \notin unheard =>
                             row[d] = "closed"
        BY <1>3, <1>4 DEF AckedIsStored
    <2>4. ASSUME conn'[d] \in {"live", "over"}, Settled(d, FALSE)', [conn |-> d, close |-> FALSE] \notin unheard
          PROVE  row[d] # "none"
        <3>1. Settled(d, FALSE) /\ ~(d = c /\ ~close)
            BY <2>3, <2>4
        <3>2. conn[d] \in {"live", "over"}
            BY <1>1, <1>6, <2>4, <3>1
        <3> QED
            BY <2>4, <3>1, <3>2 DEF AckedIsStored
    <2>5. ASSUME conn'[d] = "over", Settled(d, TRUE)', [conn |-> d, close |-> TRUE] \notin unheard
          PROVE  row[d] = "closed"
        <3>1. Settled(d, TRUE) /\ ~(d = c /\ close)
            BY <2>3, <2>5
        <3>2. conn[d] = "over"
            BY <1>1, <1>6, <2>5, <3>1
        <3> QED
            BY <2>5, <3>1, <3>2 DEF AckedIsStored
    <2> QED
        BY <2>4, <2>5
<1> QED
    BY <1>5, <1>7, <1>11, <1>12, <1>13, <1>14, <1>16, <1>17, <1>18

\* A step of the link alone: nothing is recorded, sent or stored.
LEMMA LinkStepKeeps ==
    ASSUME HInv, Types', LinkEnds',
           UNCHANGED <<conn, home, inst, outbox, next, dropped, up, from, old, row, seen, unheard>>,
           acks' = acks \/ acks' = <<>>,
           link' = "down" \/ (link # "down" /\ sent' = sent) \/ sent' = 0
    PROVE  HInv'
<1> USE DEF HInv
<1>1. Box' = Box /\ \A r \in Box: r.seq \in Nat /\ 1 <= r.seq
    BY BoxIs DEF Box
<1>2. \A r \in Box: Done(r) => Done(r)'
    BY DEF Done
<1>3. BoxOrder'
    BY DEF BoxOrder
<1>4. next \in Nat /\ next <= next'
    BY DEF Types
<1>5. FramesCover' /\ Reached' /\ NoGaps'
    <2>1. link' = "down" \/ (link # "down" /\ sent' = sent) \/ \A r \in Box': r.seq > sent'
        BY <1>1
    <2>2. \A r \in Box': r \in Box \/ r.seq >= next
        BY <1>1
    <2> QED
        BY <1>2, <1>3, <1>4, <2>1, <2>2, LinkAtRest
<1>6. AcksGood'
    <2>1. CASE acks' = acks
        BY <1>1, <1>2, <1>4, <2>1, AcksAtRest
    <2>2. CASE acks' = <<>>
        BY <2>2 DEF AcksGood
    <2> QED
        BY <2>1, <2>2
<1>7. Known' /\ ReportFirst' /\ StatusUp' /\ StatusOld'
    BY DEF Known, ReportFirst, StatusUp, StatusOld, InOld
<1>8. AckedIsStored'
    BY DEF AckedIsStored, Settled
<1> QED
    BY <1>3, <1>5, <1>6, <1>7, <1>8

\* Connecting, looking for more to send, starting over, finding the link dead,
\* listening: what waits stays where it is.
LEMMA LinkKeeps ==
    ASSUME HInv, Connect \/ Changed \/ Resend \/ Disconnected \/ Listen \/ UNCHANGED vars
    PROVE  HInv'
<1> USE DEF HInv
<1>1. UNCHANGED <<conn, home, inst, outbox, next, dropped, up, from, old, row, seen, unheard>>
    BY DEF Connect, Changed, Resend, Disconnected, Listen, vars, proxy, backend
<1>2. CASE Connect
    <2>1. link' # "down" /\ link' \in {"down", "init", "up"} /\ acks' = acks /\ Sending(outbox, 0)
        BY <1>2 DEF Connect
    <2>2. sent' = 0 /\ task' \in {"idle", "sending"}
        BY <2>1 DEF Sending
    <2>3. Types'
        BY <1>1, <2>1, <2>2 DEF Types
    <2>4. LinkEnds'
        BY <1>2, <2>1, <2>2 DEF LinkEnds, Connect
    <2> QED
        BY <1>1, <2>1, <2>2, <2>3, <2>4, LinkStepKeeps
<1>3. CASE Changed
    <2>1. link' = link /\ acks' = acks /\ task = "idle" /\ Sending(outbox, sent)
        BY <1>3 DEF Changed
    <2>2. sent' = sent /\ task' \in {"idle", "sending"}
        BY <2>1 DEF Sending
    <2>3. Types' /\ LinkEnds'
        BY <1>1, <2>1, <2>2 DEF Types, LinkEnds
    <2> QED
        BY <1>1, <2>1, <2>2, <2>3, LinkStepKeeps
<1>4. CASE Resend
    <2>1. link' = link /\ acks' = acks /\ task = "idle" /\ Sending(outbox, 0)
        BY <1>4 DEF Resend
    <2>2. sent' = 0 /\ task' \in {"idle", "sending"}
        BY <2>1 DEF Sending
    <2>3. Types' /\ LinkEnds'
        BY <1>1, <2>1, <2>2 DEF Types, LinkEnds
    <2> QED
        BY <1>1, <2>1, <2>2, <2>3, LinkStepKeeps
<1>5. CASE Disconnected
    <2>1. link' = link /\ link = "down" /\ acks' = <<>> /\ task' = "down" /\ sent' = sent
        BY <1>5 DEF Disconnected
    <2>2. Types' /\ LinkEnds'
        BY <1>1, <2>1 DEF Types, LinkEnds
    <2> QED
        BY <1>1, <2>1, <2>2, LinkStepKeeps
<1>6. CASE Listen
    <2>1. link = "init" /\ link' = "up" /\ acks' = acks /\ task' = task /\ sent' = sent
        BY <1>6 DEF Listen
    <2>2. Types' /\ LinkEnds'
        BY <1>1, <2>1 DEF Types, LinkEnds
    <2> QED
        BY <1>1, <2>1, <2>2, LinkStepKeeps
<1>7. CASE UNCHANGED vars
    <2>1. link' = link /\ acks' = acks /\ task' = task /\ sent' = sent
        BY <1>7 DEF vars
    <2>2. Types' /\ LinkEnds'
        BY <1>1, <2>1 DEF Types, LinkEnds
    <2> QED
        BY <1>1, <2>1, <2>2, LinkStepKeeps
<1> QED
    BY <1>2, <1>3, <1>4, <1>5, <1>6, <1>7

\* acknowledge: what goes was stored.
LEMMA AckKeeps ==
    ASSUME HInv, HistoryAck
    PROVE  HInv'
<1> USE DEF HInv
<1>1. /\ task = "idle" /\ acks # <<>> /\ acks' = Tail(acks)
      /\ UNCHANGED <<conn, home, inst, next, dropped, link, up, from, old, row, seen, unheard>>
    BY DEF HistoryAck, backend
<1>2. PICK a \in Nat: /\ a = Head(acks) /\ a = acks[1] /\ 1 \in 1 .. Len(acks) /\ a < next
                      /\ acks' \in Seq(Nat)
                      /\ \A i \in 1 .. Len(acks'): \E j \in 1 .. Len(acks): acks'[i] = acks[j]
                      /\ \A r \in Box: r.seq <= a => Done(r)
    <2>1. acks \in Seq(Nat) /\ Len(acks) \in Nat \ {0}
        BY <1>1, EmptySeq DEF Types
    <2>2. /\ Head(acks) \in Nat /\ Tail(acks) \in Seq(Nat) /\ Len(Tail(acks)) = Len(acks) - 1
          /\ \A i \in 1 .. Len(Tail(acks)): Tail(acks)[i] = acks[i + 1]
        BY <1>1, <2>1, HeadTailProperties
    <2>3. Head(acks) = acks[1] /\ 1 \in 1 .. Len(acks)
        BY <1>1, <2>1
    <2>4. \A i \in 1 .. Len(Tail(acks)): i + 1 \in 1 .. Len(acks)
        BY <2>1, <2>2
    <2>5. acks[1] < next /\ \A r \in Box: r.seq <= acks[1] => Done(r)
        BY <2>3 DEF AcksGood
    <2> QED
        BY <1>1, <2>2, <2>3, <2>4, <2>5
<1>3. outbox' = Pending(outbox, a) /\ Sending(Pending(outbox, a), IF sent > a THEN sent ELSE a)
    BY <1>2 DEF HistoryAck
<1>4. sent' = (IF sent > a THEN sent ELSE a) /\ task' \in {"idle", "sending"}
    BY <1>3 DEF Sending
<1>5. sent' \in Nat /\ sent' < next /\ (sent' = sent \/ sent' = a)
    BY <1>2, <1>4 DEF Types
<1>6. /\ outbox' \in Seq(Recs) /\ Len(outbox') <= Backlog /\ BoxOrder'
      /\ Box' \subseteq Box /\ (\A r \in Box': r.seq > a)
      /\ \A r \in Box: r \in Box' \/ r.seq <= a
    <2>1. PICK len \in Nat: len = Len(outbox) /\ len < next /\ len <= Backlog /\ next \in Nat /\ Backlog \in Nat
        BY BoxIs, HistoryConstants DEF BoxOrder, Types
    <2>2. PICK n \in 0 .. len: /\ n = Flying(outbox, a)
                               /\ \A i \in 1 .. n: outbox[i].seq <= a
                               /\ \A i \in n + 1 .. len: outbox[i].seq > a
        BY <2>1, FlyingIs
    <2>3. /\ outbox' \in Seq(Recs) /\ Len(outbox') = len - n
          /\ \A i \in 1 .. len - n: outbox'[i] = outbox[n + i] /\ n + i \in n + 1 .. len /\ n + i \in 1 .. len
        <3>1. n + 1 \in 1 .. Len(outbox) + 1 /\ len \in (n + 1) - 1 .. Len(outbox) /\ outbox \in Seq(Recs)
            BY <2>1 DEF Types
        <3>2. /\ SubSeq(outbox, n + 1, len) \in Seq(Recs)
              /\ Len(SubSeq(outbox, n + 1, len)) = (IF n + 1 <= len THEN len - (n + 1) + 1 ELSE 0)
              /\ \A i \in 1 .. len - (n + 1) + 1: SubSeq(outbox, n + 1, len)[i] = outbox[n + 1 + i - 1]
            BY <3>1, SubSeqProperties
        <3>3. /\ (IF n + 1 <= len THEN len - (n + 1) + 1 ELSE 0) = len - n
              /\ len - (n + 1) + 1 = len - n
              /\ \A i \in 1 .. len - n: n + 1 + i - 1 = n + i /\ n + i \in n + 1 .. len /\ n + i \in 1 .. len
            OBVIOUS
        <3>4. outbox' = SubSeq(outbox, n + 1, len)
            BY <1>3, <2>1, <2>2 DEF Pending
        <3> QED
            BY <3>2, <3>3, <3>4
    <2>4. BoxOrder'
        <3>1. \A i \in 1 .. len - n: outbox[n + i].seq = next - len + (n + i) - 1
            BY <2>1, <2>3 DEF BoxOrder
        <3>2. \A i \in 1 .. len - n: next - len + (n + i) - 1 = next - (len - n) + i - 1
            BY <2>1
        <3>3. \A i \in 1 .. len - n: outbox'[i].seq = next - (len - n) + i - 1
            BY <2>3, <3>1, <3>2
        <3>4. len - n < next
            BY <2>1
        <3> QED
            BY <1>1, <2>3, <3>3, <3>4 DEF BoxOrder
    <2>5. Box' \subseteq Box /\ \A r \in Box': r.seq > a
        <3> SUFFICES ASSUME NEW r \in Box' PROVE r \in Box /\ r.seq > a
            OBVIOUS
        <3>1. PICK i \in 1 .. len - n: r = outbox'[i]
            BY <2>3 DEF Box
        <3>2. r = outbox[n + i] /\ n + i \in n + 1 .. len /\ n + i \in 1 .. len
            BY <2>3, <3>1
        <3> QED
            BY <2>1, <2>2, <3>2 DEF Box
    <2>6. ASSUME NEW r \in Box
          PROVE  r \in Box' \/ r.seq <= a
        <3>1. PICK i \in 1 .. len: r = outbox[i]
            BY <2>1 DEF Box
        <3>2. CASE i <= n
            <4>1. i \in 1 .. n
                BY <3>2
            <4> QED
                BY <2>2, <3>1, <4>1
        <3>3. CASE n < i
            <4>1. i - n \in 1 .. len - n /\ n + (i - n) = i
                BY <3>3
            <4>2. outbox'[i - n] = r
                BY <2>3, <3>1, <4>1
            <4> QED
                BY <2>3, <4>1, <4>2 DEF Box
        <3>4. i <= n \/ n < i
            OBVIOUS
        <3> QED
            BY <3>2, <3>3, <3>4
    <2>7. Len(outbox') <= Backlog
        BY <2>1, <2>3
    <2> QED
        BY <2>3, <2>4, <2>5, <2>6, <2>7
<1>7. Types'
    BY <1>1, <1>2, <1>4, <1>5, <1>6 DEF Types
<1>8. \A r \in Box: Done(r) => Done(r)'
    BY <1>1 DEF Done
<1>9. next \in Nat /\ next <= next'
    BY <1>1 DEF Types
<1>10. FramesCover' /\ Reached' /\ NoGaps'
    <2>1. link' = "down" \/ (link # "down" /\ sent' = sent) \/ \A r \in Box': r.seq > sent'
        BY <1>1, <1>5, <1>6
    <2>2. \A r \in Box': r \in Box \/ r.seq >= next
        BY <1>6
    <2> QED
        BY <1>1, <1>6, <1>7, <1>8, <1>9, <2>1, <2>2, LinkAtRest
<1>11. AcksGood'
    <2>1. \A r \in Box': r \in Box \/ r.seq >= next
        BY <1>6
    <2> QED
        BY <1>2, <1>7, <1>8, <1>9, <2>1, AcksAtRest
<1>12. LinkEnds' /\ ReportFirst' /\ StatusUp' /\ StatusOld'
    BY <1>1, <1>4 DEF LinkEnds, ReportFirst, StatusUp, StatusOld, InOld
<1>13. Known'
    <2>1. ASSUME NEW i \in 1 .. Len(outbox')
          PROVE  conn[outbox'[i].conn] # "none"
        <3>1. outbox'[i] \in Box
            BY <1>6 DEF Box
        <3>2. PICK j \in 1 .. Len(outbox): outbox'[i] = outbox[j]
            BY <3>1 DEF Box
        <3> QED
            BY <3>2 DEF Known
    <2> QED
        BY <1>1, <2>1 DEF Known
<1>14. AckedIsStored'
    <2>1. DOMAIN outbox' = 1 .. Len(outbox') /\ DOMAIN outbox = 1 .. Len(outbox)
        BY <1>6, LenProperties DEF Types
    <2>2. ASSUME NEW d \in Conns, NEW e \in BOOLEAN, Settled(d, e)', ~Settled(d, e), [conn |-> d, close |-> e] \notin unheard
          PROVE  IF e THEN row[d] = "closed" ELSE row[d] # "none"
        <3>1. \A q \in Box': q.conn # d \/ q.close # e
            BY <2>1, <2>2 DEF Settled, Box
        <3>2. PICK q \in Box: q.conn = d /\ q.close = e
            BY <1>1, <2>1, <2>2 DEF Settled, Box
        <3>3. q.seq <= a
            BY <1>6, <3>1, <3>2
        <3>4. Done(q)
            BY <1>2, <3>3
        <3> QED
            BY <2>2, <3>2, <3>4 DEF Done
    <2> SUFFICES ASSUME NEW d \in Conns
                 PROVE  /\ conn[d] \in {"live", "over"} /\ Settled(d, FALSE)' /\ [conn |-> d, close |-> FALSE] \notin unheard =>
                             row[d] # "none"
                        /\ conn[d] = "over" /\ Settled(d, TRUE)' /\ [conn |-> d, close |-> TRUE] \notin unheard =>
                             row[d] = "closed"
        BY <1>1 DEF AckedIsStored
    <2> QED
        BY <2>2 DEF AckedIsStored
<1> QED
    BY <1>6, <1>7, <1>10, <1>11, <1>12, <1>13, <1>14

\* A frame goes out, unheard before the gateway listens, into nowhere when the
\* link is dead.
LEMMA SendKeeps ==
    ASSUME HInv, SendFrame
    PROVE  HInv'
<1> USE DEF HInv
<1>1. PICK b \in Batches(outbox, sent):
        /\ \/ /\ link # "down"
              /\ up' = Append(up, [kind |-> "history", inst |-> inst, recs |-> b])
              /\ UNCHANGED unheard
           \/ /\ link = "init" /\ up = <<>>
              /\ unheard' = unheard \cup {[conn |-> b[i].conn, close |-> b[i].close] : i \in DOMAIN b}
              /\ UNCHANGED up
           \/ /\ link = "down"
              /\ UNCHANGED <<up, unheard>>
        /\ UNCHANGED <<proxy, link, acks, backend, faults>>
        /\ Sending(outbox, b[Len(b)].seq)
    BY DEF SendFrame
<1>2. /\ UNCHANGED <<conn, home, inst, outbox, next, dropped, from, old, row, seen, link, acks>>
      /\ task = "sending" /\ sent' = b[Len(b)].seq /\ task' \in {"idle", "sending"}
    BY <1>1 DEF SendFrame, proxy, backend, Sending
<1> DEFINE f == [kind |-> "history", inst |-> inst, recs |-> b]
<1>3. /\ f \in Frames /\ Len(b) \in Nat \ {0} /\ \A i \in 1 .. Len(b): b[i] \in Box
      /\ LastSeq(f) \in Nat /\ LastSeq(f) < next /\ LastSeq(f) = sent'
    BY <1>2, BatchIs DEF LastSeq
<1>4. f.kind = "history" /\ f.inst = inst /\ f.recs = b
    OBVIOUS
<1> HIDE DEF f
<1>5. CASE link # "down" /\ up' = Append(up, f) /\ UNCHANGED unheard
    <2>1. PICK len \in Nat: len = Len(up)
        BY UpIs
    <2>2. /\ up' \in Seq(Frames) /\ Len(up') = len + 1
          /\ \A i \in 1 .. len: up'[i] = up[i]
          /\ up'[len + 1] = f
        BY <1>3, <1>5, <2>1, AppendProperties DEF Types
    <2>3. \A k \in 1 .. Len(up'): k \in 1 .. len \/ k = len + 1
        BY <2>2
    <2>4. Types'
        BY <1>2, <1>3, <2>2 DEF Types
    <2>5. FramesCover' /\ Reached' /\ NoGaps'
        BY <1>1, <1>2, <1>5, FrameSent DEF f
    <2>6. BoxOrder' /\ LinkEnds' /\ AckedIsStored' /\ StatusOld'
        BY <1>2, <1>5 DEF BoxOrder, LinkEnds, AckedIsStored, Settled, StatusOld
    <2>7. AcksGood'
        <3>1. Box' = Box /\ \A r \in Box: Done(r) => Done(r)'
            BY <1>2, <1>5 DEF Box, Done
        <3> QED
            BY <1>2, <3>1 DEF AcksGood
    <2>8. Known'
        <3>1. ASSUME NEW k \in 1 .. Len(up'), up'[k].kind = "history", NEW i \in 1 .. Len(up'[k].recs)
              PROVE  conn[up'[k].recs[i].conn] # "none"
            <4>1. CASE k \in 1 .. len
                BY <2>1, <2>2, <3>1, <4>1 DEF Known
            <4>2. CASE k = len + 1
                <5>1. i \in 1 .. Len(b) /\ up'[k].recs[i] = b[i] /\ b[i] \in Box
                    BY <1>3, <1>4, <2>2, <4>2
                <5>2. PICK n \in 1 .. Len(outbox): b[i] = outbox[n]
                    BY <5>1 DEF Box
                <5> QED
                    BY <5>1, <5>2 DEF Known
            <4> QED
                BY <2>3, <4>1, <4>2
        <3> QED
            BY <1>2, <3>1 DEF Known
    <2>9. ReportFirst'
        <3>1. ASSUME NEW k \in 1 .. Len(up')
              PROVE  (up'[k].kind = "status" => k = 1) /\ up'[k].inst = inst
            <4>1. CASE k \in 1 .. len
                BY <2>1, <2>2, <4>1 DEF ReportFirst
            <4>2. CASE k = len + 1
                BY <1>4, <2>2, <4>2
            <4> QED
                BY <2>3, <4>1, <4>2
        <3> QED
            BY <1>2, <3>1 DEF ReportFirst
    <2>10. StatusUp'
        <3>1. CASE len = 0
            BY <1>4, <2>2, <3>1 DEF StatusUp
        <3>2. CASE len # 0
            <4>1. 1 \in 1 .. len /\ up # <<>>
                BY <2>1, <3>2
            <4> QED
                BY <1>2, <2>2, <4>1 DEF StatusUp, InOld
        <3> QED
            BY <3>1, <3>2
    <2> QED
        BY <2>4, <2>5, <2>6, <2>7, <2>8, <2>9, <2>10
<1>6. CASE /\ link = "init" /\ up = <<>>
           /\ unheard' = unheard \cup {[conn |-> b[i].conn, close |-> b[i].close] : i \in DOMAIN b}
           /\ UNCHANGED up
    <2>1. Types'
        BY <1>2, <1>3, <1>6 DEF Types
    <2>2. FramesCover' /\ Reached' /\ NoGaps'
        <3>1. link # "down"
            BY <1>6
        <3> QED
            BY <1>2, <1>6, <3>1, FrameUnheard
    <2>3. BoxOrder' /\ LinkEnds' /\ StatusOld' /\ StatusUp' /\ ReportFirst' /\ Known'
        BY <1>2, <1>6 DEF BoxOrder, LinkEnds, StatusOld, StatusUp, InOld, ReportFirst, Known
    <2>4. AcksGood'
        <3>1. Box' = Box /\ \A r \in Box: Done(r) => Done(r)'
            BY <1>2, <1>6 DEF Box, Done
        <3> QED
            BY <1>2, <3>1 DEF AcksGood
    <2>5. AckedIsStored'
        <3>1. unheard \subseteq unheard'
            BY <1>6
        <3> QED
            BY <1>2, <3>1 DEF AckedIsStored, Settled
    <2> QED
        BY <2>1, <2>2, <2>3, <2>4, <2>5
<1>7. CASE link = "down" /\ UNCHANGED <<up, unheard>>
    <2>1. Types' /\ LinkEnds'
        BY <1>2, <1>3, <1>7 DEF Types, LinkEnds
    <2> QED
        BY <1>2, <1>7, <2>1, LinkStepKeeps
<1> QED
    BY <1>1, <1>5, <1>6, <1>7 DEF f

\* A report goes out on an empty link.
LEMMA ReportKeeps ==
    ASSUME HInv, NEW listed \in SUBSET Conns, Report(listed)
    PROVE  HInv'
<1> USE DEF HInv
<1> DEFINE f == [kind |-> "status", inst |-> inst, listed |-> listed, complete |-> Complete(listed)]
<1>1. /\ task = "idle" /\ link = "up" /\ up = <<>> /\ up' = <<f>>
      /\ UNCHANGED <<conn, home, inst, outbox, next, dropped, from, old, row, seen, task, sent, link, acks, unheard>>
    BY DEF Report, proxy, backend
<1>2. Complete(listed) \in BOOLEAN
    BY DEF Complete
<1>3. f \in Frames
    BY <1>2 DEF Frames, StatusFrames, Types
<1>4. f.kind = "status" /\ f.inst = inst /\ f.listed = listed /\ f.complete = Complete(listed)
    OBVIOUS
<1> HIDE DEF f
<1>5. up' \in Seq(Frames) /\ Len(up') = 1 /\ up'[1] = f /\ \A k \in 1 .. Len(up'): k = 1
    BY <1>1, <1>3
<1>6. Types'
    BY <1>1, <1>5 DEF Types
<1>7. FramesCover' /\ Reached' /\ NoGaps'
    <2>1. link # "down" /\ up'[1].kind = "status"
        BY <1>1, <1>4, <1>5
    <2> QED
        BY <1>1, <1>5, <1>6, <2>1, ReportSent
<1>8. BoxOrder' /\ LinkEnds' /\ StatusOld' /\ AckedIsStored'
    BY <1>1 DEF BoxOrder, LinkEnds, StatusOld, AckedIsStored, Settled
<1>9. AcksGood'
    <2>1. Box' = Box /\ \A r \in Box: Done(r) => Done(r)'
        BY <1>1 DEF Box, Done
    <2> QED
        BY <1>1, <2>1 DEF AcksGood
<1>10. Known' /\ ReportFirst'
    BY <1>1, <1>4, <1>5 DEF Known, ReportFirst
<1>11. StatusUp'
    BY <1>1, <1>4, <1>5 DEF StatusUp, Complete
<1> QED
    BY <1>6, <1>7, <1>8, <1>9, <1>10, <1>11

-----------------------------------------------------------------------------
(***************************************************************************)
(* Links that break                                                        *)
(***************************************************************************)

\* The link breaks, alone or with the proxy's process or the Backend's: frames of
\* it that still finish come behind those there were.
LEMMA LossKeeps ==
    ASSUME HInv, LinkLost \/ ProxyRestart
    PROVE  HInv'
<1> USE DEF HInv
<1>1. link' = "down" /\ up' = <<>> /\ from' = 0 /\ UNCHANGED <<home, row, seen, dropped, unheard>>
    BY DEF LinkLost, ProxyRestart, proxy
<1>2. /\ old' \in [frames : Seq(Frames), from : Nat]
      /\ \A k \in 1 .. Len(old'.frames):
            \/ \E j \in 1 .. Len(old.frames): old'.frames[k] = old.frames[j]
            \/ \E j \in 1 .. Len(up): old'.frames[k] = up[j]
    <2>1. old.frames \in Seq(Frames) /\ up \in Seq(Frames) /\ from \in Nat /\ Len(old.frames) \in Nat /\ Len(up) \in Nat
        BY LenProperties DEF Types
    <2>2. <<>> \in Seq(Frames) /\ Len(<<>>) = 0 /\ \A k: k \notin 1 .. 0
        BY EmptySeq
    <2>3. ASSUME NEW n \in 0 .. Len(up), old' = [frames |-> old.frames \o (IF link = "up" THEN SubSeq(up, 1, n) ELSE <<>>), from |-> from]
          PROVE  /\ old' \in [frames : Seq(Frames), from : Nat]
                 /\ \A k \in 1 .. Len(old'.frames):
                      \/ \E j \in 1 .. Len(old.frames): old'.frames[k] = old.frames[j]
                      \/ \E j \in 1 .. Len(up): old'.frames[k] = up[j]
        <3>1. PICK s \in Seq(Frames): s = (IF link = "up" THEN SubSeq(up, 1, n) ELSE <<>>) /\ Len(s) \in Nat
                                      /\ \A i \in 1 .. Len(s): \E j \in 1 .. Len(up): s[i] = up[j]
            <4>1. 1 \in 1 .. Len(up) + 1 /\ n \in 1 - 1 .. Len(up)
                BY <2>1
            <4>2. /\ SubSeq(up, 1, n) \in Seq(Frames)
                  /\ Len(SubSeq(up, 1, n)) = (IF 1 <= n THEN n - 1 + 1 ELSE 0)
                  /\ \A i \in 1 .. n - 1 + 1: SubSeq(up, 1, n)[i] = up[1 + i - 1]
                BY <2>1, <4>1, SubSeqProperties
            <4>3. n \in Nat /\ (IF 1 <= n THEN n - 1 + 1 ELSE 0) = n /\ n - 1 + 1 = n
                BY <2>1
            <4>4. \A i \in 1 .. n: 1 + i - 1 = i /\ i \in 1 .. Len(up)
                BY <2>1
            <4>5. Len(SubSeq(up, 1, n)) = n /\ \A i \in 1 .. n: SubSeq(up, 1, n)[i] = up[i] /\ i \in 1 .. Len(up)
                <5>1. \A i \in 1 .. n: SubSeq(up, 1, n)[i] = up[1 + i - 1]
                    BY <4>2, <4>3
                <5> QED
                    BY <4>2, <4>3, <4>4, <5>1
            <4>6. CASE link = "up"
                <5>1. Len(SubSeq(up, 1, n)) \in Nat
                    BY <4>3, <4>5
                <5>2. \A i \in 1 .. Len(SubSeq(up, 1, n)): \E j \in 1 .. Len(up): SubSeq(up, 1, n)[i] = up[j]
                    BY <4>5
                <5>3. (IF link = "up" THEN SubSeq(up, 1, n) ELSE <<>>) = SubSeq(up, 1, n)
                    BY <4>6
                <5> QED
                    BY <4>2, <5>1, <5>2, <5>3, Zenon
            <4>7. CASE link # "up"
                BY <2>2, <4>7
            <4> QED
                BY <4>6, <4>7
        <3>2. old' = [frames |-> old.frames \o s, from |-> from]
            BY <2>3, <3>1
        <3>3. /\ old.frames \o s \in Seq(Frames) /\ Len(old.frames \o s) = Len(old.frames) + Len(s)
              /\ \A i \in 1 .. Len(old.frames) + Len(s):
                    (old.frames \o s)[i] = IF i <= Len(old.frames) THEN old.frames[i] ELSE s[i - Len(old.frames)]
            <4>1. old.frames \in Seq(Frames) /\ s \in Seq(Frames)
                BY <2>1, <3>1
            <4> QED
                BY <4>1, ConcatProperties
        <3>4. old' \in [frames : Seq(Frames), from : Nat] /\ old'.frames = old.frames \o s
            BY <2>1, <3>2, <3>3
        <3>5. ASSUME NEW k \in 1 .. Len(old.frames) + Len(s)
              PROVE  \/ \E j \in 1 .. Len(old.frames): (old.frames \o s)[k] = old.frames[j]
                     \/ \E j \in 1 .. Len(up): (old.frames \o s)[k] = up[j]
            <4>1. CASE k <= Len(old.frames)
                <5>1. k \in 1 .. Len(old.frames)
                    BY <2>1, <3>1, <4>1
                <5> QED
                    BY <3>3, <4>1, <5>1
            <4>2. CASE ~(k <= Len(old.frames))
                <5>1. k - Len(old.frames) \in 1 .. Len(s)
                    <6>1. PICK x \in Nat, y \in Nat: x = Len(old.frames) /\ y = Len(s)
                        BY <2>1, <3>1
                    <6>2. k \in 1 .. x + y /\ ~(k <= x)
                        BY <4>2, <6>1
                    <6>3. k - x \in 1 .. y
                        BY <6>2
                    <6> QED
                        BY <6>1, <6>3
                <5> QED
                    BY <3>1, <3>3, <4>2, <5>1
            <4> QED
                BY <4>1, <4>2
        <3> QED
            BY <3>3, <3>4, <3>5
    <2>4. CASE ProxyRestart
        <3>1. Len(up) \in 0 .. Len(up) /\ SubSeq(up, 1, Len(up)) = up
            BY <2>1, SubSeqFull
        <3>2. old' = [frames |-> old.frames \o (IF link = "up" THEN SubSeq(up, 1, Len(up)) ELSE <<>>), from |-> from]
            BY <2>4, <3>1 DEF ProxyRestart
        <3> QED
            BY <2>3, <3>1, <3>2
    <2>5. CASE LinkLost
        <3>1. CASE old' = [frames |-> <<>>, from |-> 0]
            BY <2>2, <3>1
        <3> QED
            BY <2>3, <2>5, <3>1 DEF LinkLost
    <2> QED
        BY <2>4, <2>5
<1>3. FramesCover' /\ Reached' /\ NoGaps' /\ ReportFirst' /\ StatusUp'
    <2>1. Len(up') = 0 /\ \A k: k \notin 1 .. 0
        BY <1>1
    <2>2. Marks' = {}
        BY <1>1, <2>1 DEF Marks
    <2> QED
        BY <1>1, <2>1, <2>2 DEF FramesCover, Reached, NoGaps, ReportFirst, StatusUp
<1>4. ASSUME \A c \in Conns: conn[c] # "none" => conn'[c] # "none",
             \A i \in 1 .. Len(outbox'): outbox'[i] \in Box
      PROVE  Known'
    <2>1. ASSUME NEW f \in Frames, f.kind = "history", NEW i \in 1 .. Len(f.recs), conn[f.recs[i].conn] # "none"
          PROVE  conn'[f.recs[i].conn] # "none"
        BY <1>4, <2>1, RecordIs
    <2>2. ASSUME NEW k \in 1 .. Len(old'.frames), old'.frames[k].kind = "history", NEW i \in 1 .. Len(old'.frames[k].recs)
          PROVE  conn'[old'.frames[k].recs[i].conn] # "none"
        <3>1. old'.frames[k] \in Frames
            BY <1>2, ElementOfSeq
        <3>2. CASE \E j \in 1 .. Len(old.frames): old'.frames[k] = old.frames[j]
            BY <2>1, <2>2, <3>1, <3>2 DEF Known
        <3>3. CASE \E j \in 1 .. Len(up): old'.frames[k] = up[j]
            BY <2>1, <2>2, <3>1, <3>3 DEF Known
        <3> QED
            BY <1>2, <3>2, <3>3
    <2>3. ASSUME NEW i \in 1 .. Len(outbox')
          PROVE  conn'[outbox'[i].conn] # "none"
        <3>1. PICK j \in 1 .. Len(outbox): outbox'[i] = outbox[j]
            BY <1>4 DEF Box
        <3>2. outbox[j].conn \in Conns
            BY BoxIs
        <3> QED
            BY <1>4, <3>1, <3>2 DEF Known
    <2>4. \A k: k \notin 1 .. Len(up')
        BY <1>1
    <2> QED
        BY <1>1, <1>4, <2>2, <2>3, <2>4 DEF Known
<1>5. CASE LinkLost
    <2>1. UNCHANGED <<conn, home, inst, outbox, next, dropped, task, sent, acks, row, seen, unheard>>
        BY <1>5 DEF LinkLost, proxy
    <2>2. Types'
        BY <1>1, <1>2, <2>1, EmptySeq DEF Types
    <2>3. BoxOrder' /\ LinkEnds' /\ AckedIsStored'
        BY <1>1, <2>1 DEF BoxOrder, LinkEnds, AckedIsStored, Settled
    <2>4. AcksGood'
        <3>1. Box' = Box /\ \A r \in Box: Done(r) => Done(r)'
            BY <2>1 DEF Box, Done
        <3> QED
            BY <2>1, <3>1 DEF AcksGood
    <2>5. Known'
        BY <1>4, <2>1 DEF Box
    <2>6. StatusOld'
        <3> SUFFICES ASSUME NEW k \in 1 .. Len(old'.frames), old'.frames[k].kind = "status", old'.frames[k].complete,
                            NEW c \in Conns, conn[c] = "live", home[c] = old'.frames[k].inst, c \notin old'.frames[k].listed
                     PROVE  row[c] # "open" \/ c \in seen
            BY <2>1 DEF StatusOld
        <3>1. CASE \E j \in 1 .. Len(old.frames): old'.frames[k] = old.frames[j]
            BY <3>1 DEF StatusOld
        <3>2. CASE \E j \in 1 .. Len(up): old'.frames[k] = up[j]
            <4>1. PICK j \in 1 .. Len(up): old'.frames[k] = up[j]
                BY <3>2
            <4>2. j = 1
                BY <4>1 DEF ReportFirst
            <4>3. up # <<>>
                BY <4>1, <4>2
            <4> QED
                BY <4>1, <4>2, <4>3 DEF StatusUp
        <3> QED
            BY <1>2, <3>1, <3>2
    <2> QED
        BY <1>3, <2>2, <2>3, <2>4, <2>5, <2>6
<1>6. CASE ProxyRestart
    <2>1. /\ outbox' = <<>> /\ next' = 1 /\ task' = "down" /\ sent' = 0 /\ acks' = <<>> /\ inst' = inst + 1
          /\ conn' = [c \in Conns |->
                        IF conn[c] = "live" \/ \E i \in DOMAIN outbox: outbox[i].conn = c THEN "gone" ELSE conn[c]]
        BY <1>6 DEF ProxyRestart
    <2>2. \A c \in Conns: /\ conn'[c] # "live" /\ (conn[c] # "none" => conn'[c] # "none")
                          /\ conn'[c] = "over" => conn[c] = "over" /\ \A i \in DOMAIN outbox: outbox[i].conn # c
        BY <2>1 DEF Types
    <2>3. Types'
        <3>1. conn' \in [Conns -> {"none", "live", "over", "gone"}]
            BY <2>1 DEF Types
        <3>2. Len(outbox') <= Backlog
            BY <2>1, HistoryConstants
        <3> QED
            BY <1>1, <1>2, <2>1, <3>1, <3>2, EmptySeq DEF Types
    <2>4. \A i: i \notin 1 .. Len(outbox') /\ i \notin 1 .. Len(acks')
        BY <2>1
    <2>5. BoxOrder' /\ LinkEnds' /\ AcksGood'
        BY <1>1, <2>1, <2>4 DEF BoxOrder, LinkEnds, AcksGood
    <2>6. Known'
        BY <1>4, <2>2, <2>4
    <2>7. StatusOld'
        BY <2>2 DEF StatusOld
    <2>8. AckedIsStored'
        <3> SUFFICES ASSUME NEW d \in Conns, conn'[d] = "over"
                     PROVE  /\ Settled(d, FALSE)' /\ [conn |-> d, close |-> FALSE] \notin unheard => row[d] # "none"
                            /\ Settled(d, TRUE)' /\ [conn |-> d, close |-> TRUE] \notin unheard => row[d] = "closed"
            BY <1>1, <2>2 DEF AckedIsStored
        <3>1. conn[d] = "over" /\ \A i \in DOMAIN outbox: outbox[i].conn # d
            BY <2>2
        <3>2. (Settled(d, FALSE)' => Settled(d, FALSE)) /\ (Settled(d, TRUE)' => Settled(d, TRUE))
            BY <1>1, <3>1 DEF Settled
        <3> QED
            BY <3>1, <3>2 DEF AckedIsStored
    <2> QED
        BY <1>3, <2>3, <2>5, <2>6, <2>7, <2>8
<1> QED
    BY <1>5, <1>6

-----------------------------------------------------------------------------
(***************************************************************************)
(* The Backend's steps                                                     *)
(***************************************************************************)

\* What a step of the Backend leaves true of the proxy's records.
LEMMA RowStep ==
    ASSUME HInv, RowsKept, UNCHANGED <<conn, outbox, next, dropped, unheard>>
    PROVE  /\ Box' = Box /\ BoxOrder' /\ AckedIsStored'
           /\ \A r \in Box: Done(r) => Done(r)'
<1> USE DEF HInv
<1>1. Box' = Box /\ BoxOrder'
    BY DEF Box, BoxOrder
<1>2. \A r \in Box: Done(r) => Done(r)'
    BY DoneStays
<1>3. AckedIsStored'
    <2>1. \A c \in Conns: /\ row[c] \in {"none", "open", "lost", "closed"}
                          /\ row[c] = "closed" => row'[c] = "closed"
                          /\ row[c] # "none" => row'[c] # "none"
        BY DEF RowsKept, Types
    <2> QED
        BY <2>1 DEF AckedIsStored, Settled
<1> QED
    BY <1>1, <1>2, <1>3

\* The rest of the link, without its first frame, holds no report.
LEMMA RestOfLink ==
    ASSUME HInv, up # <<>>, up' = Tail(up), conn' = conn, inst' = inst
    PROVE  /\ up[1] \in Frames /\ up[1] = Head(up) /\ 1 \in 1 .. Len(up) /\ up' \in Seq(Frames)
           /\ \A k \in 1 .. Len(up'): up'[k].kind = "history" => \A i \in 1 .. Len(up'[k].recs): conn[up'[k].recs[i].conn] # "none"
           /\ ReportFirst' /\ StatusUp'
<1> USE DEF HInv
<1>1. up \in Seq(Frames) /\ Len(up) \in Nat \ {0}
    BY EmptySeq DEF Types
<1>2. Tail(up) \in Seq(Frames) /\ Len(Tail(up)) = Len(up) - 1 /\ \A k \in 1 .. Len(Tail(up)): Tail(up)[k] = up[k + 1]
    BY <1>1, HeadTailProperties
<1>3. 1 \in 1 .. Len(up) /\ up[1] = Head(up) /\ up[1] \in Frames
    BY <1>1, UpIs
<1>4. \A k \in 1 .. Len(up'): up'[k] = up[k + 1] /\ k + 1 \in 1 .. Len(up) /\ k + 1 # 1
    BY <1>1, <1>2
<1>5. \A k \in 1 .. Len(up'): up'[k].kind # "status" /\ up'[k].inst = inst
    BY <1>4 DEF ReportFirst
<1>6. \A k \in 1 .. Len(up'): up'[k].kind = "history" => \A i \in 1 .. Len(up'[k].recs): conn[up'[k].recs[i].conn] # "none"
    BY <1>4 DEF Known
<1>7. StatusUp'
    <2>1. up' # <<>> => 1 \in 1 .. Len(up')
        BY <1>2, EmptySeq
    <2> QED
        BY <1>5, <2>1 DEF StatusUp
<1> QED
    BY <1>2, <1>3, <1>5, <1>6, <1>7 DEF ReportFirst

\* ingest: a frame is stored and acknowledged, fails, or waits for one that did.
LEMMA IngestKeeps ==
    ASSUME HInv, Ingest
    PROVE  HInv'
<1> USE DEF HInv
<1>1. /\ link = "up" /\ up # <<>> /\ up' = Tail(up)
      /\ UNCHANGED <<conn, home, inst, outbox, next, dropped, task, sent, link, old, unheard>>
    BY DEF Ingest, proxy
<1>2. /\ up[1] \in Frames /\ up[1] = Head(up) /\ 1 \in 1 .. Len(up) /\ up' \in Seq(Frames)
      /\ \A k \in 1 .. Len(up'): up'[k].kind = "history" => \A i \in 1 .. Len(up'[k].recs): conn[up'[k].recs[i].conn] # "none"
      /\ ReportFirst' /\ StatusUp'
    BY <1>1, RestOfLink
<1>3. PICK f \in Frames: f = up[1] /\ f = Head(up) /\ f.kind = "history"
    BY <1>2 DEF Ingest
<1>4. /\ FirstSeq(f) \in Nat /\ LastSeq(f) \in Nat
      /\ 1 <= FirstSeq(f) /\ FirstSeq(f) <= LastSeq(f) /\ LastSeq(f) < next
      /\ \A i \in 1 .. Len(f.recs): FirstSeq(f) <= f.recs[i].seq /\ f.recs[i].seq <= LastSeq(f)
      /\ \A r \in Box: FirstSeq(f) <= r.seq /\ r.seq <= LastSeq(f) => Carries(f, r)
    BY <1>2, <1>3 DEF FramesCover
<1>5. \A r \in Box: Carries(f, r) => FirstSeq(f) <= r.seq
    BY <1>4 DEF Carries
<1>6. \A r \in Box: r.seq \in Nat
    BY BoxIs
<1>7. Waits(f, from) <=> from # 0 /\ FirstSeq(f) > from
    BY DEF Waits, FirstSeq
<1>8. next \in Nat /\ from \in Nat
    BY DEF Types
<1>9. ASSUME Waits(f, from), UNCHANGED <<from, row, seen, acks>>
      PROVE  HInv'
    <2>1. RowsKept /\ OpensAreSeen
        BY <1>9, RowsAtRest
    <2>2. Box' = Box /\ BoxOrder' /\ AckedIsStored' /\ \A r \in Box: Done(r) => Done(r)'
        BY <1>1, <2>1, RowStep
    <2>3. Types' /\ LinkEnds'
        BY <1>1, <1>2, <1>9 DEF Types, LinkEnds
    <2>4. FramesCover' /\ Reached' /\ NoGaps'
        <3>1. \A r \in Box: Held(r) => Held(r)'
            BY <1>9 DEF Held
        <3>2. \A r \in Box: Carries(f, r) => Held(r)'
            BY <1>4, <1>5, <1>6, <1>7, <1>8, <1>9 DEF Held
        <3> QED
            BY <1>1, <1>3, <2>2, <2>3, <3>1, <3>2, FrameTaken
    <2>5. AcksGood'
        BY <1>1, <1>9, <2>2 DEF AcksGood
    <2>6. Known' /\ StatusOld'
        BY <1>1, <1>2, <1>9 DEF Known, StatusOld
    <2> QED
        BY <1>2, <2>2, <2>3, <2>4, <2>5, <2>6
<1>10. ASSUME ~Waits(f, from), from' = 0, row' = Upserted(f.recs), seen' = seen \cup Reported(f.recs),
              acks' = Append(acks, f.recs[Len(f.recs)].seq)
       PROVE  HInv'
    <2>1. /\ row' \in [Conns -> {"none", "open", "lost", "closed"}] /\ seen' \subseteq Conns
          /\ RowsKept /\ OpensAreSeen
          /\ \A i \in 1 .. Len(f.recs): IF f.recs[i].close THEN row'[f.recs[i].conn] = "closed" ELSE row'[f.recs[i].conn] # "none"
          /\ \A c \in Conns: row'[c] = row[c] \/ \E i \in 1 .. Len(f.recs): f.recs[i].conn = c
        BY <1>3, <1>10, UpsertedIs
    <2>2. Box' = Box /\ BoxOrder' /\ AckedIsStored' /\ \A r \in Box: Done(r) => Done(r)'
        BY <1>1, <2>1, RowStep
    <2>3. acks' = Append(acks, LastSeq(f)) /\ acks' \in Seq(Nat)
        BY <1>4, <1>10, AppendProperties DEF LastSeq, Types
    <2>4. Types' /\ LinkEnds'
        BY <1>1, <1>2, <1>10, <2>1, <2>3 DEF Types, LinkEnds
    <2>5. \A r \in Box: Carries(f, r) => Done(r)'
        BY <2>1 DEF Carries, Done
    <2>6. from = 0 \/ FirstSeq(f) <= from
        BY <1>4, <1>7, <1>8, <1>10
    <2>7. FramesCover' /\ Reached' /\ NoGaps'
        <3>1. \A r \in Box: Held(r) => FirstSeq(f) <= r.seq
            BY <1>4, <1>6, <1>8, <2>6 DEF Held
        <3> QED
            BY <1>1, <1>3, <2>2, <2>4, <2>5, <3>1, FrameTaken
    <2>8. \A r \in Box: r.seq <= LastSeq(f) => Done(r)'
        <3> SUFFICES ASSUME NEW r \in Box, r.seq <= LastSeq(f) PROVE Done(r)'
            OBVIOUS
        <3>1. CASE FirstSeq(f) <= r.seq
            BY <1>4, <2>5, <3>1
        <3>2. CASE r.seq < FirstSeq(f)
            <4>1. 1 \in Marks /\ Mark(1) = FirstSeq(f)
                <5>1. 1 <= Len(up)
                    BY <1>2, UpIs
                <5> QED
                    BY <1>2, <1>3, <5>1 DEF Marks, Mark
            <4>2. Done(r) \/ Held(r) \/ \E j \in 1 .. 1 - 1: Carries(up[j], r)
                BY <3>2, <4>1 DEF Reached
            <4>3. ~Held(r)
                BY <1>4, <1>6, <1>8, <2>6, <3>2 DEF Held
            <4>4. \A j: j \notin 1 .. 1 - 1
                OBVIOUS
            <4> QED
                BY <2>2, <4>2, <4>3, <4>4
        <3>3. FirstSeq(f) <= r.seq \/ r.seq < FirstSeq(f)
            BY <1>4, <1>6
        <3> QED
            BY <3>1, <3>2, <3>3
    <2>9. AcksGood'
        <3> SUFFICES ASSUME NEW i \in 1 .. Len(acks')
                     PROVE  acks'[i] < next /\ \A r \in Box: r.seq <= acks'[i] => Done(r)'
            BY <1>1, <2>2 DEF AcksGood
        <3>1. PICK len \in Nat: len = Len(acks) /\ Len(acks') = len + 1
                                /\ (\A k \in 1 .. len: acks'[k] = acks[k]) /\ acks'[len + 1] = LastSeq(f)
            <4>1. acks \in Seq(Nat) /\ LastSeq(f) \in Nat /\ Len(acks) \in Nat
                BY <1>4, LenProperties DEF Types
            <4>2. /\ Len(Append(acks, LastSeq(f))) = Len(acks) + 1
                  /\ \A k \in 1 .. Len(acks): Append(acks, LastSeq(f))[k] = acks[k]
                  /\ Append(acks, LastSeq(f))[Len(acks) + 1] = LastSeq(f)
                BY <4>1, AppendProperties
            <4> QED
                BY <2>3, <4>1, <4>2
        <3>2. i \in 1 .. len \/ i = len + 1
            BY <3>1
        <3>3. CASE i \in 1 .. len
            BY <2>2, <3>1, <3>3 DEF AcksGood
        <3>4. CASE i = len + 1
            BY <1>4, <2>8, <3>1, <3>4
        <3> QED
            BY <3>2, <3>3, <3>4
    <2>10. Known'
        <3>1. ASSUME NEW c \in Conns, row'[c] # "none"
              PROVE  conn[c] # "none"
            <4>1. CASE row'[c] = row[c]
                BY <3>1, <4>1 DEF Known
            <4>2. CASE \E i \in 1 .. Len(f.recs): f.recs[i].conn = c
                BY <1>2, <1>3, <4>2 DEF Known
            <4> QED
                BY <2>1, <4>1, <4>2
        <3> QED
            BY <1>1, <1>2, <3>1 DEF Known
    <2>11. StatusOld'
        BY <1>1, <2>1, OldAtRest
    <2> QED
        BY <1>2, <2>2, <2>4, <2>7, <2>9, <2>10, <2>11
<1>11. ASSUME ~Waits(f, from), from' = f.recs[1].seq, UNCHANGED <<row, seen, acks>>
       PROVE  HInv'
    <2>1. RowsKept /\ OpensAreSeen
        BY <1>11, RowsAtRest
    <2>2. Box' = Box /\ BoxOrder' /\ AckedIsStored' /\ \A r \in Box: Done(r) => Done(r)'
        BY <1>1, <2>1, RowStep
    <2>3. from' = FirstSeq(f)
        BY <1>11 DEF FirstSeq
    <2>4. Types' /\ LinkEnds'
        BY <1>1, <1>2, <1>4, <1>11, <2>3 DEF Types, LinkEnds
    <2>5. from = 0 \/ FirstSeq(f) <= from
        BY <1>4, <1>7, <1>8, <1>11
    <2>6. FramesCover' /\ Reached' /\ NoGaps'
        <3>1. \A r \in Box: Held(r) => Held(r)'
            BY <1>4, <1>6, <1>8, <2>3, <2>5 DEF Held
        <3>2. \A r \in Box: Carries(f, r) => Held(r)'
            BY <1>4, <1>5, <2>3 DEF Held
        <3> QED
            BY <1>1, <1>3, <2>2, <2>4, <3>1, <3>2, FrameTaken
    <2>7. AcksGood'
        BY <1>1, <1>11, <2>2 DEF AcksGood
    <2>8. Known' /\ StatusOld'
        BY <1>1, <1>2, <1>11 DEF Known, StatusOld
    <2> QED
        BY <1>2, <2>2, <2>4, <2>6, <2>7, <2>8
<1>12. \/ Waits(f, from) /\ UNCHANGED <<from, row, seen, acks>>
       \/ /\ ~Waits(f, from) /\ from' = 0 /\ row' = Upserted(f.recs) /\ seen' = seen \cup Reported(f.recs)
          /\ acks' = Append(acks, f.recs[Len(f.recs)].seq)
       \/ ~Waits(f, from) /\ from' = f.recs[1].seq /\ UNCHANGED <<row, seen, acks>>
    BY <1>3 DEF Ingest
<1> QED
    BY <1>9, <1>10, <1>11, <1>12

\* checkpoint on the link: what is given up does not live.
LEMMA CheckpointKeeps ==
    ASSUME HInv, Checkpoint
    PROVE  HInv'
<1> USE DEF HInv
<1>1. /\ link = "up" /\ up # <<>> /\ up' = Tail(up) /\ Checkpointed(Head(up)) /\ Head(up).kind = "status"
      /\ UNCHANGED <<conn, home, inst, outbox, next, dropped, task, sent, link, acks, from, old, unheard>>
    BY DEF Checkpoint, proxy
<1>2. /\ up[1] \in Frames /\ up[1] = Head(up) /\ 1 \in 1 .. Len(up) /\ up' \in Seq(Frames)
      /\ \A k \in 1 .. Len(up'): up'[k].kind = "history" => \A i \in 1 .. Len(up'[k].recs): conn[up'[k].recs[i].conn] # "none"
      /\ ReportFirst' /\ StatusUp'
    BY <1>1, RestOfLink
<1>3. /\ row' \in [Conns -> {"none", "open", "lost", "closed"}] /\ seen' \subseteq Conns
      /\ RowsKept /\ OpensAreSeen
      /\ \A c \in Conns: row'[c] # row[c] => row[c] = "open"
    BY <1>1, <1>2, CheckpointedIs
<1>4. Box' = Box /\ BoxOrder' /\ AckedIsStored' /\ \A r \in Box: Done(r) => Done(r)'
    BY <1>1, <1>3, RowStep
<1>5. Types' /\ LinkEnds'
    BY <1>1, <1>2, <1>3 DEF Types, LinkEnds
<1>6. FramesCover' /\ Reached' /\ NoGaps'
    <2>1. \A r \in Box: ~Carries(up[1], r)
        BY <1>1, <1>2 DEF Carries
    <2>2. \A r \in Box: Held(r) => Held(r)'
        BY <1>1 DEF Held
    <2> QED
        BY <1>1, <1>4, <1>5, <2>1, <2>2, FrameTaken
<1>7. AcksGood'
    BY <1>1, <1>4 DEF AcksGood
<1>8. Known'
    <2>1. \A c \in Conns: row'[c] # "none" => row[c] # "none"
        BY <1>3
    <2> QED
        BY <1>1, <1>2, <2>1 DEF Known
<1>9. StatusOld'
    BY <1>1, <1>3, OldAtRest
<1> QED
    BY <1>2, <1>4, <1>5, <1>6, <1>7, <1>8, <1>9

\* The queued writes of a link that is gone.
LEMMA OldWriteKeeps ==
    ASSUME HInv, OldWrite
    PROVE  HInv'
<1> USE DEF HInv
<1>1. /\ old.frames # <<>>
      /\ UNCHANGED <<conn, home, inst, outbox, next, dropped, task, sent, link, up, acks, from, unheard>>
    BY DEF OldWrite, proxy
<1>2. old.frames \in Seq(Frames) /\ Len(old.frames) \in Nat \ {0} /\ old.from \in Nat
    BY <1>1, EmptySeq DEF Types
<1>3. PICK f \in Frames: f = Head(old.frames) /\ f = old.frames[1] /\ 1 \in 1 .. Len(old.frames)
    <2>1. 1 \in 1 .. Len(old.frames) /\ Head(old.frames) = old.frames[1] /\ old.frames[1] \in Frames
        BY <1>2, ElementOfSeq
    <2> QED
        BY <2>1
<1>4. old' \in [frames : Seq(Frames), from : Nat] /\ old'.frames = Tail(old.frames)
    <2>1. Tail(old.frames) \in Seq(Frames)
        BY <1>1, <1>2, HeadTailProperties
    <2>2. old' = [old EXCEPT !.frames = Tail(@)] \/ old' = [frames |-> Tail(old.frames), from |-> 0]
        BY DEF OldWrite
    <2>3. old \in [frames : Seq(Frames), from : Nat]
        BY DEF Types
    <2>4. PICK old0 \in [frames : Seq(Frames), from : Nat]: old0 = old
        BY <2>3
    <2>5. CASE old' = [old EXCEPT !.frames = Tail(@)]
        <3>1. old' = [frames |-> Tail(old0.frames), from |-> old0.from]
            BY <2>4, <2>5
        <3> QED
            BY <2>1, <2>4, <3>1
    <2>6. CASE old' = [frames |-> Tail(old.frames), from |-> 0]
        BY <2>1, <2>6
    <2> QED
        BY <2>2, <2>5, <2>6
<1>5. \A k \in 1 .. Len(old'.frames): \E j \in 1 .. Len(old.frames): old'.frames[k] = old.frames[j]
    <2>1. Len(Tail(old.frames)) = Len(old.frames) - 1 /\ \A k \in 1 .. Len(Tail(old.frames)): Tail(old.frames)[k] = old.frames[k + 1]
        BY <1>1, <1>2, HeadTailProperties
    <2>2. \A k \in 1 .. Len(Tail(old.frames)): k + 1 \in 1 .. Len(old.frames)
        BY <1>2, <2>1
    <2> QED
        BY <1>4, <2>1, <2>2
<1>6. /\ row' \in [Conns -> {"none", "open", "lost", "closed"}] /\ seen' \subseteq Conns
      /\ RowsKept /\ OpensAreSeen
      /\ \A c \in Conns: row[c] = "none" /\ row'[c] # "none" => InOld(c)
    <2>1. CASE f.kind = "status"
        <3>1. Checkpointed(f)
            BY <1>3, <2>1 DEF OldWrite
        <3> QED
            BY <2>1, <3>1, CheckpointedIs
    <2>2. CASE f.kind # "status" /\ Waits(f, old.from)
        <3>1. row' = row /\ seen' = seen
            BY <1>3, <2>2 DEF OldWrite
        <3> QED
            BY <3>1, RowsAtRest DEF Types
    <2>3. CASE f.kind # "status" /\ ~Waits(f, old.from)
        <3>1. row' = Upserted(f.recs) /\ seen' = seen \cup Reported(f.recs) /\ f.kind = "history"
            BY <1>3, <2>3, FrameKinds DEF OldWrite
        <3>2. \A c \in Conns: row'[c] = row[c] \/ \E i \in 1 .. Len(f.recs): f.recs[i].conn = c
            BY <3>1, UpsertedIs
        <3>3. \A c \in Conns: row[c] = "none" /\ row'[c] # "none" => InOld(c)
            BY <1>3, <3>1, <3>2 DEF InOld
        <3> QED
            BY <3>1, <3>3, UpsertedIs
    <2> QED
        BY <2>1, <2>2, <2>3
<1>7. Box' = Box /\ BoxOrder' /\ AckedIsStored' /\ \A r \in Box: Done(r) => Done(r)'
    BY <1>1, <1>6, RowStep
<1>8. Types' /\ LinkEnds' /\ ReportFirst'
    BY <1>1, <1>4, <1>6 DEF Types, LinkEnds, ReportFirst
<1>9. FramesCover' /\ Reached' /\ NoGaps'
    <2>1. next <= next' /\ (link' = "down" \/ (link # "down" /\ sent' = sent))
        BY <1>1 DEF Types
    <2> QED
        BY <1>1, <1>7, <1>8, <2>1, LinkAtRest
<1>10. AcksGood'
    BY <1>1, <1>7 DEF AcksGood
<1>11. Known'
    <2>1. \A c \in Conns: row'[c] # "none" => conn[c] # "none"
        BY <1>6 DEF Known, InOld
    <2>2. \A k \in 1 .. Len(old'.frames): old'.frames[k].kind = "history" =>
            \A i \in 1 .. Len(old'.frames[k].recs): conn[old'.frames[k].recs[i].conn] # "none"
        BY <1>5 DEF Known
    <2> QED
        BY <1>1, <2>1, <2>2 DEF Known
<1>12. StatusUp'
    <2>1. \A c \in Conns: InOld(c)' => InOld(c)
        <3> SUFFICES ASSUME NEW c \in Conns, InOld(c)' PROVE InOld(c)
            OBVIOUS
        <3>1. PICK k \in 1 .. Len(old'.frames): /\ old'.frames[k].kind = "history"
                                                /\ \E i \in 1 .. Len(old'.frames[k].recs): old'.frames[k].recs[i].conn = c
            BY DEF InOld
        <3>2. PICK j \in 1 .. Len(old.frames): old'.frames[k] = old.frames[j]
            BY <1>5
        <3> QED
            BY <3>1, <3>2 DEF InOld
    <2> SUFFICES ASSUME up # <<>>, up[1].kind = "status", up[1].complete,
                        NEW c \in Conns, conn[c] = "live", c \notin up[1].listed
                 PROVE  row'[c] = "none" /\ ~InOld(c)'
        BY <1>1 DEF StatusUp
    <2>2. row[c] = "none" /\ ~InOld(c)
        BY DEF StatusUp
    <2> QED
        BY <1>6, <2>1, <2>2
<1>13. StatusOld'
    BY <1>1, <1>5, <1>6, OldAtRest
<1> QED
    BY <1>7, <1>8, <1>9, <1>10, <1>11, <1>12, <1>13

\* closeLost: open rows are given up, and LOST_AFTER passes for the others.
LEMMA SweepKeeps ==
    ASSUME HInv, Sweep \/ Age
    PROVE  HInv'
<1> USE DEF HInv
<1>1. UNCHANGED <<conn, home, inst, outbox, next, dropped, task, sent, link, up, acks, from, old, unheard>>
    BY DEF Sweep, Age, proxy
<1>2. /\ row' \in [Conns -> {"none", "open", "lost", "closed"}] /\ seen' \subseteq Conns /\ RowsKept
      /\ \A c \in Conns: row'[c] # "none" => row[c] # "none"
    <2>1. CASE Sweep
        <3>1. seen' = seen /\ \A c \in Conns: /\ row[c] \in {"none", "open", "lost", "closed"}
                                              /\ row'[c] = IF row[c] = "open" /\ c \notin seen /\ ~Connected(home[c])
                                                             THEN "lost" ELSE row[c]
            BY <2>1 DEF Sweep, Types
        <3>2. \A c \in Conns: row'[c] \in {"none", "open", "lost", "closed"}
            BY <3>1
        <3>3. row' \in [Conns -> {"none", "open", "lost", "closed"}]
            BY <2>1, <3>2 DEF Sweep
        <3> QED
            BY <3>1, <3>3 DEF RowsKept, Types
    <2>2. CASE Age
        BY <2>2 DEF Age, RowsKept, Types
    <2> QED
        BY <2>1, <2>2
<1>3. Box' = Box /\ BoxOrder' /\ AckedIsStored' /\ \A r \in Box: Done(r) => Done(r)'
    BY <1>1, <1>2, RowStep
<1>4. Types' /\ LinkEnds' /\ ReportFirst'
    BY <1>1, <1>2 DEF Types, LinkEnds, ReportFirst
<1>5. FramesCover' /\ Reached' /\ NoGaps'
    <2>1. next <= next' /\ (link' = "down" \/ (link # "down" /\ sent' = sent))
        BY <1>1 DEF Types
    <2> QED
        BY <1>1, <1>3, <1>4, <2>1, LinkAtRest
<1>6. AcksGood'
    BY <1>1, <1>3 DEF AcksGood
<1>7. Known'
    BY <1>1, <1>2 DEF Known
<1>8. StatusUp'
    BY <1>1, <1>2 DEF StatusUp, InOld
<1>9. StatusOld'
    <2>1. CASE Sweep
        <3>1. OpensAreSeen
            BY <2>1 DEF Sweep, OpensAreSeen, Types
        <3> QED
            BY <1>1, <3>1, OldAtRest
    <2>2. CASE Age
        <3>1. \A k: k \notin 1 .. Len(old'.frames)
            BY <1>1, <2>2 DEF Age
        <3> QED
            BY <3>1 DEF StatusOld
    <2> QED
        BY <2>1, <2>2
<1> QED
    BY <1>3, <1>4, <1>5, <1>6, <1>7, <1>8, <1>9

-----------------------------------------------------------------------------
(***************************************************************************)
(* The invariant holds                                                     *)
(***************************************************************************)

LEMMA HInvInitially ==
    ASSUME Init
    PROVE  HInv
<1>1. Len(<<>>) = 0 /\ \A k: k \notin 1 .. 0
    OBVIOUS
<1>2. outbox = <<>> /\ up = <<>> /\ acks = <<>> /\ old.frames = <<>> /\ link = "down"
    BY DEF Init
<1>3. Box = {} /\ Marks = {}
    BY <1>1, <1>2 DEF Box, Marks
<1>4. Types
    BY HistoryConstants DEF Init, Types
<1>5. BoxOrder /\ LinkEnds /\ FramesCover /\ Reached /\ NoGaps /\ AcksGood /\ ReportFirst /\ StatusUp /\ StatusOld
    BY <1>1, <1>2, <1>3 DEF Init, BoxOrder, LinkEnds, FramesCover, Reached, NoGaps, AcksGood, ReportFirst, StatusUp, StatusOld
<1>6. Known /\ AckedIsStored
    BY <1>1, <1>2 DEF Init, Known, AckedIsStored
<1> QED
    BY <1>4, <1>5, <1>6 DEF HInv

LEMMA HInvKept ==
    ASSUME HInv, [Next]_vars
    PROVE  HInv'
<1>1. CASE \E c \in Conns: ReportOpened(c) \/ ReportClosed(c)
    BY <1>1, RecordKeeps
<1>2. CASE LinkLost \/ ProxyRestart
    BY <1>2, LossKeeps
<1>3. CASE Connect \/ Changed \/ Resend \/ Disconnected \/ Listen \/ UNCHANGED vars
    BY <1>3, LinkKeeps
<1>4. CASE SendFrame
    BY <1>4, SendKeeps
<1>5. CASE HistoryAck
    BY <1>5, AckKeeps
<1>6. CASE \E listed \in SUBSET Conns: Report(listed)
    BY <1>6, ReportKeeps
<1>7. CASE Ingest
    BY <1>7, IngestKeeps
<1>8. CASE Checkpoint
    BY <1>8, CheckpointKeeps
<1>9. CASE OldWrite
    BY <1>9, OldWriteKeeps
<1>10. CASE Sweep \/ Age
    BY <1>10, SweepKeeps
<1>11. (ResendLost \/ ResendEarly => Resend) /\ (Status \/ StatusOmits => \E listed \in SUBSET Conns: Report(listed))
    <2>1. Live \in SUBSET Conns /\ Live \ {CHOOSE c \in Live: \A d \in Live: d <= c} \in SUBSET Conns
        BY DEF Live
    <2> QED
        BY <2>1 DEF ResendLost, ResendEarly, Status, StatusOmits
<1> QED
    BY <1>1, <1>2, <1>3, <1>4, <1>5, <1>6, <1>7, <1>8, <1>9, <1>10, <1>11 DEF Next, LoopStep, ChainStep

\* The invariant of the history.  Records leave the outbox only when they are
\* stored because the frames of a link cover all that waits and come without
\* gaps, and the Backend lets nothing past a record whose store failed.
THEOREM Inductive == Spec => []HInv
<1>1. Init => HInv
    BY HInvInitially
<1>2. HInv /\ [Next]_vars => HInv'
    BY HInvKept
<1> QED
    BY <1>1, <1>2, PTL DEF Spec

\* What was acknowledged was stored, whatever failed before it on this link or
\* another, and the outbox is in order and within its bound.
THEOREM RecordsAreKept == Spec => []RecordsAreSafe
<1>1. HInv => RecordsAreSafe
    <2> SUFFICES ASSUME HInv PROVE RecordsAreSafe
        OBVIOUS
    <2> USE DEF HInv
    <2>1. PICK len \in Nat: len = Len(outbox) /\ DOMAIN outbox = 1 .. len
        BY LenProperties DEF Types
    <2>2. ASSUME NEW i \in 1 .. len
          PROVE  outbox[i].seq < next /\ (i > 1 => outbox[i - 1].seq < outbox[i].seq)
        <3>1. next \in Nat /\ outbox[i].seq = next - len + i - 1
            BY <2>1 DEF BoxOrder, Types
        <3>2. i > 1 => i - 1 \in 1 .. len
            OBVIOUS
        <3>3. i > 1 => outbox[i - 1].seq = next - len + (i - 1) - 1
            BY <2>1, <3>2 DEF BoxOrder
        <3> QED
            BY <3>1, <3>3
    <2>3. TypeOK
        BY <2>1, <2>2 DEF TypeOK, Types
    <2> QED
        BY <2>3 DEF RecordsAreSafe
<1> QED
    BY <1>1, Inductive, PTL

\* What a step does to the rows.
LEMMA RowsOfAStep ==
    ASSUME HInv, [Next]_vars
    PROVE  /\ RowsKept
           /\ \A c \in Conns: row[c] # "lost" /\ row'[c] = "lost" => conn[c] # "live" \/ ~Connected(home[c])
<1> DEFINE Given == \A c \in Conns: row[c] # "lost" /\ row'[c] = "lost" => conn[c] # "live" \/ ~Connected(home[c])
<1> USE DEF HInv
<1>1. CASE row' = row
    <2>1. RowsKept
        BY <1>1 DEF RowsKept
    <2> QED
        BY <1>1, <2>1
<1>2. CASE Ingest \/ Checkpoint \/ OldWrite
    <2>1. ASSUME NEW f \in Frames, f.kind = "history", row' = Upserted(f.recs), seen' = seen \cup Reported(f.recs)
          PROVE  RowsKept /\ Given
        BY <2>1, UpsertedIs
    <2>2. ASSUME NEW f \in Frames, f.kind = "status", Checkpointed(f),
                 f.complete => \A c \in Conns: conn[c] = "live" /\ home[c] = f.inst /\ c \notin f.listed =>
                                 row[c] # "open" \/ c \in seen
          PROVE  RowsKept /\ Given
        <3>1. RowsKept /\ \A c \in Conns: row'[c] # row[c] => /\ row[c] = "open" /\ f.complete
                                                             /\ home[c] = f.inst /\ c \notin f.listed /\ c \notin seen
            BY <2>2, CheckpointedIs
        <3> QED
            BY <2>2, <3>1
    <2>3. CASE Ingest
        <3>1. Head(up) \in Frames /\ Head(up).kind = "history"
            BY <2>3, NextFrame DEF Ingest, Types
        <3>2. CASE row' = Upserted(Head(up).recs) /\ seen' = seen \cup Reported(Head(up).recs)
            BY <2>1, <3>1, <3>2
        <3> QED
            BY <1>1, <2>3, <3>2 DEF Ingest
    <2>4. CASE Checkpoint
        <3>1. Head(up) \in Frames /\ Head(up) = up[1] /\ Head(up).kind = "status" /\ Checkpointed(Head(up)) /\ up # <<>>
            BY <2>4, NextFrame DEF Checkpoint, Types
        <3>2. Head(up).complete => \A c \in Conns: conn[c] = "live" /\ c \notin Head(up).listed => row[c] = "none"
            BY <3>1 DEF StatusUp
        <3> QED
            BY <2>2, <3>1, <3>2
    <2>5. CASE OldWrite
        <3>1. Head(old.frames) \in Frames /\ Head(old.frames) = old.frames[1] /\ 1 \in 1 .. Len(old.frames)
            <4>1. old.frames \in Seq(Frames) /\ old.frames # <<>>
                BY <2>5 DEF OldWrite, Types
            <4> QED
                BY <4>1, NextFrame
        <3>2. CASE Head(old.frames).kind = "status"
            <4>1. Checkpointed(Head(old.frames))
                BY <2>5, <3>2 DEF OldWrite
            <4>2. Head(old.frames).complete =>
                    \A c \in Conns: conn[c] = "live" /\ home[c] = Head(old.frames).inst /\ c \notin Head(old.frames).listed =>
                      row[c] # "open" \/ c \in seen
                BY <3>1, <3>2 DEF StatusOld
            <4> QED
                BY <2>2, <3>1, <3>2, <4>1, <4>2
        <3>3. CASE Head(old.frames).kind = "history" /\ row' = Upserted(Head(old.frames).recs)
                   /\ seen' = seen \cup Reported(Head(old.frames).recs)
            BY <2>1, <3>1, <3>3
        <3>4. \/ Head(old.frames).kind = "status" \/ row' = row
              \/ /\ Head(old.frames).kind = "history" /\ row' = Upserted(Head(old.frames).recs)
                 /\ seen' = seen \cup Reported(Head(old.frames).recs)
            BY <2>5, <3>1, FrameKinds DEF OldWrite
        <3> QED
            BY <1>1, <3>2, <3>3, <3>4
    <2> QED
        BY <1>2, <2>3, <2>4, <2>5
<1>3. CASE Sweep
    <2>1. \A c \in Conns: /\ row[c] \in {"none", "open", "lost", "closed"}
                          /\ row'[c] = IF row[c] = "open" /\ c \notin seen /\ ~Connected(home[c]) THEN "lost" ELSE row[c]
        BY <1>3 DEF Sweep, Types
    <2> QED
        BY <2>1 DEF RowsKept
<1>4. row' = row \/ Ingest \/ Checkpoint \/ OldWrite \/ Sweep
    <2>1. ASSUME NEW c \in Conns, ReportOpened(c) \/ ReportClosed(c) PROVE row' = row
        BY <2>1 DEF ReportOpened, ReportClosed, Record, backend
    <2>2. ASSUME LinkLost \/ ProxyRestart \/ Connect \/ Changed \/ HistoryAck \/ SendFrame \/ Disconnected \/ Listen \/ Age
          PROVE  row' = row
        BY <2>2 DEF LinkLost, ProxyRestart, Connect, Changed, HistoryAck, SendFrame, Disconnected, Listen, Age, backend
    <2>3. ASSUME ResendLost \/ ResendEarly \/ Status \/ StatusOmits
          PROVE  row' = row
        BY <2>3 DEF ResendLost, ResendEarly, Resend, Status, StatusOmits, Report, backend
    <2>4. ASSUME UNCHANGED vars PROVE row' = row
        BY <2>4 DEF vars, backend
    <2> QED
        BY <2>1, <2>2, <2>3, <2>4 DEF Next, LoopStep, ChainStep
<1> QED
    BY <1>1, <1>2, <1>3, <1>4

\* A close that is known stays, whatever is sent again or finished late; a row
\* that was given up is not reopened; no row disappears.
THEOREM ClosesAreKept == Spec => CloseIsKept
<1>1. HInv /\ [Next]_vars =>
        [\A c \in Conns:
           /\ row[c] = "closed" => row'[c] = "closed"
           /\ row[c] = "lost" => row'[c] \in {"lost", "closed"}
           /\ row[c] = "open" => row'[c] # "none"]_vars
    BY RowsOfAStep DEF RowsKept
<1> QED
    BY <1>1, Inductive, PTL DEF Spec, CloseIsKept

\* No report and no sweep gives up a connection that lives on a proxy that is
\* connected, not even a report that finishes after its link is gone.
THEOREM LivingAreNotLost == Spec => LostIsOver
<1>1. HInv /\ [Next]_vars =>
        [\A c \in Conns:
           row[c] # "lost" /\ row'[c] = "lost" => conn[c] # "live" \/ ~Connected(home[c])]_vars
    BY RowsOfAStep
<1> QED
    BY <1>1, Inductive, PTL DEF Spec, LostIsOver

================================================================================
