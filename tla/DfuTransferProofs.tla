------------------------- MODULE DfuTransferProofs --------------------------
(***************************************************************************)
(* Proofs about DfuTransfer, for every block size, partition, depth and    *)
(* number of faults.  In this order:                                       *)
(*   - what single requests do to the loader: every one keeps it well      *)
(*     formed, and what it answers and leaves its cursor at;               *)
(*   - type correctness, and that an upload of the alternative's true size *)
(*     which reports success saved its leading units (IInv), also when     *)
(*     block numbers wrap and a stale cursor goes unnoticed;               *)
(*   - what a failure leaves behind, from the queue (QueueInv);            *)
(*   - that a write which reports success is on the eMMC (WriteInv and     *)
(*     Confirming), as long as no cursor is left at block 0 in the middle  *)
(*     of an image (CursorFresh);                                          *)
(*   - that block numbers which do not wrap keep it from there (CursorInv);*)
(*   - that units stay in place when writes fail (PlacedInv), and that     *)
(*     reads ahead stay in one pass (CursorLow, ReadInv).                  *)
(***************************************************************************)
EXTENDS DfuTransfer, TLAPS

IsData(r) == r.kind = "data"

-----------------------------------------------------------------------------
(* Updating one field of a loader. *)

LEMMA SetState ==
  ASSUME NEW l \in Loader, NEW x \in DfuStates
  PROVE  LET r == [l EXCEPT !.state = x] IN
         /\ r \in Loader /\ r.state = x
         /\ r.good = l.good /\ r.readOpen = l.readOpen /\ r.writeOpen = l.writeOpen /\ r.expected = l.expected
         /\ r.offset = l.offset /\ r.pending = l.pending /\ r.flushing = l.flushing
BY SMTT(60) DEF Loader

LEMMA SetGood ==
  ASSUME NEW l \in Loader, NEW x \in BOOLEAN
  PROVE  LET r == [l EXCEPT !.good = x] IN
         /\ r \in Loader /\ r.good = x
         /\ r.state = l.state /\ r.readOpen = l.readOpen /\ r.writeOpen = l.writeOpen /\ r.expected = l.expected
         /\ r.offset = l.offset /\ r.pending = l.pending /\ r.flushing = l.flushing
BY SMTT(60) DEF Loader

LEMMA SetReadOpen ==
  ASSUME NEW l \in Loader, NEW x \in BOOLEAN
  PROVE  LET r == [l EXCEPT !.readOpen = x] IN
         /\ r \in Loader /\ r.readOpen = x
         /\ r.state = l.state /\ r.good = l.good /\ r.writeOpen = l.writeOpen /\ r.expected = l.expected
         /\ r.offset = l.offset /\ r.pending = l.pending /\ r.flushing = l.flushing
BY SMTT(60) DEF Loader

LEMMA SetWriteOpen ==
  ASSUME NEW l \in Loader, NEW x \in BOOLEAN
  PROVE  LET r == [l EXCEPT !.writeOpen = x] IN
         /\ r \in Loader /\ r.writeOpen = x
         /\ r.state = l.state /\ r.good = l.good /\ r.readOpen = l.readOpen /\ r.expected = l.expected
         /\ r.offset = l.offset /\ r.pending = l.pending /\ r.flushing = l.flushing
BY SMTT(60) DEF Loader

LEMMA SetExpected ==
  ASSUME NEW l \in Loader, NEW x \in Nat
  PROVE  LET r == [l EXCEPT !.expected = x] IN
         /\ r \in Loader /\ r.expected = x
         /\ r.state = l.state /\ r.good = l.good /\ r.readOpen = l.readOpen /\ r.writeOpen = l.writeOpen
         /\ r.offset = l.offset /\ r.pending = l.pending /\ r.flushing = l.flushing
BY SMTT(60) DEF Loader

LEMMA SetOffset ==
  ASSUME NEW l \in Loader, NEW x \in 0 .. PartitionSize
  PROVE  LET r == [l EXCEPT !.offset = x] IN
         /\ r \in Loader /\ r.offset = x
         /\ r.state = l.state /\ r.good = l.good /\ r.readOpen = l.readOpen /\ r.writeOpen = l.writeOpen
         /\ r.expected = l.expected /\ r.pending = l.pending /\ r.flushing = l.flushing
BY SMTT(60) DEF Loader

LEMMA SetPending ==
  ASSUME NEW l \in Loader, NEW x \in Seq(Int)
  PROVE  LET r == [l EXCEPT !.pending = x] IN
         /\ r \in Loader /\ r.pending = x
         /\ r.state = l.state /\ r.good = l.good /\ r.readOpen = l.readOpen /\ r.writeOpen = l.writeOpen
         /\ r.expected = l.expected /\ r.offset = l.offset /\ r.flushing = l.flushing
BY SMTT(60) DEF Loader

LEMMA SetFlushing ==
  ASSUME NEW l \in Loader, NEW x \in BOOLEAN
  PROVE  LET r == [l EXCEPT !.flushing = x] IN
         /\ r \in Loader /\ r.flushing = x
         /\ r.state = l.state /\ r.good = l.good /\ r.readOpen = l.readOpen /\ r.writeOpen = l.writeOpen
         /\ r.expected = l.expected /\ r.offset = l.offset /\ r.pending = l.pending
BY SMTT(60) DEF Loader

-----------------------------------------------------------------------------
(* Every request keeps the loader well formed. *)

LEMMA PolledType ==
  ASSUME NEW l \in Loader
  PROVE  /\ StatusPolled(l) \in Loader
         /\ StatusPolled(l).offset = l.offset /\ StatusPolled(l).readOpen = l.readOpen
         /\ StatusPolled(l).expected = l.expected
         /\ StatusPolled(l).flushing = (l.flushing \/ l.state = "manifest")
         /\ l.state \in {"idle", "error"} => StatusPolled(l).state = l.state
<1> DEFINE s == CASE l.state = "dnload_sync" -> "dnload_idle"
                  [] l.state = "manifest_sync" -> "manifest"
                  [] l.state = "manifest" -> "idle"
                  [] OTHER -> l.state
           q == [l EXCEPT !.state = s]
           f == l.flushing \/ l.state = "manifest"
<1>1. s \in DfuStates /\ (l.state \in {"idle", "error"} => s = l.state)
  BY SMT DEF Loader, DfuStates
<1>2. q \in Loader /\ q.state = s /\ q.flushing = l.flushing /\ q.offset = l.offset
      /\ q.readOpen = l.readOpen /\ q.expected = l.expected
  BY <1>1, SetState
<1>3. f \in BOOLEAN
  OBVIOUS
<1>4. StatusPolled(l) = [q EXCEPT !.flushing = f]
  BY Zenon DEF StatusPolled
<1> HIDE DEF q, s, f
<1>5. /\ StatusPolled(l) \in Loader /\ StatusPolled(l).flushing = f
      /\ StatusPolled(l).offset = l.offset /\ StatusPolled(l).readOpen = l.readOpen
      /\ StatusPolled(l).state = s /\ StatusPolled(l).expected = l.expected
  BY <1>2, <1>3, <1>4, SetFlushing
<1> QED BY <1>1, <1>5 DEF f

LEMMA SimpleTypes ==
  ASSUME NEW l \in Loader
  PROVE  /\ Aborted(l) \in Loader /\ StatusCleared(l) \in Loader
         /\ Stalled(l) \in Loader /\ Ended(l) \in Loader
         /\ WriteFailed(l) \in Loader /\ FlushFailed(l) \in Loader
         /\ Stalled(l).flushing = l.flushing
         /\ Aborted(l).flushing = l.flushing /\ StatusCleared(l).flushing = l.flushing
         /\ l.state \in {"dnload_idle", "upload_idle"} => Aborted(l).state = "idle"
         /\ l.state = "error" => StatusCleared(l).state = "idle"
<1>1. /\ "idle" \in DfuStates /\ "error" \in DfuStates /\ "manifest_sync" \in DfuStates
  BY DEF DfuStates
<1>2. /\ Aborted(l) \in Loader /\ Stalled(l) \in Loader /\ Ended(l) \in Loader
      /\ Aborted(l).flushing = l.flushing /\ Stalled(l).flushing = l.flushing
      /\ l.state \in {"dnload_idle", "upload_idle"} => Aborted(l).state = "idle"
  BY <1>1, SetState DEF Aborted, Stalled, Ended
<1>3. /\ StatusCleared(l) \in Loader /\ StatusCleared(l).flushing = l.flushing
      /\ l.state = "error" => StatusCleared(l).state = "idle"
  <2> DEFINE q == [l EXCEPT !.state = "idle"]
  <2>1. q \in Loader /\ q.state = "idle" /\ q.flushing = l.flushing
    BY <1>1, SetState
  <2>2. [l EXCEPT !.state = "idle", !.good = TRUE] = [q EXCEPT !.good = TRUE]
    BY Zenon
  <2> HIDE DEF q
  <2> QED BY <1>2, <2>1, <2>2, SetGood, ZenonT(40) DEF StatusCleared
<1>4. WriteFailed(l) \in Loader
  <2> DEFINE q == [l EXCEPT !.writeOpen = FALSE]
             r == [q EXCEPT !.state = "error"]
  <2>1. q \in Loader
    BY SetWriteOpen
  <2>2. WriteFailed(l) = [r EXCEPT !.good = FALSE]
    BY Zenon DEF WriteFailed
  <2> HIDE DEF q
  <2>3. r \in Loader
    BY <1>1, <2>1, SetState
  <2> HIDE DEF r
  <2> QED BY <2>2, <2>3, SetGood
<1>5. FlushFailed(l) \in Loader
  BY <1>4, SetFlushing DEF FlushFailed
<1> QED BY <1>2, <1>3, <1>4, <1>5

LEMMA FreshType == FreshLoader \in Loader /\ ~FreshLoader.flushing /\ FreshLoader.state = "idle"
<1>1. <<>> \in Seq(Int) /\ 0 \in 0 .. PartitionSize
  BY LoaderAssumption, SMT
<1> QED BY <1>1, SMT DEF Loader, FreshLoader, DfuStates

LEMMA DrainTypes ==
  ASSUME NEW l \in Loader, NEW m \in Medium, DrainFits(l)
  PROVE  Drained(l) \in Loader /\ Flushed(l) \in Loader /\ Stored(l, m) \in Medium
<1>1. /\ l.offset \in Nat /\ l.pending \in Seq(Int) /\ Len(l.pending) \in Nat
      /\ l.offset + Len(l.pending) \in 0 .. PartitionSize /\ <<>> \in Seq(Int)
  BY LoaderAssumption, SMT DEF Loader, DrainFits
<1>2. Drained(l) \in Loader
  <2> DEFINE q == [l EXCEPT !.offset = l.offset + Len(l.pending)]
  <2>1. q \in Loader
    BY <1>1, SetOffset
  <2>2. Drained(l) = [q EXCEPT !.pending = <<>>]
    BY Zenon DEF Drained
  <2> HIDE DEF q
  <2> QED BY <1>1, <2>1, <2>2, SetPending, ZenonT(40)
<1>3. Flushed(l) \in Loader
  <2> DEFINE q == [Drained(l) EXCEPT !.writeOpen = FALSE]
  <2>1. q \in Loader
    BY <1>2, SetWriteOpen
  <2>2. Flushed(l) = [q EXCEPT !.flushing = FALSE]
    BY Zenon DEF Flushed
  <2> HIDE DEF q
  <2> QED BY <2>1, <2>2, SetFlushing
<1>4. Stored(l, m) \in Medium
  BY <1>1, SMT DEF Stored, Medium, Units
<1> QED BY <1>2, <1>3, <1>4

\* What one DFU_UPLOAD does: full blocks move the open cursor on, a short one
\* only occurs at the end.
LEMMA UploadedFacts ==
  ASSUME NEW l \in Loader, NEW block \in Nat
  PROVE  LET r == Uploaded(l, block) IN
         /\ r.loader \in Loader /\ r.answer \in Answers
         /\ r.answer.kind \in {"data", "fail"}
         /\ r.loader.flushing = l.flushing
         /\ IsData(r.answer) =>
              /\ r.answer.from \in Nat /\ r.answer.len \in Nat
              /\ r.answer.len <= TransferSize
              /\ r.answer.len < TransferSize => r.answer.from + r.answer.len = PartitionSize
              /\ r.answer.len = TransferSize =>
                   r.loader.readOpen /\ r.loader.offset = r.answer.from + TransferSize
              /\ l.readOpen => r.answer.from = l.offset
              /\ LET e == IF l.readOpen THEN l.expected ELSE 0 IN
                 /\ e = IF l.state = "idle" THEN 0 ELSE block % BlockWrap
                 /\ r.loader.expected = (e + 1) % BlockWrap
              /\ ~l.readOpen => r.answer.from = 0
              /\ r.answer.len < TransferSize => ~r.loader.readOpen
         /\ ~IsData(r.answer) =>
              \/ /\ r.loader.readOpen = l.readOpen /\ r.loader.expected = l.expected
                 /\ r.loader.offset = l.offset
              \/ r.loader.expected = 0 /\ r.loader.offset = 0
<1> DEFINE u == [l EXCEPT !.state = "upload_idle"]
           c == ReadCursor(u)
           left == PartitionSize - c.offset
           len == IF left < TransferSize THEN left ELSE TransferSize
           n == (c.expected + 1) % BlockWrap
           first == l.state = "idle"
           s == IF len < TransferSize /\ ~first THEN "idle" ELSE c.state
<1>1. /\ u \in Loader /\ u.flushing = l.flushing /\ u.offset = l.offset
      /\ u.readOpen = l.readOpen /\ u.expected = l.expected
  <2>1. "upload_idle" \in DfuStates
    BY DEF DfuStates
  <2> QED BY <2>1, SetState
<1> HIDE DEF u
<1>2. /\ c \in Loader /\ c.flushing = l.flushing /\ c.readOpen
      /\ l.readOpen => c.offset = l.offset /\ c.expected = l.expected
      /\ ~l.readOpen => c.offset = 0 /\ c.expected = 0
  <2>1. CASE u.readOpen
    BY <1>1, <2>1 DEF ReadCursor
  <2>2. CASE ~u.readOpen
    <3> DEFINE a == [u EXCEPT !.readOpen = TRUE]
               b == [a EXCEPT !.expected = 0]
    <3>1. a \in Loader /\ a.flushing = l.flushing /\ a.readOpen
      BY <1>1, SetReadOpen
    <3> HIDE DEF a
    <3>2. b \in Loader /\ b.flushing = l.flushing /\ b.readOpen /\ b.expected = 0
      BY <3>1, SetExpected
    <3>3. c = [b EXCEPT !.offset = 0]
      BY <2>2, Zenon DEF ReadCursor, a
    <3> HIDE DEF b, c
    <3>4. 0 \in 0 .. PartitionSize
      BY LoaderAssumption, SMT
    <3> QED BY <1>1, <2>2, <3>2, <3>3, <3>4, SetOffset
  <2> QED BY <2>1, <2>2
<1> HIDE DEF c
<1>3. /\ len \in Nat /\ c.offset + len \in 0 .. PartitionSize /\ c.offset \in Nat
      /\ len <= TransferSize /\ (len < TransferSize => c.offset + len = PartitionSize)
      /\ n \in Nat /\ s \in DfuStates
  <2>1. c.offset \in 0 .. PartitionSize /\ c.expected \in Nat /\ c.state \in DfuStates
    BY <1>2, SMT DEF Loader
  <2>2. n \in Nat
    BY <2>1, LoaderAssumption, SMT
  <2>3. s \in DfuStates
    BY <2>1, Zenon DEF DfuStates
  <2> QED BY <2>1, <2>2, <2>3, LoaderAssumption, SMT
<1>4. CASE l.state \notin {"idle", "upload_idle"}
  <2>1. Uploaded(l, block) = [loader |-> Stalled(l), answer |-> Fail]
    BY <1>4, Zenon DEF Uploaded
  <2>2. /\ Stalled(l).readOpen = l.readOpen /\ Stalled(l).expected = l.expected
        /\ Stalled(l).offset = l.offset
    <3>1. "error" \in DfuStates
      BY DEF DfuStates
    <3> QED BY <3>1, SetState DEF Stalled
  <2>3. ~IsData(Fail) /\ Fail \in Answers /\ Fail.kind = "fail"
    BY DEF Fail, Answers, IsData
  <2>4. Stalled(l) \in Loader /\ Stalled(l).flushing = l.flushing
    BY SimpleTypes
  <2> QED BY <2>1, <2>2, <2>3, <2>4
<1>5. CASE /\ l.state \in {"idle", "upload_idle"}
           /\ (IF first THEN 0 ELSE block % BlockWrap) # c.expected
  <2>1. Uploaded(l, block) = [loader |-> c, answer |-> Fail]
    BY <1>5, Zenon DEF Uploaded, c, u
  <2>2. ~IsData(Fail) /\ Fail \in Answers /\ Fail.kind = "fail"
    BY DEF Fail, Answers, IsData
  <2>3. \/ /\ c.readOpen = l.readOpen /\ c.expected = l.expected
           /\ c.offset = l.offset
        \/ c.expected = 0 /\ c.offset = 0
    <3>1. l.readOpen \in BOOLEAN /\ c.readOpen \in BOOLEAN
      BY <1>2 DEF Loader
    <3> QED BY <1>2, <3>1
  <2>4. Uploaded(l, block).loader = c /\ Uploaded(l, block).answer = Fail
    BY <2>1
  <2>5. c \in Loader /\ c.flushing = l.flushing
    BY <1>2
  <2> QED BY <2>2, <2>3, <2>4, <2>5
<1>6. CASE /\ l.state \in {"idle", "upload_idle"}
           /\ (IF first THEN 0 ELSE block % BlockWrap) = c.expected
  <2> DEFINE d1 == [c EXCEPT !.expected = n]
             d2 == [d1 EXCEPT !.offset = c.offset + len]
             full == len = TransferSize
             d3 == [d2 EXCEPT !.readOpen = full]
             d == [d3 EXCEPT !.state = s]
  <2>1. Uploaded(l, block) =
          [loader |-> [c EXCEPT !.expected = n, !.offset = c.offset + len,
                                !.readOpen = full, !.state = s],
           answer |-> Data(c.offset, len)]
    BY <1>6, Zenon DEF Uploaded, c, u
  <2>2. [c EXCEPT !.expected = n, !.offset = c.offset + len,
                  !.readOpen = full, !.state = s] = d
    BY Zenon
  <2> HIDE DEF n, s, len
  <2>3. d1 \in Loader /\ d1.flushing = l.flushing /\ d1.expected = n
    BY <1>2, <1>3, SetExpected
  <2> HIDE DEF d1
  <2>4. /\ d2 \in Loader /\ d2.flushing = l.flushing /\ d2.offset = c.offset + len
        /\ d2.expected = n
    BY <1>3, <2>3, SetOffset
  <2> HIDE DEF d2
  <2>5. full \in BOOLEAN
    OBVIOUS
  <2> HIDE DEF full
  <2>6. /\ d3 \in Loader /\ d3.flushing = l.flushing /\ d3.offset = c.offset + len
        /\ d3.readOpen = full /\ d3.expected = n
    BY <2>4, <2>5, SetReadOpen
  <2> HIDE DEF d3
  <2>7. /\ d \in Loader /\ d.flushing = l.flushing /\ d.offset = c.offset + len
        /\ d.readOpen = full /\ d.expected = n
    BY <1>3, <2>6, SetState
  <2> HIDE DEF d
  <2>8. Data(c.offset, len) \in Answers
    BY <1>3, SMT DEF Data, Answers
  <2>9. /\ Uploaded(l, block).loader = d
        /\ Uploaded(l, block).answer = Data(c.offset, len)
    BY <2>1, <2>2
  <2>10. /\ Data(c.offset, len).kind = "data" /\ Data(c.offset, len).from = c.offset
         /\ Data(c.offset, len).len = len
    BY DEF Data
  <2>11. /\ c.expected = IF l.readOpen THEN l.expected ELSE 0
         /\ c.expected = IF l.state = "idle" THEN 0 ELSE block % BlockWrap
         /\ ~l.readOpen => c.offset = 0
    BY <1>2, <1>6 DEF first
  <2>12. len < TransferSize => ~full
    <3>1. len \in Nat /\ TransferSize \in Nat
      BY <1>3, LoaderAssumption
    <3> QED BY <3>1 DEF full
  <2>13. len = TransferSize => full
    BY DEF full
  <2>14. d.expected = (c.expected + 1) % BlockWrap
    BY <2>7 DEF n
  <2>15. IsData(Data(c.offset, len))
    BY <2>10 DEF IsData
  <2> QED
    BY <1>2, <1>3, <2>7, <2>8, <2>9, <2>10, <2>11, <2>12, <2>13, <2>14, <2>15
<1> QED BY <1>4, <1>5, <1>6

LEMMA DownloadedTypes ==
  ASSUME NEW l \in Loader, NEW m \in Medium, NEW block \in Nat, NEW units \in Seq(Int),
         NEW fails \in BOOLEAN
  PROVE  LET r == Downloaded(l, m, block, units, fails) IN
         r.loader \in Loader /\ r.medium \in Medium /\ r.answer \in {Fail, Ack}
<1> DEFINE u == [l EXCEPT !.state = "dnload_sync"]
           c == WriteCursor(u)
           n == (c.expected + 1) % BlockWrap
           p == c.pending \o units
           b == [c EXCEPT !.expected = n, !.pending = p]
<1>1. u \in Loader
  <2>1. "dnload_sync" \in DfuStates
    BY DEF DfuStates
  <2> QED BY <2>1, SetState
<1> HIDE DEF u
<1>2. c \in Loader
  <2> DEFINE w == [u EXCEPT !.writeOpen = TRUE]
             x == [w EXCEPT !.expected = 0]
             y == [x EXCEPT !.offset = 0]
  <2>1. w \in Loader
    BY <1>1, SetWriteOpen
  <2> HIDE DEF w
  <2>2. x \in Loader
    BY <2>1, SetExpected
  <2> HIDE DEF x
  <2>3. y \in Loader
    <3>1. 0 \in 0 .. PartitionSize
      BY LoaderAssumption, SMT
    <3> QED BY <2>2, <3>1, SetOffset
  <2>4. [u EXCEPT !.writeOpen = TRUE, !.expected = 0, !.offset = 0, !.pending = <<>>]
          = [y EXCEPT !.pending = <<>>]
    BY Zenon DEF w, x
  <2> HIDE DEF y
  <2>5. <<>> \in Seq(Int)
    BY SMT
  <2> QED BY <1>1, <2>3, <2>4, <2>5, SetPending DEF WriteCursor
<1> HIDE DEF c
<1>3. n \in Nat /\ p \in Seq(Int)
  BY <1>2, LoaderAssumption, SMT DEF Loader
<1> HIDE DEF n, p
<1>4. b \in Loader
  <2> DEFINE q == [c EXCEPT !.expected = n]
  <2>1. q \in Loader
    BY <1>2, <1>3, SetExpected
  <2>2. b = [q EXCEPT !.pending = p]
    BY Zenon
  <2> HIDE DEF q, b
  <2> QED BY <1>3, <2>1, <2>2, SetPending
<1>5. WriteFailed(c) \in Loader /\ Stalled(l) \in Loader
  BY <1>2, SimpleTypes
<1>6. DrainFits(b) => Drained(b) \in Loader /\ Stored(b, m) \in Medium
  BY <1>4, DrainTypes
<1>7. LET r == Downloaded(l, m, block, units, fails) IN
      \/ r = [loader |-> Stalled(l), medium |-> m, answer |-> Fail]
      \/ r = [loader |-> WriteFailed(c), medium |-> m, answer |-> Ack]
      \/ r = [loader |-> b, medium |-> m, answer |-> Ack]
      \/ DrainFits(b) /\ r = [loader |-> Drained(b), medium |-> Stored(b, m), answer |-> Ack]
  BY Zenon DEF Downloaded, u, c, n, p
<1> HIDE DEF b
<1> QED BY <1>4, <1>5, <1>6, <1>7

LEMMA AnswerFacts ==
  /\ Fail \in Answers /\ Ack \in Answers /\ Cancelled \in Answers
  /\ ~IsData(Fail) /\ ~IsData(Ack) /\ ~IsData(Cancelled)
  /\ \A l \in Loader : Status(l) \in Answers /\ ~IsData(Status(l))
  /\ \A r \in Answers : IsData(r) => r.from \in Nat /\ r.len \in Nat
<1>1. /\ Fail \in Answers /\ Ack \in Answers /\ Cancelled \in Answers
      /\ ~IsData(Fail) /\ ~IsData(Ack) /\ ~IsData(Cancelled)
  BY DEF Answers, Fail, Ack, Cancelled, IsData
<1>2. ASSUME NEW l \in Loader PROVE Status(l) \in Answers /\ ~IsData(Status(l))
  <2>1. l.good \in BOOLEAN /\ l.state \in DfuStates
    BY DEF Loader
  <2> QED BY <2>1 DEF Status, Answers, IsData
<1>3. ASSUME NEW r \in Answers, IsData(r) PROVE r.from \in Nat /\ r.len \in Nat
  BY <1>1, <1>3, SMT DEF Answers, IsData
<1> QED BY <1>1, <1>2, <1>3

-----------------------------------------------------------------------------
(* What each request does to the cursor and to the buffer behind it.        *)

LEMMA PolledFacts ==
  ASSUME NEW l \in Loader
  PROVE  /\ StatusPolled(l).pending = l.pending /\ StatusPolled(l).writeOpen = l.writeOpen
         /\ StatusPolled(l).good = l.good
         /\ StatusPolled(l).state = CASE l.state = "dnload_sync" -> "dnload_idle"
                                      [] l.state = "manifest_sync" -> "manifest"
                                      [] l.state = "manifest" -> "idle"
                                      [] OTHER -> l.state
<1> DEFINE s == CASE l.state = "dnload_sync" -> "dnload_idle"
                  [] l.state = "manifest_sync" -> "manifest"
                  [] l.state = "manifest" -> "idle"
                  [] OTHER -> l.state
           q == [l EXCEPT !.state = s]
           f == l.flushing \/ l.state = "manifest"
<1>1. s \in DfuStates BY SMT DEF Loader, DfuStates
<1>2. q \in Loader /\ q.state = s /\ q.pending = l.pending /\ q.writeOpen = l.writeOpen
      /\ q.good = l.good
  BY <1>1, SetState
<1>3. f \in BOOLEAN OBVIOUS
<1>4. StatusPolled(l) = [q EXCEPT !.flushing = f] BY Zenon DEF StatusPolled
<1> HIDE DEF q, s, f
<1>5. /\ StatusPolled(l).pending = l.pending /\ StatusPolled(l).writeOpen = l.writeOpen
      /\ StatusPolled(l).good = l.good /\ StatusPolled(l).state = s
  BY <1>2, <1>3, <1>4, SetFlushing
<1> QED BY <1>5 DEF s

\* What ends or stops a write leaves the cursor as it is.
SameCursor(l, r) ==
  /\ r.expected = l.expected /\ r.offset = l.offset /\ r.pending = l.pending
  /\ r.readOpen = l.readOpen

LEMMA StopFacts ==
  ASSUME NEW l \in Loader
  PROVE  /\ SameCursor(l, Aborted(l)) /\ SameCursor(l, StatusCleared(l))
         /\ SameCursor(l, Stalled(l)) /\ SameCursor(l, Ended(l)) /\ SameCursor(l, WriteFailed(l))
         /\ Aborted(l).writeOpen = l.writeOpen /\ StatusCleared(l).writeOpen = l.writeOpen
         /\ Stalled(l).writeOpen = l.writeOpen /\ Ended(l).writeOpen = l.writeOpen
         /\ Stalled(l).state = "error"
         /\ Ended(l).state = (IF l.state = "dnload_idle" THEN "manifest_sync" ELSE "error")
         /\ Ended(l).flushing = l.flushing
         /\ Aborted(l).state = l.state \/ Aborted(l).state = "idle"
         /\ StatusCleared(l).state \in {"idle", "error"}
         /\ ~WriteFailed(l).writeOpen /\ WriteFailed(l).state = "error" /\ ~WriteFailed(l).good
         /\ WriteFailed(l).flushing = l.flushing
         /\ SameCursor(l, FlushFailed(l)) /\ ~FlushFailed(l).writeOpen
         /\ FlushFailed(l).state = "error" /\ ~FlushFailed(l).good /\ ~FlushFailed(l).flushing
<1>1. /\ "idle" \in DfuStates /\ "error" \in DfuStates /\ "manifest_sync" \in DfuStates
  BY DEF DfuStates
<1>2. ASSUME NEW x \in DfuStates
      PROVE  /\ SameCursor(l, [l EXCEPT !.state = x])
             /\ [l EXCEPT !.state = x].writeOpen = l.writeOpen
             /\ [l EXCEPT !.state = x].state = x
             /\ [l EXCEPT !.state = x].flushing = l.flushing
             /\ [l EXCEPT !.state = x] \in Loader
  BY SetState, Zenon DEF SameCursor
<1>3. Stalled(l) = [l EXCEPT !.state = "error"] /\ SameCursor(l, l)
  BY DEF Stalled, SameCursor
<1>4. /\ SameCursor(l, Stalled(l)) /\ Stalled(l).writeOpen = l.writeOpen /\ Stalled(l).state = "error"
      /\ Stalled(l).flushing = l.flushing
  <2> DEFINE q == [l EXCEPT !.state = "error"]
  <2>1. SameCursor(l, q) /\ q.writeOpen = l.writeOpen /\ q.state = "error" /\ q.flushing = l.flushing
    BY <1>1, <1>2
  <2>2. Stalled(l) = q BY <1>3
  <2> HIDE DEF q
  <2> QED BY <2>1, <2>2
<1>5. SameCursor(l, Aborted(l)) /\ Aborted(l).writeOpen = l.writeOpen
      /\ (Aborted(l).state = l.state \/ Aborted(l).state = "idle")
  <2>1. Aborted(l) = l \/ Aborted(l) = [l EXCEPT !.state = "idle"] BY DEF Aborted
  <2> QED BY <1>1, <1>2, <1>3, <2>1, Zenon
<1>6. SameCursor(l, Ended(l)) /\ Ended(l).writeOpen = l.writeOpen /\ Ended(l).flushing = l.flushing
      /\ Ended(l).state = (IF l.state = "dnload_idle" THEN "manifest_sync" ELSE "error")
  <2>1. CASE l.state = "dnload_idle"
    <3>1. Ended(l) = [l EXCEPT !.state = "manifest_sync"] BY <2>1 DEF Ended
    <3> QED BY <1>1, <1>2, <2>1, <3>1, Zenon
  <2>2. CASE l.state # "dnload_idle"
    <3>1. Ended(l) = Stalled(l) BY <2>2 DEF Ended
    <3> QED BY <1>4, <2>2, <3>1
  <2> QED BY <2>1, <2>2
<1>7. SameCursor(l, StatusCleared(l)) /\ StatusCleared(l).writeOpen = l.writeOpen
      /\ StatusCleared(l).state \in {"idle", "error"}
  <2> DEFINE q == [l EXCEPT !.state = "idle"]
  <2>1. q \in Loader /\ SameCursor(l, q) /\ q.writeOpen = l.writeOpen /\ q.state = "idle"
    BY <1>1, <1>2, Zenon
  <2>2. [l EXCEPT !.state = "idle", !.good = TRUE] = [q EXCEPT !.good = TRUE] BY Zenon
  <2> HIDE DEF q
  <2> DEFINE r == [q EXCEPT !.good = TRUE]
  <2>3. SameCursor(l, r) /\ r.writeOpen = l.writeOpen /\ r.state = "idle"
    BY <2>1, SetGood DEF SameCursor
  <2> HIDE DEF r
  <2>4. StatusCleared(l) = (IF l.state = "error" THEN r ELSE Stalled(l))
    BY <2>2, Zenon DEF StatusCleared, r
  <2> QED BY <1>4, <2>3, <2>4, Zenon
<1>8. /\ SameCursor(l, WriteFailed(l)) /\ ~WriteFailed(l).writeOpen /\ WriteFailed(l) \in Loader
      /\ WriteFailed(l).state = "error" /\ ~WriteFailed(l).good /\ WriteFailed(l).flushing = l.flushing
  <2> DEFINE q == [l EXCEPT !.writeOpen = FALSE]
             r == [q EXCEPT !.state = "error"]
             s == [r EXCEPT !.good = FALSE]
  <2>1. q \in Loader /\ SameCursor(l, q) /\ ~q.writeOpen /\ q.flushing = l.flushing
    BY SetWriteOpen DEF SameCursor
  <2>2. WriteFailed(l) = s BY Zenon DEF WriteFailed
  <2> HIDE DEF q
  <2>3. r \in Loader /\ SameCursor(q, r) /\ ~r.writeOpen /\ r.state = "error" /\ r.flushing = l.flushing
    BY <1>1, <2>1, SetState DEF SameCursor
  <2> HIDE DEF r
  <2>4. s \in Loader /\ SameCursor(r, s) /\ ~s.writeOpen /\ s.state = "error" /\ ~s.good
        /\ s.flushing = l.flushing
    BY <2>3, SetGood DEF SameCursor
  <2> HIDE DEF s
  <2> QED BY <2>1, <2>2, <2>3, <2>4 DEF SameCursor
<1>9. /\ SameCursor(l, FlushFailed(l)) /\ ~FlushFailed(l).writeOpen
      /\ FlushFailed(l).state = "error" /\ ~FlushFailed(l).good /\ ~FlushFailed(l).flushing
  <2> DEFINE w == WriteFailed(l)
             f == [w EXCEPT !.flushing = FALSE]
  <2>0. w = WriteFailed(l) OBVIOUS
  <2>2. FlushFailed(l) = f BY DEF FlushFailed
  <2> HIDE DEF w
  <2>1. SameCursor(w, f) /\ f.writeOpen = w.writeOpen /\ f.state = w.state
        /\ f.good = w.good /\ ~f.flushing
    BY <1>8, <2>0, SetFlushing DEF SameCursor
  <2> HIDE DEF f
  <2> QED BY <1>8, <2>0, <2>1, <2>2 DEF SameCursor
<1> QED BY <1>4, <1>5, <1>6, <1>7, <1>8, <1>9

-----------------------------------------------------------------------------
(* Where the write cursor stands for the next DFU_DNLOAD. *)

CursorAt(l) == IF l.writeOpen THEN l.expected ELSE 0
PlaceAt(l) == IF l.writeOpen THEN l.offset ELSE 0
BufferAt(l) == IF l.writeOpen THEN l.pending ELSE <<>>

\* A DFU_DNLOAD that is not taken in leaves the loader in error.
Refused(l, r) ==
  /\ r.state = "error" /\ r.flushing = l.flushing /\ r.readOpen = l.readOpen
  /\ \/ r.writeOpen = l.writeOpen /\ r.expected = l.expected /\ r.offset = l.offset
     \/ ~r.writeOpen /\ r.expected = CursorAt(l) /\ r.offset = PlaceAt(l)

\* One that is taken in moves the cursor on, and may fill the buffer.
TakenIn(l, block, units, r, m, n) ==
  /\ l.state \in {"idle", "dnload_idle"} /\ block % BlockWrap = CursorAt(l)
  /\ r.state = "dnload_sync" /\ r.writeOpen /\ r.flushing = l.flushing
  /\ r.readOpen = l.readOpen /\ r.expected = (CursorAt(l) + 1) % BlockWrap
  /\ \/ /\ r.offset = PlaceAt(l) /\ r.pending = BufferAt(l) \o units
        /\ n = m
     \/ /\ PlaceAt(l) + Len(BufferAt(l) \o units) <= PartitionSize
        /\ r.offset = PlaceAt(l) + Len(BufferAt(l) \o units) /\ r.pending = <<>>
        /\ n = [u \in Units |->
                 IF u >= PlaceAt(l) /\ u < PlaceAt(l) + Len(BufferAt(l) \o units)
                 THEN (BufferAt(l) \o units)[u - PlaceAt(l) + 1] ELSE m[u]]

LEMMA FreshCursor ==
  ASSUME NEW l \in Loader
  PROVE  /\ WriteCursor(l) \in Loader /\ WriteCursor(l).writeOpen
         /\ WriteCursor(l).state = l.state /\ WriteCursor(l).flushing = l.flushing
         /\ WriteCursor(l).readOpen = l.readOpen /\ WriteCursor(l).good = l.good
         /\ WriteCursor(l).expected = CursorAt(l) /\ WriteCursor(l).offset = PlaceAt(l)
         /\ WriteCursor(l).pending = BufferAt(l)
<1>1. CASE l.writeOpen
  BY <1>1 DEF WriteCursor, CursorAt, PlaceAt, BufferAt
<1>2. CASE ~l.writeOpen
  <2> DEFINE w == [l EXCEPT !.writeOpen = TRUE]
             x == [w EXCEPT !.expected = 0]
             y == [x EXCEPT !.offset = 0]
             z == [y EXCEPT !.pending = <<>>]
  <2>1. /\ w \in Loader /\ w.writeOpen /\ w.state = l.state /\ w.flushing = l.flushing
        /\ w.readOpen = l.readOpen /\ w.good = l.good
    BY SetWriteOpen
  <2>2. WriteCursor(l) = z
    BY <1>2, Zenon DEF WriteCursor
  <2> HIDE DEF w
  <2>3. /\ x \in Loader /\ x.writeOpen /\ x.state = l.state /\ x.flushing = l.flushing
        /\ x.readOpen = l.readOpen /\ x.good = l.good /\ x.expected = 0
    BY <2>1, SetExpected
  <2> HIDE DEF x
  <2>4. 0 \in 0 .. PartitionSize /\ <<>> \in Seq(Int)
    BY LoaderAssumption, SMT
  <2>5. /\ y \in Loader /\ y.writeOpen /\ y.state = l.state /\ y.flushing = l.flushing
        /\ y.readOpen = l.readOpen /\ y.good = l.good /\ y.expected = 0 /\ y.offset = 0
    BY <2>3, <2>4, SetOffset
  <2> HIDE DEF y
  <2>6. /\ z \in Loader /\ z.writeOpen /\ z.state = l.state /\ z.flushing = l.flushing
        /\ z.readOpen = l.readOpen /\ z.good = l.good /\ z.expected = 0 /\ z.offset = 0
        /\ z.pending = <<>>
    BY <2>4, <2>5, SetPending
  <2> HIDE DEF z
  <2>7. CursorAt(l) = 0 /\ PlaceAt(l) = 0 /\ BufferAt(l) = <<>>
    BY <1>2 DEF CursorAt, PlaceAt, BufferAt
  <2> QED BY <2>2, <2>6, <2>7
<1>3. l.writeOpen \in BOOLEAN BY DEF Loader
<1> QED BY <1>1, <1>2, <1>3

\* Writing the buffer out moves the place behind it.
LEMMA DrainFacts ==
  ASSUME NEW l \in Loader, DrainFits(l)
  PROVE  /\ Drained(l).state = l.state /\ Drained(l).writeOpen = l.writeOpen
         /\ Drained(l).flushing = l.flushing /\ Drained(l).readOpen = l.readOpen
         /\ Drained(l).expected = l.expected /\ Drained(l).good = l.good
         /\ Drained(l).offset = l.offset + Len(l.pending) /\ Drained(l).pending = <<>>
         /\ Flushed(l).state = l.state /\ Flushed(l).good = l.good /\ ~Flushed(l).writeOpen
         /\ ~Flushed(l).flushing /\ Flushed(l).readOpen = l.readOpen
         /\ Flushed(l).expected = l.expected
         /\ Flushed(l).offset = l.offset + Len(l.pending) /\ Flushed(l).pending = <<>>
<1>1. l.offset + Len(l.pending) \in 0 .. PartitionSize /\ <<>> \in Seq(Int)
  BY LoaderAssumption, SMT DEF Loader, DrainFits
<1> DEFINE q == [l EXCEPT !.offset = l.offset + Len(l.pending)]
           d == [q EXCEPT !.pending = <<>>]
           w == [d EXCEPT !.writeOpen = FALSE]
           f == [w EXCEPT !.flushing = FALSE]
<1>2. Drained(l) = d
  BY Zenon DEF Drained
<1>3. Flushed(l) = f
  BY <1>2, Zenon DEF Flushed
<1>4. /\ q \in Loader /\ q.state = l.state /\ q.writeOpen = l.writeOpen
      /\ q.flushing = l.flushing /\ q.readOpen = l.readOpen /\ q.expected = l.expected
      /\ q.good = l.good /\ q.offset = l.offset + Len(l.pending)
  BY <1>1, SetOffset
<1> HIDE DEF q
<1>5. /\ d \in Loader /\ d.state = l.state /\ d.writeOpen = l.writeOpen
      /\ d.flushing = l.flushing /\ d.readOpen = l.readOpen /\ d.expected = l.expected
      /\ d.good = l.good /\ d.offset = l.offset + Len(l.pending) /\ d.pending = <<>>
  BY <1>1, <1>4, SetPending
<1> HIDE DEF d
<1>6. /\ w \in Loader /\ w.state = l.state /\ ~w.writeOpen
      /\ w.flushing = l.flushing /\ w.readOpen = l.readOpen /\ w.expected = l.expected
      /\ w.good = l.good /\ w.offset = l.offset + Len(l.pending) /\ w.pending = <<>>
  BY <1>5, SetWriteOpen
<1> HIDE DEF w
<1>7. /\ f \in Loader /\ f.state = l.state /\ ~f.writeOpen
      /\ ~f.flushing /\ f.readOpen = l.readOpen /\ f.expected = l.expected
      /\ f.good = l.good /\ f.offset = l.offset + Len(l.pending) /\ f.pending = <<>>
  BY <1>6, SetFlushing
<1> HIDE DEF f
<1> QED BY <1>2, <1>3, <1>5, <1>7

LEMMA DownloadedFacts ==
  ASSUME NEW l \in Loader, NEW m \in Medium, NEW block \in Nat, NEW units \in Seq(Int),
         NEW fails \in BOOLEAN, NEW r, r = Downloaded(l, m, block, units, fails)
  PROVE  \/ Refused(l, r.loader) /\ r.medium = m
         \/ r.answer = Ack /\ TakenIn(l, block, units, r.loader, m, r.medium)
<1> DEFINE u == [l EXCEPT !.state = "dnload_sync"]
           c == WriteCursor(u)
           n == (c.expected + 1) % BlockWrap
           p == c.pending \o units
           b == [c EXCEPT !.expected = n, !.pending = p]
<1>1. /\ u \in Loader /\ u.state = "dnload_sync" /\ u.writeOpen = l.writeOpen
      /\ u.flushing = l.flushing /\ u.readOpen = l.readOpen
      /\ CursorAt(u) = CursorAt(l) /\ PlaceAt(u) = PlaceAt(l) /\ BufferAt(u) = BufferAt(l)
  <2>1. "dnload_sync" \in DfuStates
    BY DEF DfuStates
  <2>2. /\ u \in Loader /\ u.state = "dnload_sync" /\ u.writeOpen = l.writeOpen
        /\ u.flushing = l.flushing /\ u.readOpen = l.readOpen /\ u.expected = l.expected
        /\ u.offset = l.offset /\ u.pending = l.pending
    BY <2>1, SetState
  <2> HIDE DEF u
  <2> QED BY <2>2 DEF CursorAt, PlaceAt, BufferAt
<1> HIDE DEF u
<1>2. /\ c \in Loader /\ c.writeOpen /\ c.state = "dnload_sync" /\ c.flushing = l.flushing
      /\ c.readOpen = l.readOpen /\ c.expected = CursorAt(l) /\ c.offset = PlaceAt(l)
      /\ c.pending = BufferAt(l)
  BY <1>1, FreshCursor
<1> HIDE DEF c
<1>3. n \in Nat /\ p \in Seq(Int)
  BY <1>2, LoaderAssumption, SMT DEF Loader
<1>4. n = (CursorAt(l) + 1) % BlockWrap /\ p = BufferAt(l) \o units
  BY <1>2
<1> HIDE DEF n, p
<1>5. /\ b \in Loader /\ b.writeOpen /\ b.state = "dnload_sync" /\ b.flushing = l.flushing
      /\ b.readOpen = l.readOpen /\ b.expected = n /\ b.offset = PlaceAt(l) /\ b.pending = p
  <2> DEFINE q == [c EXCEPT !.expected = n]
  <2>1. /\ q \in Loader /\ q.writeOpen /\ q.state = "dnload_sync" /\ q.flushing = l.flushing
        /\ q.readOpen = l.readOpen /\ q.expected = n /\ q.offset = PlaceAt(l)
    BY <1>2, <1>3, SetExpected
  <2>2. b = [q EXCEPT !.pending = p]
    BY Zenon
  <2> HIDE DEF q, b
  <2> QED BY <1>3, <2>1, <2>2, SetPending
<1>6. \/ r = [loader |-> Stalled(l), medium |-> m, answer |-> Fail]
      \/ r = [loader |-> WriteFailed(c), medium |-> m, answer |-> Ack]
      \/ /\ l.state \in {"idle", "dnload_idle"} /\ block % BlockWrap = c.expected
         /\ \/ r = [loader |-> b, medium |-> m, answer |-> Ack]
            \/ /\ DrainFits(b)
               /\ r = [loader |-> Drained(b), medium |-> Stored(b, m), answer |-> Ack]
  BY Zenon DEF Downloaded, u, c, n, p
<1> HIDE DEF b
<1>7. CASE r = [loader |-> Stalled(l), medium |-> m, answer |-> Fail]
  <2>1. r.loader = Stalled(l) /\ r.medium = m
    BY <1>7
  <2> QED BY <2>1, StopFacts, SimpleTypes DEF Refused, SameCursor
<1>8. CASE r = [loader |-> WriteFailed(c), medium |-> m, answer |-> Ack]
  <2>1. r.loader = WriteFailed(c) /\ r.medium = m
    BY <1>8
  <2> QED BY <1>2, <2>1, StopFacts DEF Refused, SameCursor
<1>9. CASE /\ l.state \in {"idle", "dnload_idle"} /\ block % BlockWrap = c.expected
           /\ r = [loader |-> b, medium |-> m, answer |-> Ack]
  <2>1. r.loader = b /\ r.medium = m /\ r.answer = Ack
    BY <1>9
  <2> QED BY <1>2, <1>4, <1>5, <1>9, <2>1 DEF TakenIn
<1>10. CASE /\ l.state \in {"idle", "dnload_idle"} /\ block % BlockWrap = c.expected
            /\ DrainFits(b)
            /\ r = [loader |-> Drained(b), medium |-> Stored(b, m), answer |-> Ack]
  <2>1. r.loader = Drained(b) /\ r.medium = Stored(b, m) /\ r.answer = Ack
    BY <1>10
  <2>2. /\ Drained(b).state = "dnload_sync" /\ Drained(b).writeOpen
        /\ Drained(b).flushing = l.flushing /\ Drained(b).readOpen = l.readOpen
        /\ Drained(b).expected = n /\ Drained(b).offset = PlaceAt(l) + Len(p)
        /\ Drained(b).pending = <<>>
    BY <1>5, <1>10, DrainFacts
  <2>3. PlaceAt(l) + Len(p) <= PartitionSize
    BY <1>5, <1>10 DEF DrainFits
  <2>4. Stored(b, m) = [u2 \in Units |-> IF u2 >= PlaceAt(l) /\ u2 < PlaceAt(l) + Len(p)
                                        THEN p[u2 - PlaceAt(l) + 1] ELSE m[u2]]
    BY <1>5 DEF Stored
  <2>5. CursorAt(l) = c.expected
    BY <1>2
  <2> QED BY <1>4, <1>10, <2>1, <2>2, <2>3, <2>4, <2>5 DEF TakenIn
<1> QED BY <1>6, <1>7, <1>8, <1>9, <1>10

\* A DFU_UPLOAD leaves a write's buffer alone; it stays in upload_idle with
\* a closed cursor only when the first block of a read is a short one.
LEMMA UploadedState ==
  ASSUME NEW l \in Loader, NEW block \in Nat, NEW r, r = Uploaded(l, block)
  PROVE  /\ r.loader.writeOpen = l.writeOpen /\ r.loader.pending = l.pending
         /\ r.loader.state \in {"idle", "upload_idle", "error"}
         /\ r.loader.state = "upload_idle" =>
              \/ r.loader.readOpen
              \/ l.state = "idle" /\ IsData(r.answer) /\ r.answer.len < TransferSize
         /\ \/ IsData(r.answer)
            \/ /\ r.loader.readOpen = l.readOpen /\ r.loader.expected = l.expected
               /\ r.loader.offset = l.offset
            \/ l.state = "upload_idle" /\ ~l.readOpen
         /\ IsData(r.answer) => r.loader.offset = r.answer.from + r.answer.len
<1> DEFINE u == [l EXCEPT !.state = "upload_idle"]
           c == ReadCursor(u)
           left == PartitionSize - c.offset
           len == IF left < TransferSize THEN left ELSE TransferSize
           n == (c.expected + 1) % BlockWrap
           first == l.state = "idle"
           s == IF len < TransferSize /\ ~first THEN "idle" ELSE c.state
           full == len = TransferSize
           d1 == [c EXCEPT !.expected = n]
           d2 == [d1 EXCEPT !.offset = c.offset + len]
           d3 == [d2 EXCEPT !.readOpen = full]
           d == [d3 EXCEPT !.state = s]
<1>1. /\ u \in Loader /\ u.state = "upload_idle" /\ u.writeOpen = l.writeOpen
      /\ u.pending = l.pending /\ u.readOpen = l.readOpen /\ u.expected = l.expected
      /\ u.offset = l.offset
  <2>1. "upload_idle" \in DfuStates
    BY DEF DfuStates
  <2> QED BY <2>1, SetState
<1>2. \/ r = [loader |-> Stalled(l), answer |-> Fail]
      \/ /\ l.state \in {"idle", "upload_idle"}
         /\ (IF first THEN 0 ELSE block % BlockWrap) # c.expected
         /\ r = [loader |-> c, answer |-> Fail]
      \/ /\ l.state \in {"idle", "upload_idle"}
         /\ r = [loader |-> [c EXCEPT !.expected = n, !.offset = c.offset + len,
                                      !.readOpen = full, !.state = s],
                 answer |-> Data(c.offset, len)]
  BY Zenon DEF Uploaded
<1>3. [c EXCEPT !.expected = n, !.offset = c.offset + len, !.readOpen = full, !.state = s] = d
  BY Zenon
<1> HIDE DEF u
<1>4. /\ c \in Loader /\ c.state = "upload_idle" /\ c.writeOpen = l.writeOpen
      /\ c.pending = l.pending /\ c.readOpen
      /\ l.readOpen => c.expected = l.expected /\ c.offset = l.offset
      /\ ~l.readOpen => c.expected = 0 /\ c.offset = 0
  <2>1. CASE u.readOpen
    BY <1>1, <2>1 DEF ReadCursor
  <2>2. CASE ~u.readOpen
    <3> DEFINE a == [u EXCEPT !.readOpen = TRUE]
               b == [a EXCEPT !.expected = 0]
               e == [b EXCEPT !.offset = 0]
    <3>1. /\ a \in Loader /\ a.readOpen /\ a.state = "upload_idle"
          /\ a.writeOpen = l.writeOpen /\ a.pending = l.pending
      BY <1>1, SetReadOpen
    <3>2. c = e
      BY <2>2, Zenon DEF ReadCursor
    <3> HIDE DEF a, c
    <3>3. /\ b \in Loader /\ b.readOpen /\ b.expected = 0 /\ b.state = "upload_idle"
          /\ b.writeOpen = l.writeOpen /\ b.pending = l.pending
      BY <3>1, SetExpected
    <3> HIDE DEF b
    <3>4. 0 \in 0 .. PartitionSize
      BY LoaderAssumption, SMT
    <3>5. /\ e \in Loader /\ e.readOpen /\ e.expected = 0 /\ e.state = "upload_idle"
          /\ e.writeOpen = l.writeOpen /\ e.pending = l.pending /\ e.offset = 0
      BY <3>3, <3>4, SetOffset
    <3> HIDE DEF e
    <3> QED BY <1>1, <2>2, <3>2, <3>5
  <2> QED BY <2>1, <2>2
<1> HIDE DEF c
<1>5. CASE r = [loader |-> Stalled(l), answer |-> Fail]
  <2>1. r.loader = Stalled(l) /\ ~IsData(r.answer)
    BY <1>5, AnswerFacts
  <2> QED BY <2>1, StopFacts DEF SameCursor
<1>6. CASE /\ l.state \in {"idle", "upload_idle"}
           /\ (IF first THEN 0 ELSE block % BlockWrap) # c.expected
           /\ r = [loader |-> c, answer |-> Fail]
  <2>1. r.loader = c /\ ~IsData(r.answer)
    BY <1>6, AnswerFacts
  <2>2. l.readOpen \/ ~first
    BY <1>4, <1>6
  <2>3. l.readOpen \in BOOLEAN
    BY DEF Loader
  <2> QED BY <1>4, <1>6, <2>1, <2>2, <2>3
<1>7. CASE /\ l.state \in {"idle", "upload_idle"}
           /\ r = [loader |-> d, answer |-> Data(c.offset, len)]
  <2>1. r.loader = d /\ IsData(r.answer) /\ r.answer.len = len /\ r.answer.from = c.offset
    BY <1>7 DEF IsData, Data
  <2>2. /\ len \in Nat /\ c.offset + len \in 0 .. PartitionSize /\ n \in Nat
        /\ full \in BOOLEAN /\ s \in DfuStates /\ s \in {"idle", "upload_idle"}
        /\ len # TransferSize => len < TransferSize
    <3>1. c.offset \in 0 .. PartitionSize /\ c.expected \in Nat /\ c.state \in DfuStates
      BY <1>4, SMT DEF Loader
    <3>2. len \in Nat /\ c.offset + len \in 0 .. PartitionSize /\ n \in Nat
          /\ (len # TransferSize => len < TransferSize)
      BY <3>1, LoaderAssumption, SMT
    <3>3. s \in {"idle", "upload_idle"} /\ full \in BOOLEAN
      BY <1>4
    <3>4. s \in DfuStates
      BY <3>3 DEF DfuStates
    <3> QED BY <3>2, <3>3, <3>4
  <2>3. s = "upload_idle" => full \/ first
    BY <2>2
  <2>4. ~full => len < TransferSize
    BY <2>2
  <2> HIDE DEF len, n, s, full
  <2>5. /\ d1 \in Loader /\ d1.writeOpen = l.writeOpen /\ d1.pending = l.pending
    BY <1>4, <2>2, SetExpected
  <2> HIDE DEF d1
  <2>6. /\ d2 \in Loader /\ d2.writeOpen = l.writeOpen /\ d2.pending = l.pending
        /\ d2.offset = c.offset + len
    BY <2>2, <2>5, SetOffset
  <2> HIDE DEF d2
  <2>7. /\ d3 \in Loader /\ d3.writeOpen = l.writeOpen /\ d3.pending = l.pending
        /\ d3.readOpen = full /\ d3.offset = c.offset + len
    BY <2>2, <2>6, SetReadOpen
  <2> HIDE DEF d3
  <2>8. /\ d \in Loader /\ d.writeOpen = l.writeOpen /\ d.pending = l.pending
        /\ d.readOpen = full /\ d.state = s /\ d.offset = c.offset + len
    BY <2>2, <2>7, SetState
  <2> HIDE DEF d
  <2> QED BY <1>7, <2>1, <2>2, <2>3, <2>4, <2>8
<1> QED BY <1>2, <1>3, <1>5, <1>6, <1>7

-----------------------------------------------------------------------------
(* The transfer.                                                           *)

\* What a data answer says of the alternative: it lies inside, and is short
\* only at the end.
AnswersInside ==
  \A i \in 1 .. Len(replies) : IsData(replies[i]) =>
    /\ replies[i].len <= TransferSize
    /\ replies[i].len < TransferSize => replies[i].from + replies[i].len = PartitionSize

\* A full block is followed by the block behind it ...
AnswersChained ==
  op = "upload" /\ pc = "stream" =>
    \A i \in 1 .. Len(replies) - 1 :
      /\ IsData(replies[i]) /\ replies[i].len = TransferSize
      /\ IsData(replies[i + 1])
      => replies[i + 1].from = replies[i].from + TransferSize

\* ... because the loader's read cursor stands there.
CursorBehindLast ==
  op = "upload" /\ pc = "stream" /\ present /\ Len(replies) > 0 =>
    LET last == replies[Len(replies)] IN
      IsData(last) /\ last.len = TransferSize =>
        loader.readOpen /\ loader.offset = last.from + TransferSize

\* No flush of an earlier write is left when streaming starts.
NothingToFlush ==
  /\ pc = "recheck" => loader.state \in {"idle", "error"}
  /\ op = "upload" /\ pc = "stream" => ~loader.flushing

\* What was retired: full blocks one behind the other, copied to the file.
RetiredBlocks ==
  op = "upload" /\ pc = "stream" =>
    /\ retired < Requests /\ retired <= Len(replies)
    /\ retired > 0 =>
         \A i \in 1 .. retired :
            /\ IsData(replies[i]) /\ replies[i].len = TransferSize
            /\ replies[i].from = replies[1].from + (i - 1) * TransferSize
    /\ LET n == retired * TransferSize
           m == IF n < keep THEN n ELSE keep IN
       file = [i \in 1 .. m |-> replies[1].from + i - 1]

\* A confirmed upload read up to the very end of the alternative.
UploadComplete ==
  op = "upload" /\ (pc = "finish" \/ outcome = "done") =>
    /\ size <= PartitionSize
    /\ file = [i \in 1 .. keep |-> PartitionSize - size + i - 1]

\* A session starts with an empty queue and streams into an empty file.
FreshStart ==
  /\ pc \in {"check", "recheck"} /\ error = "none" =>
       submitted = 0 /\ replies = <<>> /\ retired = 0 /\ file = <<>>
  /\ pc = "recheck" => submitted = Len(replies)

CallOK == keep <= size /\ (outcome = "done" => pc = "closed")
          /\ (pc \in {"manifest", "poll", "confirm"} => op = "download")
          /\ (pc = "finish" => op = "upload")

IInv == /\ TypeOK /\ CallOK /\ FreshStart /\ NothingToFlush /\ AnswersInside /\ AnswersChained
        /\ CursorBehindLast /\ RetiredBlocks /\ UploadComplete

-----------------------------------------------------------------------------
(* Answers, queues and files. *)

LEMMA AppendAnswer ==
  ASSUME NEW s \in Seq(Answers), NEW a \in Answers
  PROVE  /\ Append(s, a) \in Seq(Answers)
         /\ Len(s) \in Nat /\ Len(Append(s, a)) = Len(s) + 1
         /\ \A i \in 1 .. Len(s) : Append(s, a)[i] = s[i] /\ s[i] \in Answers
         /\ Append(s, a)[Len(s) + 1] = a
BY SMT

LEMMA FunctionIsSeq ==
  ASSUME NEW S, NEW n \in Nat, NEW f \in [1 .. n -> S]
  PROVE  f \in Seq(S) /\ Len(f) = n
BY SMT

LEMMA ChunkType == ASSUME TypeOK, NEW block \in Nat PROVE Chunk(block) \in Seq(Int)
<1> DEFINE from == block * TransferSize
           len == IF size - from < TransferSize THEN size - from ELSE TransferSize
<1>1. from \in Int /\ len \in Int
  BY LoaderAssumption, SMT DEF TypeOK
<1>2. \A i \in 1 .. len : Unit(from + i - 1) \in Int
  BY <1>1, LoaderAssumption, SMT DEF Unit, TypeOK
<1> HIDE DEF from, len
<1>3. \E n \in Nat : 1 .. len = 1 .. n
  <2>1. CASE len \in Nat
    BY <2>1
  <2>2. CASE len \notin Nat
    BY <1>1, <2>2, SMT
  <2> QED BY <2>1, <2>2
<1>4. PICK n \in Nat : 1 .. len = 1 .. n
  BY <1>3
<1>5. [i \in 1 .. n |-> Unit(from + i - 1)] \in Seq(Int)
  <2>1. [i \in 1 .. n |-> Unit(from + i - 1)] \in [1 .. n -> Int]
    BY <1>2, <1>4, Zenon
  <2> QED BY <2>1, FunctionIsSeq
<1> QED BY <1>4, <1>5 DEF Chunk, from, len

LEMMA JunkType == ASSUME NEW s \in Seq(Int) PROVE [i \in 1 .. Len(s) |-> Junk] \in Seq(Int)
BY SMT DEF Junk

\* The destination file is cut to the prefix asked for.
LEMMA PrefixFacts ==
  ASSUME NEW s \in Seq(Nat), NEW n \in Nat
  PROVE  LET m == IF Len(s) < n THEN Len(s) ELSE n IN
         /\ Prefix(s, n) \in Seq(Nat) /\ Len(Prefix(s, n)) = m /\ m \in Nat
         /\ \A i \in 1 .. m : Prefix(s, n)[i] = s[i]
BY SMT DEF Prefix

-----------------------------------------------------------------------------
(* Steps after which the upload's invariants have nothing to say. *)

LEMMA Quiet ==
  ASSUME TypeOK', CallOK', FreshStart', AnswersInside',
         pc' \notin {"stream", "finish", "recheck"},
         outcome' # "done" \/ op' = "download"
  PROVE  IInv'
<1>1. op' = "download" => op' # "upload"
  OBVIOUS
<1> QED BY <1>1 DEF IInv, NothingToFlush, AnswersChained, CursorBehindLast, RetiredBlocks,
           UploadComplete

LEMMA InsideAppend ==
  ASSUME TypeOK, AnswersInside, NEW a \in Answers, replies' = Append(replies, a),
         IsData(a) => /\ a.len <= TransferSize
                      /\ a.len < TransferSize => a.from + a.len = PartitionSize
  PROVE  AnswersInside'
<1>1. replies \in Seq(Answers)
  BY DEF TypeOK
<1>2. \A i \in 1 .. Len(replies') : i \in 1 .. Len(replies) \/ i = Len(replies) + 1
  BY <1>1, AppendAnswer, SMT
<1> QED BY <1>1, <1>2, AppendAnswer DEF AnswersInside

LEMMA InitInv == Init => IInv
<1> SUFFICES ASSUME Init PROVE IInv
  OBVIOUS
<1>1. <<>> \in Seq(Answers) /\ <<>> \in Seq(Nat) /\ Len(<<>>) = 0
  BY SMT
<1>2. medium \in Medium
  BY SMT DEF Init, Medium, Old
<1>3. TypeOK
  <2>1. loader \in Loader /\ op \in Ops /\ pc = "closed" /\ error = "none" /\ outcome = "none"
    BY FreshType DEF Init, Ops
  <2>2. /\ size \in Nat /\ keep \in Nat /\ submitted \in Nat /\ retired \in Nat
        /\ faults \in Nat /\ attempts \in Nat
        /\ hot \in BOOLEAN /\ present \in BOOLEAN /\ dirty \in BOOLEAN
    BY DEF Init
  <2>3. replies \in Seq(Answers) /\ file \in Seq(Nat) /\ Len(replies) <= submitted
    BY <1>1, SMT DEF Init
  <2> QED BY <1>2, <2>1, <2>2, <2>3 DEF TypeOK
<1>4. AnswersInside
  BY <1>1, SMT DEF Init, AnswersInside
<1>5. CallOK /\ FreshStart /\ NothingToFlush /\ AnswersChained /\ CursorBehindLast
      /\ RetiredBlocks /\ UploadComplete
  BY SMT DEF Init, CallOK, FreshStart, NothingToFlush, AnswersChained, CursorBehindLast,
     RetiredBlocks, UploadComplete
<1> QED BY <1>3, <1>4, <1>5 DEF IInv

\* Raise and Close end or divert a session without claiming success.
LEMMA RaiseQuiet ==
  ASSUME IInv, Raise, pc \in SyncSteps, loader' \in Loader, medium' \in Medium,
         hot' \in BOOLEAN, present' \in BOOLEAN, faults' \in Nat
  PROVE  IInv'
<1> USE DEF IInv
<1>1. /\ UNCHANGED <<op, size, keep, replies, retired, file, attempts>>
      /\ \/ /\ pc' = "check" /\ error' = "dfu" /\ UNCHANGED <<submitted, outcome, dirty>>
            /\ pc \in {"manifest", "poll", "confirm"}
         \/ /\ pc' = "closed" /\ outcome' = "failed" /\ error' = error
            /\ submitted' = Len(replies) /\ dirty' = (error = "dfu")
  BY DEF Raise, RecoveryNote, Close, callVars, queueVars
<1>2. Len(replies) \in Nat /\ Len(replies) <= Len(replies)
  BY SMT DEF TypeOK
<1>3. TypeOK'
  <2>1. /\ loader' \in Loader /\ medium' \in Medium /\ hot' \in BOOLEAN /\ present' \in BOOLEAN
        /\ op' \in Ops /\ size' \in Nat /\ keep' \in Nat /\ retired' \in Nat
        /\ replies' \in Seq(Answers) /\ file' \in Seq(Nat) /\ faults' \in Nat /\ attempts' \in Nat
    BY <1>1 DEF TypeOK
  <2>2. submitted' \in Nat /\ Len(replies') <= submitted'
    BY <1>1, <1>2 DEF TypeOK
  <2>3. /\ pc' \in SyncSteps \cup {"closed", "stream", "cancel"}
        /\ error' \in {"none", "dfu", "other"}
        /\ outcome' \in {"none", "running", "done", "failed", "interrupted"}
    BY <1>1 DEF TypeOK, SyncSteps
  <2>4. dirty' \in BOOLEAN
    BY <1>1, Zenon DEF TypeOK
  <2> QED BY <2>1, <2>2, <2>3, <2>4 DEF TypeOK
<1>4. outcome = "done" => pc = "closed"
  BY DEF CallOK
<1>5. outcome' # "done"
  BY <1>1, <1>4
<1>6. CallOK' /\ FreshStart' /\ AnswersInside'
  BY <1>1, <1>5 DEF CallOK, FreshStart, AnswersInside
<1> QED BY <1>1, <1>3, <1>5, <1>6, Quiet

LEMMA OpenInv ==
  ASSUME IInv, NEW o \in Ops, NEW n \in Sizes, NEW k \in Sizes, Open(o, n, k)
  PROVE  IInv'
<1> USE DEF IInv, Open
<1>1. n \in Nat /\ k \in Nat
  BY TransferAssumption
<1>2. <<>> \in Seq(Answers) /\ <<>> \in Seq(Nat) /\ Len(<<>>) = 0
  BY SMT
<1>3. TypeOK'
  <2>1. loader' = loader /\ medium' = medium /\ hot' = hot /\ present' = present /\ faults' = faults
    BY DEF loaderVars
  <2>2. attempts' \in Nat /\ submitted' \in Nat /\ Len(replies') <= submitted'
    BY <1>2, SMT DEF TypeOK
  <2> QED BY <1>1, <1>2, <2>1, <2>2 DEF TypeOK, SyncSteps
<1>4. CallOK' /\ FreshStart'
  BY DEF CallOK, FreshStart
<1>5. AnswersInside'
  BY <1>2, SMT DEF AnswersInside
<1> QED BY <1>3, <1>4, <1>5, Quiet

LEMMA CheckInv == ASSUME IInv, Check PROVE IInv'
<1> USE DEF IInv
<1> DEFINE l == StatusPolled(loader)
<1>1. pc = "check" /\ CanControl /\ medium' = medium /\ hot' = hot /\ present' = present
      /\ faults' = faults
  BY DEF Check
<1>2. loader \in Loader /\ l \in Loader
  BY PolledType DEF TypeOK
<1>3. CASE l.state \in {"manifest_sync", "manifest"} /\ loader' = l /\ Raise
  BY <1>1, <1>2, <1>3, RaiseQuiet DEF TypeOK, SyncSteps
<1>4. CASE /\ \/ l.state = "idle" /\ loader' = l
              \/ l.state = "error" /\ loader' = StatusCleared(l)
              \/ l.state \in {"dnload_idle", "upload_idle"} /\ loader' = Aborted(l)
           /\ Continue("recheck")
  <2>1. loader' \in Loader /\ loader'.state = "idle"
    BY <1>2, <1>4, SimpleTypes
  <2>2. /\ pc' = "recheck" /\ UNCHANGED <<op, size, keep, submitted, replies, retired, file,
                                         error, outcome, dirty, attempts>>
    BY <1>4 DEF Continue, callVars, queueVars, endVars
  <2>3. TypeOK'
    BY <1>1, <2>1, <2>2 DEF TypeOK, SyncSteps
  <2>4. CallOK' /\ FreshStart' /\ outcome' # "done"
    BY <1>1, <2>2 DEF CallOK, FreshStart, CanControl
  <2>5. AnswersInside' /\ NothingToFlush'
    BY <2>1, <2>2 DEF AnswersInside, NothingToFlush
  <2>6. AnswersChained' /\ CursorBehindLast' /\ RetiredBlocks' /\ UploadComplete'
    BY <2>2, <2>4 DEF AnswersChained, CursorBehindLast, RetiredBlocks, UploadComplete
  <2> QED BY <2>3, <2>4, <2>5, <2>6
<1> QED BY <1>3, <1>4 DEF Check

LEMMA RecheckInv == ASSUME IInv, Recheck PROVE IInv'
<1> USE DEF IInv
<1> DEFINE l == StatusPolled(loader)
<1>1. /\ pc = "recheck" /\ CanControl /\ loader' = l /\ medium' = medium /\ hot' = hot
      /\ present' = present /\ faults' = faults
  BY DEF Recheck
<1>2. loader \in Loader /\ l \in Loader
  BY PolledType DEF TypeOK
<1>3. CASE Raise
  BY <1>1, <1>2, <1>3, RaiseQuiet DEF TypeOK, SyncSteps
<1>4. CASE Close("failed", FALSE)
  <2>1. /\ pc' = "closed" /\ outcome' = "failed" /\ dirty' = FALSE /\ submitted' = Len(replies)
        /\ UNCHANGED <<op, size, keep, replies, retired, file, error, attempts>>
    BY <1>4 DEF Close, callVars
  <2>2. Len(replies) \in Nat /\ Len(replies) <= Len(replies)
    BY SMT DEF TypeOK
  <2>3. TypeOK'
    BY <1>1, <1>2, <2>1, <2>2 DEF TypeOK
  <2> QED BY <2>1, <2>3, Quiet DEF CallOK, FreshStart, AnswersInside
<1>5. CASE error = "none" /\ Continue("stream")
  <2>1. /\ pc' = "stream" /\ UNCHANGED <<op, size, keep, submitted, replies, retired, file,
                                         error, outcome, dirty, attempts>>
    BY <1>5 DEF Continue, callVars, queueVars, endVars
  <2>2. submitted = 0 /\ replies = <<>> /\ retired = 0 /\ file = <<>> /\ outcome # "done"
    BY <1>1, <1>5 DEF FreshStart, CallOK
  <2>3. TypeOK'
    BY <1>1, <1>2, <2>1 DEF TypeOK
  <2>4. CallOK' /\ FreshStart' /\ AnswersInside' /\ UploadComplete'
    BY <2>1, <2>2 DEF CallOK, FreshStart, AnswersInside, UploadComplete
  <2>5. NothingToFlush'
    BY <1>1, <1>2, <2>1, PolledType DEF NothingToFlush, CanControl
  <2>6. Len(replies') = 0
    BY <2>1, <2>2, SMT
  <2>7. AnswersChained' /\ CursorBehindLast'
    BY <2>6, SMT DEF AnswersChained, CursorBehindLast
  <2>8. RetiredBlocks'
    <3>1. Requests \in Nat /\ Requests > 0 /\ Requests' = Requests
      BY <2>1, LoaderAssumption, SMT DEF Requests, TypeOK
    <3>2. retired' * TransferSize = 0 /\ keep' \in Nat
      BY <2>1, <2>2, LoaderAssumption, SMT DEF TypeOK
    <3>3. file' = [i \in 1 .. 0 |-> replies'[1].from + i - 1]
      BY <2>1, <2>2, SMT
    <3> QED BY <2>1, <2>2, <2>6, <3>1, <3>2, <3>3, SMT DEF RetiredBlocks
  <2> QED BY <2>3, <2>4, <2>5, <2>7, <2>8
<1> QED BY <1>3, <1>4, <1>5 DEF Recheck

LEMMA CloseQuiet ==
  ASSUME IInv, NEW o \in {"failed", "interrupted", "done"}, NEW note \in BOOLEAN,
         Close(o, note), o # "done" \/ op = "download",
         loader' \in Loader, medium' \in Medium,
         hot' \in BOOLEAN, present' \in BOOLEAN, faults' \in Nat
  PROVE  IInv'
<1> USE DEF IInv
<1>1. /\ pc' = "closed" /\ outcome' = o /\ dirty' = note /\ submitted' = Len(replies)
      /\ UNCHANGED <<op, size, keep, replies, retired, file, error, attempts>>
  BY DEF Close, callVars
<1>2. Len(replies) \in Nat /\ Len(replies) <= Len(replies)
  BY SMT DEF TypeOK
<1>3. TypeOK'
  <2>1. /\ pc' \in SyncSteps \cup {"closed", "stream", "cancel"}
        /\ outcome' \in {"none", "running", "done", "failed", "interrupted"}
        /\ dirty' \in BOOLEAN
        /\ submitted' \in Nat /\ Len(replies') <= submitted'
    BY <1>1, <1>2
  <2> QED BY <1>1, <2>1 DEF TypeOK
<1>4. CallOK' /\ FreshStart' /\ AnswersInside'
  BY <1>1 DEF CallOK, FreshStart, AnswersInside
<1> QED BY <1>1, <1>3, <1>4, Quiet

LEMMA SubmitInv == ASSUME IInv, Submit PROVE IInv'
<1> USE DEF IInv
<1>1. /\ pc = "stream" /\ submitted' = submitted + 1
      /\ UNCHANGED <<loader, medium, hot, present, pc, op, size, keep, replies, retired, file,
                     error, outcome, dirty, faults, attempts>>
  BY DEF Submit, loaderVars, callVars, endVars
<1>2. submitted' \in Nat /\ Len(replies') <= submitted'
  BY <1>1, SMT DEF TypeOK
<1>3. TypeOK'
  BY <1>1, <1>2 DEF TypeOK
<1>4. CallOK' /\ FreshStart' /\ NothingToFlush' /\ AnswersInside' /\ AnswersChained'
  BY <1>1 DEF CallOK, FreshStart, NothingToFlush, AnswersInside, AnswersChained
<1>5. Requests' = Requests
  BY <1>1 DEF Requests
<1>6. CursorBehindLast' /\ RetiredBlocks' /\ UploadComplete'
  BY <1>1, <1>5 DEF CursorBehindLast, RetiredBlocks, UploadComplete
<1> QED BY <1>3, <1>4, <1>6

\* StreamRaises keeps what was received, and the stream is over.
LEMMA StreamRaisesQuiet ==
  ASSUME IInv, pc = "stream", NEW kind \in {"dfu", "other"}, StreamRaises(kind),
         UNCHANGED <<loaderVars, callVars, outcome, dirty, attempts>>, faults' \in Nat
  PROVE  IInv'
<1> USE DEF IInv
<1>1. /\ pc' = "cancel" /\ error' = kind
      /\ UNCHANGED <<loader, medium, hot, present, op, size, keep, submitted, replies, retired,
                     file, outcome, dirty, attempts>>
  BY DEF StreamRaises, loaderVars, callVars
<1>2. TypeOK'
  BY <1>1 DEF TypeOK
<1>3. CallOK' /\ FreshStart' /\ AnswersInside' /\ outcome' # "done"
  BY <1>1 DEF CallOK, FreshStart, AnswersInside
<1> QED BY <1>1, <1>2, <1>3, Quiet

LEMMA StreamFailsInv == ASSUME IInv, StreamFails PROVE IInv'
<1>1. faults' \in Nat
  BY SMT DEF StreamFails, Fault, IInv, TypeOK
<1> QED BY <1>1, StreamRaisesQuiet DEF StreamFails

LEMMA RetireTimesOutInv == ASSUME IInv, RetireTimesOut PROVE IInv'
<1>1. faults' \in Nat
  BY DEF RetireTimesOut, IInv, TypeOK
<1> QED BY <1>1, StreamRaisesQuiet DEF RetireTimesOut

LEMMA RetireDownloadInv == ASSUME IInv, RetireDownload PROVE IInv'
<1> USE DEF IInv
<1> DEFINE ack == replies[retired + 1]
           r == replies[retired + 2]
<1>1. /\ pc = "stream" /\ op = "download"
      /\ UNCHANGED <<loaderVars, callVars, outcome, dirty, faults, attempts>>
  BY DEF RetireDownload
<1>2. faults' \in Nat
  BY <1>1 DEF TypeOK
<1>3. CASE StreamRaises("dfu")
  BY <1>1, <1>2, <1>3, StreamRaisesQuiet
<1>4. CASE /\ retired' = retired + 2 /\ (pc' = "manifest" \/ pc' = pc)
           /\ UNCHANGED <<submitted, replies, file, error>>
  <2>1. UNCHANGED <<loader, medium, hot, present, op, size, keep, outcome, dirty, attempts>>
    BY <1>1 DEF loaderVars, callVars
  <2>2. retired' \in Nat
    BY <1>4, SMT DEF TypeOK
  <2>3. TypeOK'
    BY <1>1, <1>2, <1>4, <2>1, <2>2 DEF TypeOK, SyncSteps
  <2>4. CallOK' /\ FreshStart' /\ AnswersInside' /\ outcome' # "done" /\ op' # "upload"
    BY <1>1, <1>4, <2>1 DEF CallOK, FreshStart, AnswersInside
  <2>5. NothingToFlush' /\ AnswersChained' /\ CursorBehindLast' /\ RetiredBlocks' /\ UploadComplete'
    BY <1>1, <1>4, <2>4 DEF NothingToFlush, AnswersChained, CursorBehindLast, RetiredBlocks,
       UploadComplete
  <2> QED BY <2>3, <2>4, <2>5
<1>5. \/ StreamRaises("dfu")
      \/ /\ retired' = retired + 2 /\ (pc' = "manifest" \/ pc' = pc)
         /\ UNCHANGED <<submitted, replies, file, error>>
  BY Zenon DEF RetireDownload
<1> QED BY <1>3, <1>4, <1>5

LEMMA DiscardInv == ASSUME IInv, Discard PROVE IInv'
<1> USE DEF IInv
<1>1. /\ pc = "cancel" /\ Len(replies) < submitted /\ replies' = Append(replies, Cancelled)
      /\ UNCHANGED <<loader, medium, hot, present, pc, op, size, keep, submitted, retired, file,
                     error, outcome, dirty, faults, attempts>>
  BY DEF Discard, loaderVars, callVars, endVars
<1>2. replies \in Seq(Answers)
  BY DEF TypeOK
<1>3. replies' \in Seq(Answers) /\ Len(replies') = Len(replies) + 1 /\ Len(replies) \in Nat
  BY <1>1, <1>2, AppendAnswer, AnswerFacts
<1>4. Len(replies') <= submitted'
  BY <1>1, <1>3, SMT DEF TypeOK
<1>5. TypeOK'
  BY <1>1, <1>3, <1>4 DEF TypeOK
<1>6. AnswersInside'
  BY <1>1, AnswerFacts, InsideAppend
<1>7. CallOK' /\ FreshStart' /\ outcome' # "done"
  BY <1>1 DEF CallOK, FreshStart
<1> QED BY <1>1, <1>5, <1>6, <1>7, Quiet

LEMMA CancelEndsInv == ASSUME IInv, CancelEnds PROVE IInv'
<1> USE DEF IInv
<1>1. /\ pc = "cancel" /\ UNCHANGED <<loader, medium, hot, present>>
  BY DEF CancelEnds, loaderVars
<1>2. faults' \in Nat
  BY DEF CancelEnds, TypeOK
<1>3. CASE Close("interrupted", FALSE)
  BY <1>1, <1>2, <1>3, CloseQuiet DEF TypeOK
<1>4. CASE error = "dfu" /\ Continue("check")
  <2>1. /\ pc' = "check"
        /\ UNCHANGED <<op, size, keep, submitted, replies, retired, file, error, outcome, dirty,
                       attempts>>
    BY <1>4 DEF Continue, callVars, queueVars, endVars
  <2>2. TypeOK'
    BY <1>1, <1>2, <2>1 DEF TypeOK, SyncSteps
  <2>3. CallOK' /\ FreshStart' /\ AnswersInside' /\ outcome' # "done"
    BY <1>1, <1>4, <2>1 DEF CallOK, FreshStart, AnswersInside
  <2> QED BY <2>1, <2>2, <2>3, Quiet
<1> QED BY <1>3, <1>4 DEF CancelEnds

LEMMA InterruptedInv == ASSUME IInv, Interrupted PROVE IInv'
<1>1. faults' \in Nat
  BY SMT DEF Interrupted, Fault, IInv, TypeOK
<1>2. UNCHANGED <<loader, medium, hot, present>> /\ Close("interrupted", FALSE)
  BY DEF Interrupted, loaderVars
<1> QED BY <1>1, <1>2, CloseQuiet DEF IInv, TypeOK

LEMMA FinishUploadInv == ASSUME IInv, FinishUpload PROVE IInv'
<1> USE DEF IInv
<1> DEFINE l == StatusPolled(loader)
           a == IF l.good /\ l.state = "upload_idle" THEN StatusPolled(Aborted(l)) ELSE l
<1>1. /\ pc = "finish" /\ loader' = a /\ medium' = medium /\ hot' = hot /\ present' = present
      /\ faults' = faults /\ (Close("done", FALSE) \/ Raise)
  BY DEF FinishUpload
<1>2. a \in Loader
  <2>1. l \in Loader
    BY PolledType DEF TypeOK
  <2> HIDE DEF l
  <2>2. StatusPolled(Aborted(l)) \in Loader
    BY <2>1, SimpleTypes, PolledType
  <2> QED BY <2>1, <2>2
<1> HIDE DEF a
<1>3. CASE Raise
  BY <1>1, <1>2, <1>3, RaiseQuiet DEF TypeOK, SyncSteps
<1>4. CASE Close("done", FALSE)
  <2>1. /\ pc' = "closed" /\ outcome' = "done" /\ dirty' = FALSE /\ submitted' = Len(replies)
        /\ UNCHANGED <<op, size, keep, replies, retired, file, error, attempts>>
    BY <1>4 DEF Close, callVars
  <2>2. Len(replies) \in Nat /\ Len(replies) <= Len(replies)
    BY SMT DEF TypeOK
  <2>3. TypeOK'
    BY <1>1, <1>2, <2>1, <2>2 DEF TypeOK
  <2>4. CallOK' /\ FreshStart' /\ AnswersInside'
    BY <2>1 DEF CallOK, FreshStart, AnswersInside
  <2>5. NothingToFlush' /\ AnswersChained' /\ CursorBehindLast' /\ RetiredBlocks'
    BY <2>1 DEF NothingToFlush, AnswersChained, CursorBehindLast, RetiredBlocks
  <2>6. UploadComplete'
    BY <1>1, <2>1 DEF UploadComplete
  <2> QED BY <2>3, <2>4, <2>5, <2>6
<1> QED BY <1>1, <1>3, <1>4

\* A step of the confirmation that goes on, or ends the download.
LEMMA ConfirmQuiet ==
  ASSUME IInv, pc \in {"manifest", "poll", "confirm"}, loader' \in Loader,
         UNCHANGED <<medium, hot, present, faults>>,
         \/ Raise
         \/ Close("done", FALSE)
         \/ \E step \in {"poll", "confirm"} : Continue(step)
  PROVE  IInv'
<1> USE DEF IInv
<1>1. medium' \in Medium /\ hot' \in BOOLEAN /\ present' \in BOOLEAN /\ faults' \in Nat
  BY DEF TypeOK
<1>2. op = "download" /\ outcome # "done" /\ pc \in SyncSteps
  BY DEF CallOK, SyncSteps
<1>3. CASE Raise
  BY <1>1, <1>2, <1>3, RaiseQuiet
<1>4. CASE Close("done", FALSE)
  BY <1>1, <1>2, <1>4, CloseQuiet
<1>5. ASSUME NEW step \in {"poll", "confirm"}, Continue(step) PROVE IInv'
  <2>1. /\ pc' = step
        /\ UNCHANGED <<op, size, keep, submitted, replies, retired, file, error, outcome, dirty,
                       attempts>>
    BY <1>5 DEF Continue, callVars, queueVars, endVars
  <2>2. TypeOK'
    BY <1>1, <2>1 DEF TypeOK, SyncSteps
  <2>3. CallOK' /\ FreshStart' /\ AnswersInside' /\ outcome' # "done"
    BY <1>2, <2>1 DEF CallOK, FreshStart, AnswersInside
  <2> QED BY <2>1, <2>2, <2>3, Quiet
<1> QED BY <1>3, <1>4, <1>5

LEMMA ConfirmInv ==
  ASSUME IInv, Manifest \/ PollManifest \/ ConfirmFlush
  PROVE  IInv'
<1>1. Ended(loader) \in Loader /\ StatusPolled(loader) \in Loader
  BY SimpleTypes, PolledType DEF IInv, TypeOK
<1>2. CASE Manifest
  BY <1>1, <1>2, ConfirmQuiet DEF Manifest
<1>3. CASE PollManifest
  BY <1>1, <1>3, ConfirmQuiet DEF PollManifest, ConfirmNext
<1>4. CASE ConfirmFlush
  BY <1>1, <1>4, ConfirmQuiet DEF ConfirmFlush
<1> QED BY <1>2, <1>3, <1>4

LEMMA ControlFailsInv == ASSUME IInv, ControlFails PROVE IInv'
<1>1. loader' \in Loader
  BY PolledType DEF ControlFails, IInv, TypeOK
<1>2. faults' \in Nat
  BY DEF ControlFails, IInv, TypeOK
<1> QED BY <1>1, <1>2, RaiseQuiet DEF ControlFails, IInv, TypeOK

\* To the loader and the queue, giving up on a busy loader is a request that failed.
LEMMA BusyFails == ManifestTimesOut => ControlFails
BY Zenon DEF ManifestTimesOut, StaysBusy, ControlFails, SyncSteps, loaderVars

-----------------------------------------------------------------------------
(* Steps of the device. *)

\* A request that ran: the loader answers, the helper has yet to look.
LEMMA RanInv ==
  ASSUME IInv, Pending, NEW a \in Answers, Ran(loader', medium', a),
         loader' \in Loader, medium' \in Medium, hot' \in BOOLEAN, faults' \in Nat,
         IsData(a) => /\ a.len <= TransferSize
                      /\ a.len < TransferSize => a.from + a.len = PartitionSize,
         op = "upload" /\ pc = "stream" =>
           /\ ~loader'.flushing
           /\ IsData(a) /\ loader.readOpen => a.from = loader.offset
           /\ IsData(a) /\ Len(replies) > 0 => present
           /\ present /\ IsData(a) /\ a.len = TransferSize =>
                loader'.readOpen /\ loader'.offset = a.from + TransferSize
  PROVE  IInv'
<1> USE DEF IInv
<1>1. /\ replies' = Append(replies, a)
      /\ UNCHANGED <<present, pc, op, size, keep, submitted, retired, file, error, outcome,
                     dirty, attempts>>
  BY DEF Ran, callVars, endVars
<1>2. /\ replies \in Seq(Answers) /\ replies' \in Seq(Answers)
      /\ Len(replies) \in Nat /\ Len(replies') = Len(replies) + 1
      /\ \A i \in 1 .. Len(replies) : replies'[i] = replies[i]
      /\ replies'[Len(replies) + 1] = a
  BY <1>1, AppendAnswer DEF TypeOK
<1>3. Len(replies) < submitted
  BY DEF Pending
<1>4. TypeOK'
  <2>1. Len(replies') <= submitted'
    BY <1>1, <1>2, <1>3, SMT DEF TypeOK
  <2> QED BY <1>1, <1>2, <2>1 DEF TypeOK
<1>5. AnswersInside'
  BY <1>1, InsideAppend
<1>6. CallOK' /\ UploadComplete'
  BY <1>1 DEF CallOK, UploadComplete
<1>7. FreshStart'
  <2>1. ~(submitted = 0) /\ submitted # Len(replies)
    BY <1>2, <1>3, SMT
  <2> QED BY <1>1, <2>1 DEF FreshStart
<1>8. NothingToFlush'
  <2>1. pc # "recheck"
    BY <1>2, <1>3, SMT DEF FreshStart
  <2> QED BY <1>1, <2>1 DEF NothingToFlush
<1>9. AnswersChained'
  <2> SUFFICES ASSUME op = "upload", pc = "stream", NEW i \in 1 .. Len(replies') - 1,
                      IsData(replies'[i]), replies'[i].len = TransferSize,
                      IsData(replies'[i + 1])
               PROVE  replies'[i + 1].from = replies'[i].from + TransferSize
    BY <1>1 DEF AnswersChained
  <2>1. CASE i < Len(replies)
    <3>1. /\ i \in 1 .. Len(replies) - 1 /\ i \in 1 .. Len(replies)
          /\ i + 1 \in 1 .. Len(replies)
      BY <1>2, <2>1, SMT
    <3> QED BY <1>2, <3>1 DEF AnswersChained
  <2>2. CASE i = Len(replies)
    <3>1. /\ Len(replies) > 0 /\ i \in 1 .. Len(replies) /\ replies'[i] = replies[i]
          /\ replies'[i + 1] = a
      BY <1>2, <2>2, SMT
    <3>2. loader.readOpen /\ loader.offset = replies[i].from + TransferSize
      BY <2>2, <3>1 DEF CursorBehindLast
    <3> QED BY <3>1, <3>2
  <2> QED BY <1>2, <2>1, <2>2, SMT
<1>10. CursorBehindLast'
  <2>1. replies'[Len(replies')] = a
    BY <1>2
  <2> QED BY <1>1, <2>1 DEF CursorBehindLast
<1>11. RetiredBlocks'
  <2> SUFFICES ASSUME op = "upload", pc = "stream" PROVE RetiredBlocks'
    BY <1>1 DEF RetiredBlocks
  <2>1. Requests' = Requests
    BY <1>1 DEF Requests
  <2>2. retired <= Len(replies) /\ retired <= Len(replies') /\ retired \in Nat
    BY <1>2, SMT DEF RetiredBlocks, TypeOK
  <2>3. \A i \in 1 .. retired : replies'[i] = replies[i]
    BY <1>2, <2>2, SMT
  <2>4. CASE retired > 0
    <3>1. replies'[1] = replies[1]
      BY <2>2, <2>3, <2>4, SMT
    <3> QED BY <1>1, <2>1, <2>2, <2>3, <2>4, <3>1 DEF RetiredBlocks
  <2>5. CASE ~(retired > 0)
    <3>1. retired * TransferSize = 0 /\ keep \in Nat
      BY <2>2, <2>5, LoaderAssumption, SMT DEF TypeOK
    <3>2. file = [i \in 1 .. 0 |-> replies[1].from + i - 1]
      BY <3>1, SMT DEF RetiredBlocks
    <3>3. file = [i \in 1 .. 0 |-> replies'[1].from + i - 1]
      BY <3>2, SMT
    <3> QED BY <1>1, <2>1, <2>2, <2>5, <3>1, <3>3, SMT DEF RetiredBlocks
  <2> QED BY <2>2, <2>4, <2>5
<1> QED BY <1>4, <1>5, <1>6, <1>7, <1>8, <1>9, <1>10, <1>11

LEMMA RunUploadInv == ASSUME IInv, RunUpload PROVE IInv'
<1> USE DEF IInv
<1> DEFINE r == Uploaded(loader, Len(replies))
<1>1. /\ Pending /\ present /\ ~loader.flushing /\ Ran(r.loader, medium, r.answer)
      /\ UNCHANGED <<hot, faults>>
  BY DEF RunUpload
<1>2. Len(replies) \in Nat /\ loader \in Loader
  BY SMT DEF TypeOK
<1>3. loader' = r.loader /\ medium' = medium
  BY <1>1 DEF Ran
<1>4. /\ r.loader \in Loader /\ r.answer \in Answers
      /\ r.loader.flushing = loader.flushing
      /\ IsData(r.answer) =>
           /\ r.answer.len <= TransferSize
           /\ r.answer.len < TransferSize => r.answer.from + r.answer.len = PartitionSize
           /\ r.answer.len = TransferSize =>
                r.loader.readOpen /\ r.loader.offset = r.answer.from + TransferSize
           /\ loader.readOpen => r.answer.from = loader.offset
  BY <1>2, UploadedFacts
<1> HIDE DEF r
<1>5. hot' \in BOOLEAN /\ faults' \in Nat /\ medium' \in Medium
  BY <1>1, <1>3 DEF TypeOK
<1> QED BY <1>1, <1>3, <1>4, <1>5, RanInv

LEMMA RunDownloadInv == ASSUME IInv, RunDownload PROVE IInv'
<1> USE DEF IInv
<1>1. Pending /\ op = "download" /\ hot' = FALSE /\ faults' \in Nat
  BY SMT DEF RunDownload, Fault, TypeOK
<1> DEFINE block == Len(replies) \div 2
<1>2. PICK fails \in BOOLEAN, stale \in BOOLEAN :
        LET units == IF stale THEN [i \in 1 .. Len(Chunk(block)) |-> Junk] ELSE Chunk(block)
            r == Downloaded(loader, medium, block, units, fails)
        IN  Ran(r.loader, r.medium, r.answer)
  BY Zenon DEF RunDownload
<1> DEFINE units == IF stale THEN [i \in 1 .. Len(Chunk(block)) |-> Junk] ELSE Chunk(block)
           r == Downloaded(loader, medium, block, units, fails)
<1>3. block \in Nat
  BY SMT DEF TypeOK
<1>4. units \in Seq(Int)
  BY <1>3, ChunkType, JunkType
<1>5. loader \in Loader /\ medium \in Medium
  BY DEF TypeOK
<1>6. Ran(r.loader, r.medium, r.answer)
  BY <1>2
<1> HIDE DEF block, units
<1>7. r.loader \in Loader /\ r.medium \in Medium /\ r.answer \in {Fail, Ack}
  BY <1>3, <1>4, <1>5, DownloadedTypes
<1> HIDE DEF r
<1>8. r.answer \in Answers /\ ~IsData(r.answer)
  BY <1>7, AnswerFacts
<1>9. loader' = r.loader /\ medium' = r.medium
  BY <1>6 DEF Ran
<1> QED BY <1>1, <1>6, <1>7, <1>8, <1>9, RanInv

LEMMA RunStatusInv == ASSUME IInv, RunStatus PROVE IInv'
<1> USE DEF IInv
<1> DEFINE l == StatusPolled(loader)
<1>1. /\ Pending /\ op = "download" /\ Ran(l, medium, Status(l))
      /\ hot' \in BOOLEAN /\ faults' = faults
  BY DEF RunStatus
<1>2. l \in Loader
  BY PolledType DEF TypeOK
<1> HIDE DEF l
<1>3. Status(l) \in Answers /\ ~IsData(Status(l))
  BY <1>2, AnswerFacts
<1>4. loader' = l /\ medium' = medium
  BY <1>1 DEF Ran
<1> QED BY <1>1, <1>2, <1>3, <1>4, RanInv DEF TypeOK

LEMMA RunWithoutDeviceInv == ASSUME IInv, RunWithoutDevice PROVE IInv'
<1> USE DEF IInv
<1>1. Pending /\ Ran(loader, medium, Fail) /\ UNCHANGED <<hot, faults>>
  BY DEF RunWithoutDevice
<1>2. loader' = loader /\ medium' = medium
  BY <1>1 DEF Ran
<1>3. op = "upload" /\ pc = "stream" => ~loader'.flushing
  BY <1>2 DEF NothingToFlush
<1> QED BY <1>1, <1>2, <1>3, AnswerFacts, RanInv DEF TypeOK

LEMMA FlushStates ==
  ASSUME NEW l \in Loader
  PROVE  /\ Flushed(l).state = l.state /\ FlushFailed(l).state = "error"
         /\ ~Flushed(l).flushing /\ ~FlushFailed(l).flushing
BY Zenon DEF Flushed, FlushFailed, Drained, WriteFailed, Loader

LEMMA FlushInv == ASSUME IInv, Flush PROVE IInv'
<1> USE DEF IInv
<1>1. /\ loader.flushing
      /\ UNCHANGED <<hot, present, pc, op, size, keep, submitted, replies, retired, file, error,
                     outcome, dirty, attempts>>
  BY DEF Flush, callVars, queueVars, endVars
<1>2. loader' \in Loader /\ medium' \in Medium /\ faults' \in Nat
  <2>1. loader \in Loader /\ medium \in Medium /\ faults \in Nat
    BY DEF TypeOK
  <2>2. CASE DrainFits(loader) /\ loader' = Flushed(loader) /\ medium' = Stored(loader, medium)
             /\ UNCHANGED faults
    BY <2>1, <2>2, DrainTypes
  <2>3. CASE /\ IF DrainFits(loader) THEN Fault ELSE UNCHANGED faults
             /\ loader' = FlushFailed(loader) /\ UNCHANGED medium
    <3>1. faults' \in Nat
      BY <2>1, <2>3, SMT DEF Fault
    <3> QED BY <2>1, <2>3, <3>1, SimpleTypes
  <2> QED BY <2>2, <2>3 DEF Flush
<1>3. loader' = Flushed(loader) \/ loader' = FlushFailed(loader)
  BY DEF Flush
<1>4. TypeOK'
  BY <1>1, <1>2 DEF TypeOK
<1>5. CallOK' /\ FreshStart' /\ AnswersInside' /\ AnswersChained' /\ UploadComplete'
  BY <1>1 DEF CallOK, FreshStart, AnswersInside, AnswersChained, UploadComplete
<1>6. ~(op = "upload" /\ pc = "stream")
  BY <1>1 DEF NothingToFlush
<1>7. CursorBehindLast' /\ RetiredBlocks'
  BY <1>1, <1>6 DEF CursorBehindLast, RetiredBlocks
<1>8. NothingToFlush'
  BY <1>1, <1>3, <1>6, FlushStates DEF NothingToFlush, TypeOK
<1> QED BY <1>4, <1>5, <1>7, <1>8

LEMMA DisconnectInv == ASSUME IInv, Disconnect PROVE IInv'
<1> USE DEF IInv
<1>1. /\ present' = FALSE /\ loader' = FreshLoader /\ hot' = FALSE
      /\ UNCHANGED <<medium, pc, op, size, keep, submitted, replies, retired, file, error,
                     outcome, dirty, attempts>>
  BY DEF Disconnect, callVars, queueVars, endVars
<1>2. faults' \in Nat
  BY SMT DEF Disconnect, Fault, TypeOK
<1>3. TypeOK'
  BY <1>1, <1>2, FreshType DEF TypeOK
<1>4. CallOK' /\ FreshStart' /\ AnswersInside' /\ AnswersChained' /\ UploadComplete'
  BY <1>1 DEF CallOK, FreshStart, AnswersInside, AnswersChained, UploadComplete
<1>5. NothingToFlush' /\ CursorBehindLast'
  BY <1>1, FreshType DEF NothingToFlush, CursorBehindLast
<1>6. Requests' = Requests
  BY <1>1 DEF Requests
<1>7. RetiredBlocks'
  BY <1>1, <1>6 DEF RetiredBlocks
<1> QED BY <1>3, <1>4, <1>5, <1>7

LEMMA ReenterInv == ASSUME IInv, Reenter PROVE IInv'
<1> USE DEF IInv
<1>1. /\ pc = "closed" /\ present' = TRUE /\ loader' = FreshLoader /\ hot' = FALSE
      /\ UNCHANGED <<medium, pc, op, size, keep, submitted, replies, retired, file, error,
                     outcome, dirty, faults, attempts>>
  BY DEF Reenter, callVars, queueVars, endVars
<1>2. TypeOK'
  BY <1>1, FreshType DEF TypeOK
<1>3. CallOK' /\ FreshStart' /\ AnswersInside' /\ UploadComplete'
  BY <1>1 DEF CallOK, FreshStart, AnswersInside, UploadComplete
<1>4. NothingToFlush' /\ CursorBehindLast' /\ AnswersChained' /\ RetiredBlocks'
  BY <1>1 DEF NothingToFlush, CursorBehindLast, AnswersChained, RetiredBlocks
<1> QED BY <1>2, <1>3, <1>4

-----------------------------------------------------------------------------
(* Retiring a block of an upload. *)

Least(a, b) == IF a < b THEN a ELSE b

\* The partition units of a file that begins with unit f.
Segment(f, n) == [i \in 1 .. n |-> f + i - 1]

LEMMA ConcatFacts ==
  ASSUME NEW s \in Seq(Nat), NEW b \in Seq(Nat)
  PROVE  /\ s \o b \in Seq(Nat) /\ Len(s \o b) = Len(s) + Len(b)
         /\ \A i \in 1 .. Len(s) + Len(b) :
              (s \o b)[i] = IF i <= Len(s) THEN s[i] ELSE b[i - Len(s)]
BY SMT

\* A block that continues the file continues its kept prefix.
LEMMA FileContinues ==
  \A f, n, k, len \in Nat :
    /\ Prefix(Segment(f, Least(n, k)) \o Segment(f + n, len), k)
         = Segment(f, Least(n + len, k))
    /\ Prefix(Segment(f, Least(n, k)) \o Segment(f + n, len), k) \in Seq(Nat)
<1> SUFFICES ASSUME NEW f \in Nat, NEW n \in Nat, NEW k \in Nat, NEW len \in Nat,
                    NEW s, s = Segment(f, Least(n, k)), NEW b, b = Segment(f + n, len)
             PROVE  /\ Prefix(s \o b, k) = Segment(f, Least(n + len, k))
                    /\ Prefix(s \o b, k) \in Seq(Nat)
  BY Zenon
<1> USE DEF Segment
<1> DEFINE m == Least(n, k)
           t == s \o b
           e == Least(n + len, k)
<1>1. m \in Nat /\ e \in Nat /\ e = (IF m + len < k THEN m + len ELSE k)
  BY SMT DEF Least
<1>2. /\ \A i \in 1 .. m : f + i - 1 \in Nat
      /\ \A i \in 1 .. len : f + n + i - 1 \in Nat
  BY <1>1, SMT
<1>3. s \in Seq(Nat) /\ Len(s) = m
  <2>1. s \in [1 .. m -> Nat]
    BY <1>2
  <2> QED BY <1>1, <2>1, FunctionIsSeq, ZenonT(40)
<1>4. b \in Seq(Nat) /\ Len(b) = len
  <2>1. b \in [1 .. len -> Nat]
    BY <1>2
  <2> QED BY <2>1, FunctionIsSeq, Zenon
<1>5. /\ t \in Seq(Nat) /\ Len(t) = m + len
      /\ \A i \in 1 .. m + len : t[i] = IF i <= m THEN s[i] ELSE b[i - m]
  <2> HIDE DEF m, e
  <2>1. /\ t \in Seq(Nat) /\ Len(t) = Len(s) + Len(b)
        /\ \A i \in 1 .. Len(s) + Len(b) : t[i] = IF i <= Len(s) THEN s[i] ELSE b[i - Len(s)]
    BY <1>3, <1>4, ConcatFacts
  <2> HIDE DEF t
  <2> QED BY <1>3, <1>4, <2>1
<1>6. \A i \in 1 .. e : t[i] = f + i - 1
  <2> SUFFICES ASSUME NEW i \in 1 .. e PROVE t[i] = f + i - 1
    OBVIOUS
  <2>1. i \in 1 .. m + len
    BY <1>1, SMT
  <2>2. CASE i <= m
    <3>1. i \in 1 .. m
      BY <1>1, <2>1, <2>2, SMT
    <3> QED BY <1>5, <2>1, <2>2, <3>1
  <2>3. CASE ~(i <= m)
    <3>1. m = n /\ i - m \in 1 .. len
      BY <1>1, <2>1, <2>3, SMT DEF Least
    <3>2. b[i - m] = f + n + (i - m) - 1
      BY <3>1
    <3>3. t[i] = b[i - m]
      BY <1>5, <2>1, <2>3
    <3> HIDE DEF t, m
    <3> QED BY <3>1, <3>2, <3>3, SMT
  <2> QED BY <2>2, <2>3
<1> HIDE DEF m, t
<1>7. /\ Prefix(t, k) \in Seq(Nat) /\ Len(Prefix(t, k)) = e
      /\ \A i \in 1 .. e : Prefix(t, k)[i] = t[i]
  BY <1>1, <1>5, PrefixFacts, SMTT(40)
<1>8. Prefix(t, k) = [i \in 1 .. e |-> f + i - 1]
  <2> HIDE DEF e
  <2> DEFINE q == Prefix(t, k)
  <2>1. q \in Seq(Nat) /\ Len(q) = e /\ \A i \in 1 .. e : q[i] = f + i - 1
    BY <1>6, <1>7
  <2> HIDE DEF q
  <2>2. q = [i \in 1 .. e |-> q[i]]
    BY <2>1, SMT
  <2> QED BY <2>1, <2>2 DEF q
<1> QED BY <1>7, <1>8 DEF t

\* The blocks of an upload: full ones, and a last short one.
LEMMA BlockArithmetic ==
  ASSUME TypeOK
  PROVE  /\ Requests \in Nat /\ Requests > 0 /\ FinalLength \in Nat
         /\ FinalLength < TransferSize
         /\ size = (Requests - 1) * TransferSize + FinalLength
<1>1. size \in Nat /\ TransferSize \in Nat /\ TransferSize > 0
  BY LoaderAssumption, SMT DEF TypeOK
<1>2. /\ size \div TransferSize \in Nat /\ size % TransferSize \in Nat
      /\ size % TransferSize < TransferSize
      /\ size = (size \div TransferSize) * TransferSize + (size % TransferSize)
  BY <1>1, SMT
<1> QED BY <1>1, <1>2, SMT DEF Requests, FinalLength

\* Where the block about to be retired comes from, and what the file becomes.
LEMMA NextBlock ==
  ASSUME IInv, op = "upload", pc = "stream", retired < Len(replies),
         IsData(replies[retired + 1])
  PROVE  LET r == replies[retired + 1]
             f == replies[1].from
             g == Prefix(file \o [i \in 1 .. r.len |-> r.from + i - 1], keep)
         IN  /\ f \in Nat /\ r.from = f + retired * TransferSize /\ r.len \in Nat
             /\ g = [i \in 1 .. Least(retired * TransferSize + r.len, keep) |-> f + i - 1]
             /\ g \in Seq(Nat)
<1> USE DEF IInv
<1> DEFINE r == replies[retired + 1]
           f == replies[1].from
           n == retired * TransferSize
<1>1. /\ replies \in Seq(Answers) /\ Len(replies) \in Nat /\ retired \in Nat /\ keep \in Nat
      /\ retired + 1 \in 1 .. Len(replies) /\ 1 \in 1 .. Len(replies)
      /\ n \in Nat
  BY LoaderAssumption, SMT DEF TypeOK
<1>2. r \in Answers /\ replies[1] \in Answers
  BY <1>1, SMT
<1>3. r.from \in Nat /\ r.len \in Nat
  BY <1>2, AnswerFacts
<1>4. f \in Nat /\ r.from = f + n
  <2>1. CASE retired = 0
    <3>1. r = replies[1] /\ n = 0
      BY <2>1, LoaderAssumption, SMT
    <3> QED BY <1>3, <3>1, SMT
  <2>2. CASE retired > 0
    <3>1. /\ retired \in 1 .. retired /\ 1 \in 1 .. retired
          /\ retired \in 1 .. Len(replies) - 1
      BY <1>1, <2>2, SMT
    <3>2. /\ IsData(replies[1]) /\ IsData(replies[retired])
          /\ replies[retired].len = TransferSize
          /\ replies[retired].from = f + (retired - 1) * TransferSize
      BY <2>2, <3>1 DEF RetiredBlocks
    <3>3. f \in Nat
      BY <1>2, <3>2, AnswerFacts
    <3>4. r.from = replies[retired].from + TransferSize
      BY <3>1, <3>2 DEF AnswersChained
    <3>5. (retired - 1) * TransferSize + TransferSize = n
      BY <1>1, LoaderAssumption, SMT
    <3> HIDE DEF f, r, n
    <3>6. (retired - 1) * TransferSize \in Int /\ TransferSize \in Int
      BY <1>1, LoaderAssumption, SMT
    <3> DEFINE y == (retired - 1) * TransferSize
    <3> HIDE DEF y
    <3>7. y \in Int /\ y + TransferSize = n /\ r.from = f + y + TransferSize
      BY <3>2, <3>4, <3>5, <3>6 DEF y
    <3> QED BY <3>3, <3>6, <3>7, SMT
  <2> QED BY <1>1, <2>1, <2>2, SMT
<1>5. file = [i \in 1 .. Least(n, keep) |-> f + i - 1]
  BY DEF RetiredBlocks, Least
<1>6. file = Segment(f, Least(n, keep))
  BY <1>5 DEF Segment
<1> HIDE DEF f, r, n
<1> DEFINE b == [i \in 1 .. r.len |-> r.from + i - 1]
           g == Prefix(file \o b, keep)
<1>7. b = Segment(f + n, r.len)
  BY <1>4 DEF Segment
<1> HIDE DEF b
<1>8. g = Segment(f, Least(n + r.len, keep)) /\ g \in Seq(Nat)
  <2>1. f \in Nat /\ n \in Nat /\ keep \in Nat /\ r.len \in Nat
    BY <1>1, <1>3, <1>4
  <2>2. /\ Prefix(Segment(f, Least(n, keep)) \o Segment(f + n, r.len), keep)
             = Segment(f, Least(n + r.len, keep))
        /\ Prefix(Segment(f, Least(n, keep)) \o Segment(f + n, r.len), keep) \in Seq(Nat)
    BY <2>1, FileContinues, Zenon
  <2> QED BY <1>6, <1>7, <2>2, Zenon
<1> HIDE DEF g
<1>9. /\ f \in Nat /\ r.from = f + n /\ r.len \in Nat
      /\ g = [i \in 1 .. Least(n + r.len, keep) |-> f + i - 1] /\ g \in Seq(Nat)
  BY <1>3, <1>4, <1>8 DEF Segment
<1> QED BY <1>9, Zenon DEF r, f, n, g, b

LEMMA RetireUploadInv == ASSUME IInv, RetireUpload PROVE IInv'
<1> USE DEF IInv
<1> DEFINE r == replies[retired + 1]
           wanted == Wanted(retired)
           f == replies[1].from
           n == retired * TransferSize
<1>1. /\ pc = "stream" /\ op = "upload" /\ retired < Len(replies)
      /\ UNCHANGED <<loaderVars, callVars, outcome, dirty, faults, attempts>>
  BY DEF RetireUpload
<1>2. faults' \in Nat
  BY <1>1 DEF TypeOK
<1>3. CASE StreamRaises("dfu")
  BY <1>1, <1>2, <1>3, StreamRaisesQuiet
<1>4. CASE /\ r.kind = "data" /\ r.len = wanted
           /\ file' = Prefix(file \o [i \in 1 .. r.len |-> r.from + i - 1], keep)
           /\ retired' = retired + 1
           /\ pc' = IF retired + 1 = Requests THEN "finish" ELSE pc
           /\ UNCHANGED <<submitted, replies, error>>
  <2>1. UNCHANGED <<loader, medium, hot, present, op, size, keep, outcome, dirty, attempts>>
    BY <1>1 DEF loaderVars, callVars
  <2>2. /\ f \in Nat /\ r.from = f + n /\ r.len \in Nat
        /\ file' = [i \in 1 .. Least(n + r.len, keep) |-> f + i - 1] /\ file' \in Seq(Nat)
    BY <1>1, <1>4, NextBlock DEF IsData
  <2>3. TypeOK'
    <3>1. retired' \in Nat
      BY <1>4, SMT DEF TypeOK
    <3>2. pc' \in SyncSteps \cup {"stream"}
      BY <1>1, <1>4 DEF SyncSteps
    <3> QED BY <1>1, <1>4, <2>1, <2>2, <3>1, <3>2 DEF TypeOK
  <2>4. outcome' # "done" /\ pc' \in {"stream", "finish"}
    BY <1>1, <1>4, <2>1 DEF CallOK
  <2>5. CallOK' /\ FreshStart' /\ NothingToFlush' /\ AnswersInside' /\ AnswersChained'
        /\ CursorBehindLast'
    BY <1>1, <1>4, <2>1, <2>4 DEF CallOK, FreshStart, NothingToFlush, AnswersInside,
       AnswersChained, CursorBehindLast
  <2>6. /\ retired < Requests /\ retired \in Nat /\ Len(replies) \in Nat /\ Requests \in Nat
        /\ retired + 1 \in 1 .. Len(replies)
    BY <1>1, BlockArithmetic, SMT DEF RetiredBlocks, TypeOK
  <2>7. CASE retired < Requests - 1
    <3>1. pc' = "stream" /\ r.len = TransferSize /\ Requests' = Requests
      BY <1>1, <1>4, <2>1, <2>6, <2>7, SMT DEF Requests, Wanted
    <3>2. UploadComplete'
      BY <2>4, <3>1 DEF UploadComplete
    <3>3. retired' < Requests' /\ retired' <= Len(replies') /\ retired' > 0
      BY <1>1, <1>4, <2>6, <2>7, <3>1, SMT
    <3>4. retired' * TransferSize = n + TransferSize
      BY <1>4, <2>6, LoaderAssumption, SMT
    <3>5. file' = [i \in 1 .. Least(retired' * TransferSize, keep) |-> f + i - 1]
      BY <2>2, <3>1, <3>4
    <3>6. ASSUME NEW i \in 1 .. retired'
          PROVE  /\ IsData(replies[i]) /\ replies[i].len = TransferSize
                 /\ replies[i].from = f + (i - 1) * TransferSize
      <4>1. CASE i = retired + 1
        <5>1. i - 1 = retired
          BY <2>6, <4>1, SMT
        <5> QED BY <1>4, <2>2, <3>1, <4>1, <5>1 DEF IsData
      <4>2. CASE i # retired + 1
        <5>1. i \in 1 .. retired /\ retired > 0
          BY <1>4, <2>6, <4>2, SMT
        <5> QED BY <1>1, <5>1 DEF RetiredBlocks
      <4> QED BY <4>1, <4>2
    <3>7. RetiredBlocks'
      BY <1>4, <2>1, <3>1, <3>3, <3>5, <3>6 DEF RetiredBlocks, Least
    <3> QED BY <2>3, <2>5, <3>2, <3>7
  <2>8. CASE ~(retired < Requests - 1)
    <3>1. retired = Requests - 1
      BY <2>6, <2>8, SMT
    <3>2. pc' = "finish" /\ r.len = FinalLength
      BY <1>4, <2>6, <2>8, <3>1, SMT DEF Wanted
    <3>3. size = n + r.len /\ r.len < TransferSize /\ n \in Nat
      BY <2>6, <3>1, <3>2, BlockArithmetic, LoaderAssumption, SMT
    <3>4. r.from + r.len = PartitionSize
      BY <1>4, <2>6, <3>3 DEF AnswersInside, IsData
    <3> HIDE DEF r, f, n
    <3>5. f = PartitionSize - size /\ size <= PartitionSize
      BY <2>2, <3>3, <3>4, LoaderAssumption, SMT
    <3>6. Least(n + r.len, keep) = keep
      BY <2>2, <3>3, SMT DEF Least, CallOK, TypeOK
    <3>7. UploadComplete'
      BY <2>1, <2>2, <3>5, <3>6 DEF UploadComplete
    <3>8. RetiredBlocks'
      BY <3>2 DEF RetiredBlocks
    <3> QED BY <2>3, <2>5, <3>7, <3>8
  <2> QED BY <2>7, <2>8
<1>5. \/ StreamRaises("dfu")
      \/ /\ r.kind = "data" /\ r.len = wanted
         /\ file' = Prefix(file \o [i \in 1 .. r.len |-> r.from + i - 1], keep)
         /\ retired' = retired + 1
         /\ pc' = IF retired + 1 = Requests THEN "finish" ELSE pc
         /\ UNCHANGED <<submitted, replies, error>>
  BY Zenon DEF RetireUpload
<1> QED BY <1>3, <1>4, <1>5

-----------------------------------------------------------------------------
LEMMA StutterInv == ASSUME IInv, UNCHANGED vars PROVE IInv'
<1>1. UNCHANGED <<loader, medium, hot, present, pc, op, size, keep, submitted, replies, retired,
                  file, error, outcome, dirty, faults, attempts>>
  BY DEF vars, loaderVars, callVars, queueVars, endVars
<1>2. Requests' = Requests
  BY <1>1 DEF Requests
<1> QED BY <1>1, <1>2 DEF IInv, TypeOK, CallOK, FreshStart, NothingToFlush, AnswersInside,
           AnswersChained, CursorBehindLast, RetiredBlocks, UploadComplete

LEMMA NextInv == IInv /\ [Next]_vars => IInv'
<1> SUFFICES ASSUME IInv, [Next]_vars PROVE IInv'
  OBVIOUS
<1>1. ASSUME NEW o \in Ops, NEW n \in Sizes, NEW k \in Sizes, Open(o, n, k) PROVE IInv'
  BY <1>1, OpenInv
<1>2. CASE Host
  BY <1>2, CheckInv, RecheckInv, SubmitInv, RetireUploadInv, RetireDownloadInv, DiscardInv,
     CancelEndsInv, FinishUploadInv, ConfirmInv, ControlFailsInv, RetireTimesOutInv, BusyFails
  DEF Host
<1>3. CASE Device
  BY <1>3, RunUploadInv, RunDownloadInv, RunStatusInv, RunWithoutDeviceInv, FlushInv DEF Device
<1>4. CASE StreamFails \/ Interrupted \/ Disconnect \/ Reenter
  BY <1>4, StreamFailsInv, InterruptedInv, DisconnectInv, ReenterInv
<1>5. CASE UNCHANGED vars
  BY <1>5, StutterInv
<1> QED BY <1>1, <1>2, <1>3, <1>4, <1>5 DEF Next

\* What holds of the queue, the cursor and the file at every step of a read
\* (_upload_stream): the invariant the theorems below rest on.
THEOREM InductiveInvariant == Spec => []IInv
<1> QED BY InitInv, NextInv, PTL DEF Spec

\* Type correctness of the helper, the loader's cursors and the queue, for
\* every block size, depth and number of faults (DfuTransfer's TypeOK).
THEOREM DfuTypeOK == Spec => []TypeOK
<1>1. IInv => TypeOK
  BY DEF IInv
<1> QED BY <1>1, InductiveInvariant, PTL

\* _upload_stream, _finish_upload: whatever the loader's cursor was when the
\* stream began, wrapped or stale, an upload of the alternative's true size
\* that reports success saved its leading units.  The last short answer ends
\* at the alternative's end, and each full one before it lies right behind
\* its predecessor, so the first began at unit 0.
THEOREM DfuUploadFaithful == Spec => []UploadFaithful
<1>1. IInv => UploadFaithful
  <2> SUFFICES ASSUME IInv, op = "upload", outcome = "done", size = PartitionSize
               PROVE  file = [i \in 1 .. keep |-> i - 1]
    BY DEF UploadFaithful
  <2>1. file = [i \in 1 .. keep |-> PartitionSize - size + i - 1] /\ PartitionSize \in Nat
    BY LoaderAssumption DEF IInv, UploadComplete
  <2>2. keep \in Nat
    BY DEF IInv, TypeOK
  <2>3. \A i \in 1 .. keep : PartitionSize - size + i - 1 = i - 1
    BY <2>1, <2>2, SMT
  <2> QED BY <2>1, <2>3, Zenon
<1> QED BY <1>1, InductiveInvariant, PTL

-----------------------------------------------------------------------------
(* What a failure leaves behind. *)

\* Nothing is queued between sessions and while a write is confirmed.
NothingQueued ==
  pc \in {"closed", "recheck", "manifest", "poll", "confirm"} => submitted = Len(replies)

\* Pairs of requests, no more than the depth allows and the image needs.
Streaming == op = "download" /\ (pc = "stream" \/ Pending)
PairsOK ==
  Streaming =>
    /\ \E k \in Nat : retired = 2 * k
    /\ retired <= Len(replies)
    /\ submitted <= retired + 2 * Depth /\ submitted <= 2 * Blocks
    /\ \A i \in 1 .. retired : replies[i].kind # "cancelled"

QueueInv == NothingQueued /\ PairsOK

LEMMA Counts ==
  ASSUME IInv
  PROVE  /\ Len(replies) \in Nat /\ submitted \in Nat /\ retired \in Nat /\ size \in Nat
         /\ Len(replies) <= submitted /\ replies \in Seq(Answers)
         /\ Blocks \in Nat /\ Depth \in Nat /\ Depth > 0
         /\ Blocks * TransferSize >= size /\ (Blocks - 1) * TransferSize < size
<1>1. /\ Len(replies) \in Nat /\ submitted \in Nat /\ retired \in Nat /\ size \in Nat
      /\ Len(replies) <= submitted /\ replies \in Seq(Answers)
  BY SMT DEF IInv, TypeOK
<1>2. Depth \in Nat /\ Depth > 0
  BY TransferAssumption, SMT DEF Depth
<1>3. /\ Blocks \in Nat
      /\ Blocks * TransferSize >= size /\ (Blocks - 1) * TransferSize < size
  <2> DEFINE t == TransferSize
             a == size + t - 1
             b == a \div t
  <2>1. t \in Nat /\ t > 0 /\ a \in Nat
    BY <1>1, LoaderAssumption, SMT
  <2> HIDE DEF t, a
  <2>2. b \in Nat /\ b * t <= a /\ a < b * t + t
    BY <2>1, SMT
  <2> HIDE DEF b
  <2>3. (b - 1) * t = b * t - t
    BY <2>1, <2>2, SMT
  <2> DEFINE y == b * t
  <2>4. y \in Nat /\ y <= a /\ a < y + t /\ (b - 1) * t = y - t
    BY <2>1, <2>2, <2>3, SMT
  <2> HIDE DEF y
  <2>5. y >= size /\ (b - 1) * t < size
    BY <1>1, <2>1, <2>4, SMT DEF a
  <2> QED BY <2>2, <2>5 DEF Blocks, a, b, t, y
<1> QED BY <1>1, <1>2, <1>3

\* A step that leaves the queue as it is.
LEMMA SameQueue ==
  ASSUME QueueInv, UNCHANGED <<op, size, submitted, replies, retired>>,
         pc' = "stream" => pc = "stream",
         pc' \in {"closed", "recheck", "manifest", "poll", "confirm"} => submitted = Len(replies)
  PROVE  QueueInv'
<1>1. NothingQueued'
  BY DEF NothingQueued
<1>2. Blocks' = Blocks /\ Depth' = Depth
  BY DEF Blocks, Depth
<1>3. Streaming' => Streaming
  BY DEF Streaming, Pending
<1>4. PairsOK'
  BY <1>2, <1>3 DEF QueueInv, PairsOK
<1> QED BY <1>1, <1>4 DEF QueueInv

LEMMA ClosedQueue ==
  ASSUME IInv, pc' = "closed", submitted' = Len(replies), replies' = replies
  PROVE  QueueInv'
<1>1. ~Streaming'
  BY Counts, SMT DEF Streaming, Pending
<1> QED BY <1>1 DEF QueueInv, NothingQueued, PairsOK

LEMMA RaiseQueue ==
  ASSUME IInv, QueueInv, Raise
  PROVE  QueueInv'
<1>1. CASE pc \in {"manifest", "poll", "confirm"}
  BY <1>1, SameQueue DEF Raise, callVars, queueVars
<1>2. CASE pc \notin {"manifest", "poll", "confirm"}
  BY <1>2, ClosedQueue DEF Raise, Close
<1> QED BY <1>1, <1>2

\* A pair is only begun where both of its requests fit.
LEMMA PairFits ==
  ASSUME NEW s \in Nat, NEW k \in Nat, NEW d \in Nat, NEW b \in Nat,
         s <= 2 * k + 2 * d, s <= 2 * b, s % 2 = 1 \/ (s < 2 * b /\ s - 2 * k < 2 * d)
  PROVE  s + 1 <= 2 * k + 2 * d /\ s + 1 <= 2 * b
BY SMT

LEMMA SubmitQueue == ASSUME IInv, QueueInv, Submit PROVE QueueInv'
<1>1. /\ pc = "stream" /\ submitted' = submitted + 1 /\ CanSubmit
      /\ UNCHANGED <<pc, op, size, replies, retired>>
  BY DEF Submit, callVars
<1>2. NothingQueued'
  BY <1>1 DEF NothingQueued
<1>3. Blocks' = Blocks /\ Depth' = Depth
  BY <1>1 DEF Blocks, Depth
<1>4. ASSUME op = "download" PROVE PairsOK'
  <2>1. Streaming
    BY <1>1, <1>4 DEF Streaming
  <2>2. PICK k \in Nat : retired = 2 * k
    BY <2>1 DEF QueueInv, PairsOK
  <2>3. submitted <= retired + 2 * Depth /\ submitted <= 2 * Blocks /\ retired <= Len(replies)
    BY <2>1 DEF QueueInv, PairsOK
  <2>4. submitted % 2 = 1 \/ (submitted < 2 * Blocks /\ submitted - retired < 2 * Depth)
    BY <1>1, <1>4 DEF CanSubmit
  <2>5. submitted' <= retired + 2 * Depth /\ submitted' <= 2 * Blocks
    BY <1>1, <2>2, <2>3, <2>4, Counts, PairFits
  <2>6. \A i \in 1 .. retired : replies[i].kind # "cancelled"
    BY <2>1 DEF QueueInv, PairsOK
  <2> QED BY <1>1, <1>3, <2>2, <2>3, <2>5, <2>6 DEF PairsOK
<1>5. op # "download" => PairsOK'
  BY <1>1 DEF PairsOK, Streaming
<1> QED BY <1>2, <1>4, <1>5 DEF QueueInv

LEMMA RetireDownloadQueue == ASSUME IInv, QueueInv, RetireDownload PROVE QueueInv'
<1> DEFINE ack == replies[retired + 1]
           r == replies[retired + 2]
<1>1. /\ pc = "stream" /\ op = "download" /\ UNCHANGED <<op, size>>
  BY DEF RetireDownload, callVars
<1>2. CASE StreamRaises("dfu")
  BY <1>1, <1>2, SameQueue DEF StreamRaises
<1>3. CASE /\ ack.kind = "ack" /\ Len(replies) > retired + 1 /\ r.kind = "status"
           /\ retired' = retired + 2
           /\ pc' = IF retired + 2 = 2 * Blocks THEN "manifest" ELSE pc
           /\ UNCHANGED <<submitted, replies, file, error>>
  <2>1. Streaming
    BY <1>1 DEF Streaming
  <2>2. PICK k \in Nat : retired = 2 * k
    BY <2>1 DEF QueueInv, PairsOK
  <2>3. /\ submitted <= retired + 2 * Depth /\ submitted <= 2 * Blocks
        /\ \A i \in 1 .. retired : replies[i].kind # "cancelled"
    BY <2>1 DEF QueueInv, PairsOK
  <2>4. Blocks' = Blocks /\ Depth' = Depth
    BY <1>1 DEF Blocks, Depth
  <2>5. k + 1 \in Nat /\ retired' = 2 * (k + 1) /\ retired' <= Len(replies)
        /\ submitted <= retired' + 2 * Depth
    BY <1>3, <2>2, <2>3, Counts, SMT
  <2>6. \A i \in 1 .. retired' : replies[i].kind # "cancelled"
    <3> SUFFICES ASSUME NEW i \in 1 .. retired' PROVE replies[i].kind # "cancelled"
      OBVIOUS
    <3>1. i \in 1 .. retired \/ i = retired + 1 \/ i = retired + 2
      BY <1>3, Counts, SMT
    <3> QED BY <1>3, <2>3, <3>1
  <2>7. retired + 2 = 2 * Blocks => submitted = Len(replies)
    BY <1>3, <2>3, Counts, SMT
  <2>8. NothingQueued'
    BY <1>1, <1>3, <2>7 DEF NothingQueued
  <2>9. PairsOK'
    BY <1>3, <2>3, <2>4, <2>5, <2>6 DEF PairsOK
  <2> QED BY <2>8, <2>9 DEF QueueInv
<1>4. \/ StreamRaises("dfu")
      \/ /\ ack.kind = "ack" /\ Len(replies) > retired + 1 /\ r.kind = "status"
         /\ retired' = retired + 2
         /\ pc' = IF retired + 2 = 2 * Blocks THEN "manifest" ELSE pc
         /\ UNCHANGED <<submitted, replies, file, error>>
  BY Zenon DEF RetireDownload
<1> QED BY <1>2, <1>3, <1>4

\* One more answer.
LEMMA AnsweredQueue ==
  ASSUME IInv, QueueInv, Pending, NEW a \in Answers, replies' = Append(replies, a),
         UNCHANGED <<pc, op, size, submitted, retired>>
  PROVE  QueueInv'
<1>1. /\ Len(replies') = Len(replies) + 1 /\ Len(replies) < submitted
      /\ \A i \in 1 .. Len(replies) : replies'[i] = replies[i]
  BY Counts, AppendAnswer DEF Pending
<1>2. NothingQueued'
  <2>1. submitted # Len(replies)
    BY <1>1, Counts, SMT
  <2> QED BY <2>1 DEF QueueInv, NothingQueued
<1>3. Blocks' = Blocks /\ Depth' = Depth
  BY DEF Blocks, Depth
<1>4. ASSUME Streaming' PROVE PairsOK'
  <2>1. Streaming
    BY <1>4 DEF Streaming
  <2>2. /\ \E k \in Nat : retired = 2 * k
        /\ retired <= Len(replies)
        /\ submitted <= retired + 2 * Depth /\ submitted <= 2 * Blocks
        /\ \A i \in 1 .. retired : replies[i].kind # "cancelled"
    BY <2>1 DEF QueueInv, PairsOK
  <2>3. retired <= Len(replies') /\ \A i \in 1 .. retired : replies'[i] = replies[i]
    BY <1>1, <2>2, Counts, SMT
  <2>4. \A i \in 1 .. retired : replies'[i].kind # "cancelled"
    BY <2>2, <2>3
  <2> QED BY <1>3, <2>2, <2>3, <2>4 DEF PairsOK
<1>5. ~Streaming' => PairsOK'
  BY DEF PairsOK
<1> QED BY <1>2, <1>4, <1>5 DEF QueueInv

LEMMA RanQueue ==
  ASSUME IInv, QueueInv, RunUpload \/ RunDownload \/ RunStatus \/ RunWithoutDevice
  PROVE  QueueInv' /\ pc # "closed"
<1>1. Pending /\ \E l, m, a : Ran(l, m, a)
  BY Zenon DEF RunUpload, RunDownload, RunStatus, RunWithoutDevice
<1>2. PICK l, m, a : Ran(l, m, a)
  BY <1>1
<1>3. replies' = Append(replies, a) /\ UNCHANGED <<pc, op, size, submitted, retired>>
  BY <1>2 DEF Ran, callVars
<1>4. IInv'
  BY RunUploadInv, RunDownloadInv, RunStatusInv, RunWithoutDeviceInv
<1>5. a \in Answers
  <2>1. replies \in Seq(Answers) /\ replies' \in Seq(Answers)
    BY <1>4 DEF IInv, TypeOK
  <2>2. replies'[Len(replies) + 1] = a /\ Len(replies') = Len(replies) + 1 /\ Len(replies) \in Nat
    BY <1>3, <2>1, SMT
  <2>3. Len(replies) + 1 \in 1 .. Len(replies')
    BY <2>2, SMT
  <2> QED BY <2>1, <2>2, <2>3
<1>6. pc # "closed"
  <2>1. submitted # Len(replies)
    BY <1>1, Counts, SMT DEF Pending
  <2> QED BY <2>1 DEF QueueInv, NothingQueued
<1> QED BY <1>1, <1>3, <1>5, <1>6, AnsweredQueue

LEMMA QueueStep == ASSUME IInv, QueueInv, [Next]_vars PROVE QueueInv'
<1>1. ASSUME NEW o \in Ops, NEW n \in Sizes, NEW k \in Sizes, Open(o, n, k) PROVE QueueInv'
  <2>1. pc' = "check" /\ submitted' = 0 /\ replies' = <<>>
    BY <1>1 DEF Open
  <2>2. ~Streaming'
    BY <2>1, SMT DEF Streaming, Pending
  <2> QED BY <2>1, <2>2 DEF QueueInv, NothingQueued, PairsOK
<1>2. CASE Check
  <2>1. CASE Raise
    BY <2>1, RaiseQueue
  <2>2. CASE pc = "check" /\ CanControl /\ Continue("recheck")
    BY <2>2, SameQueue DEF CanControl, Continue, callVars, queueVars
  <2> QED BY <1>2, <2>1, <2>2 DEF Check
<1>3. CASE Recheck
  <2>1. CASE Raise \/ Close("failed", FALSE)
    BY <2>1, RaiseQueue, ClosedQueue DEF Close
  <2>2. CASE pc = "recheck" /\ error = "none" /\ Continue("stream")
    <3>1. pc' = "stream" /\ UNCHANGED <<op, size, submitted, replies, retired>>
      BY <2>2 DEF Continue, callVars, queueVars
    <3>2. submitted = 0 /\ replies = <<>> /\ retired = 0
      BY <2>2 DEF IInv, FreshStart
    <3>3. Blocks' = Blocks /\ Depth' = Depth
      BY <3>1 DEF Blocks, Depth
    <3>4. 0 = 2 * 0 /\ 0 <= 0 + 2 * Depth /\ 0 <= 2 * Blocks /\ Len(replies) = 0
      BY <3>2, Counts, SMT
    <3>5. \A i \in 1 .. 0 : replies[i].kind # "cancelled"
      BY SMT
    <3>6. PairsOK'
      BY <3>1, <3>2, <3>3, <3>4, <3>5 DEF PairsOK
    <3> QED BY <3>1, <3>6 DEF QueueInv, NothingQueued
  <2> QED BY <1>3, <2>1, <2>2 DEF Recheck
<1>4. CASE Submit \/ RetireDownload
  BY <1>4, SubmitQueue, RetireDownloadQueue
<1>5. CASE RetireUpload
  <2>1. /\ op = "upload" /\ pc = "stream" /\ UNCHANGED <<op, size>>
        /\ pc' \in {"stream", "finish", "cancel"}
    BY <1>5, Zenon DEF RetireUpload, StreamRaises, callVars
  <2> QED BY <2>1 DEF QueueInv, NothingQueued, PairsOK, Streaming
<1>6. CASE StreamFails \/ RetireTimesOut
  BY <1>6, SameQueue DEF StreamFails, RetireTimesOut, StreamRaises, callVars
<1>7. CASE Discard
  BY <1>7, AnsweredQueue, AnswerFacts DEF Discard, callVars, Pending
<1>8. CASE CancelEnds
  <2>1. CASE Close("interrupted", FALSE)
    BY <2>1, ClosedQueue DEF Close
  <2>2. CASE Continue("check")
    BY <2>2, SameQueue DEF Continue, callVars, queueVars
  <2> QED BY <1>8, <2>1, <2>2 DEF CancelEnds
<1>9. CASE FinishUpload \/ Manifest \/ PollManifest \/ ConfirmFlush
  <2>1. CASE Raise \/ Close("done", FALSE)
    BY <2>1, RaiseQueue, ClosedQueue DEF Close
  <2>2. CASE CanControl /\ (Continue("poll") \/ Continue("confirm"))
    BY <2>2, SameQueue DEF CanControl, Continue, callVars, queueVars
  <2> QED BY <1>9, <2>1, <2>2 DEF FinishUpload, Manifest, PollManifest, ConfirmFlush, ConfirmNext
<1>10. CASE ControlFails
  BY <1>10, RaiseQueue DEF ControlFails
<1>11. CASE Interrupted
  BY <1>11, ClosedQueue DEF Interrupted, Close
<1>12. CASE RunUpload \/ RunDownload \/ RunStatus \/ RunWithoutDevice
  BY <1>12, RanQueue
<1>13. CASE Flush \/ Disconnect \/ Reenter \/ UNCHANGED vars
  BY <1>13, SameQueue DEF QueueInv, NothingQueued, Flush, Disconnect, Reenter, vars, callVars, queueVars
<1> QED BY <1>1, <1>2, <1>3, <1>4, <1>5, <1>6, <1>7, <1>8, <1>9, <1>10, <1>11, <1>12, <1>13,
        BusyFails DEF Next, Host, Device

-----------------------------------------------------------------------------
\* A closed session changes nothing but what is still to be flushed.
LEMMA CleanStep ==
  ASSUME IInv, QueueInv, CleanFailure, [Next]_vars
  PROVE  CleanFailure'
<1> SUFFICES ASSUME outcome' = "failed", error' = "dfu", ~dirty', pc' = "closed"
             PROVE  IdleGood(loader') /\ ~loader'.flushing
  BY DEF CleanFailure, IdleGood
<1>1. CASE pc # "closed"
  <2>1. CASE Recheck
    <3>1. CASE Raise
      BY <2>1, <3>1 DEF Recheck, Raise, Close, RecoveryNote
    <3>2. CASE ~Raise
      <4>1. pc = "recheck" /\ CanControl /\ loader' = StatusPolled(loader) /\ IdleGood(loader')
        BY <2>1, <3>2 DEF Recheck
      <4>2. loader \in Loader /\ loader.state \in {"idle", "error"} /\ ~loader.flushing
        BY <4>1 DEF IInv, TypeOK, NothingToFlush, CanControl
      <4> QED BY <4>1, <4>2, PolledType
    <3> QED BY <3>1, <3>2
  <2>2. CASE Raise /\ pc \in SyncSteps
    BY <1>1, <2>2 DEF Raise, Close, RecoveryNote
  <2>3. ~(\E o \in {"done", "interrupted"} : Close(o, FALSE))
    BY DEF Close
  <2>4. CASE pc' = pc \/ pc' # "closed"
    BY <1>1, <2>4
  <2> QED
    BY <1>1, <2>1, <2>2, <2>3, <2>4, BusyFails
    DEF Next, Host, Device, Open, Check, Submit, RetireUpload, RetireDownload, Discard, CancelEnds,
        FinishUpload, Manifest, PollManifest, ConfirmFlush, ConfirmNext, ControlFails, StreamFails,
        RetireTimesOut, StreamRaises, Interrupted, RunUpload, RunDownload, RunStatus, RunWithoutDevice, Ran, Flush,
        Disconnect, Reenter, Continue, vars, SyncSteps
<1>2. CASE pc = "closed"
  <2>1. ~(RunUpload \/ RunDownload \/ RunStatus \/ RunWithoutDevice)
    BY <1>2, RanQueue
  <2>2. CASE Disconnect \/ Reenter
    BY <2>2, FreshType DEF Disconnect, Reenter, FreshLoader, IdleGood
  <2>3. CASE UNCHANGED vars
    BY <1>2, <2>3 DEF vars, loaderVars, endVars, CleanFailure
  <2>4. CASE Flush
    BY <1>2, <2>4 DEF Flush, endVars, CleanFailure
  <2> QED
    BY <1>2, <2>1, <2>2, <2>3, <2>4, BusyFails
    DEF Next, Host, Device, Open, Check, Recheck, Submit, RetireUpload, RetireDownload, Discard,
        CancelEnds, FinishUpload, Manifest, PollManifest, ConfirmFlush, ControlFails, StreamFails,
        RetireTimesOut, Interrupted, SyncSteps
<1> QED BY <1>1, <1>2

LEMMA QueueInvariant == Spec => [](IInv /\ QueueInv)
<1>1. Init => QueueInv
  <2> SUFFICES ASSUME Init PROVE QueueInv
    OBVIOUS
  <2>1. pc = "closed" /\ submitted = 0 /\ replies = <<>> /\ op = "upload"
    BY DEF Init
  <2> QED BY <2>1, SMT DEF QueueInv, NothingQueued, PairsOK, Streaming
<1> QED BY <1>1, InitInv, NextInv, QueueStep, PTL DEF Spec

\* _recovery_note: a failure reported without a cleanup failure left the
\* interface idle, without an error status and with nothing to run; what may
\* still come when the helper has closed changes none of it.
THEOREM DfuCleanFailure == Spec => []CleanFailure
<1>1. Init => CleanFailure
  BY DEF Init, CleanFailure
<1> QED BY <1>1, QueueInvariant, CleanStep, PTL DEF Spec

-----------------------------------------------------------------------------
(* What the loader holds of the image that is being written. *)

\* Up to unit end: stored below the place, buffered from there on.
Holds(place, buffer, m, end) ==
  /\ place + Len(buffer) = end
  /\ \A i \in 1 .. Len(buffer) : buffer[i] = Unit(place + i - 1)
  /\ \A u \in 0 .. place - 1 : m[u] = Unit(u)

\* Units in the first b blocks.
Sent(b) == Least(b * TransferSize, size)

LEMMA ChunkFacts ==
  ASSUME IInv, NEW b \in Nat, b < Blocks
  PROVE  /\ Chunk(b) \in Seq(Int) /\ Sent(b) = b * TransferSize /\ Sent(b) \in Nat
         /\ Len(Chunk(b)) = Sent(b + 1) - Sent(b) /\ Sent(b + 1) \in Nat
         /\ \A i \in 1 .. Len(Chunk(b)) : Chunk(b)[i] = Unit(Sent(b) + i - 1)
<1> DEFINE t == TransferSize
           from == b * t
           len == IF size - from < t THEN size - from ELSE t
<1>1. t \in Nat /\ t > 0 /\ size \in Nat /\ Blocks \in Nat /\ from \in Nat
  BY LoaderAssumption, Counts, SMT
<1>2. from < size
  <2> DEFINE k == Blocks - 1 - b
  <2>1. k \in Nat /\ Blocks - 1 = b + k
    BY <1>1, SMT
  <2> HIDE DEF k
  <2>2. (b + k) * t = from + k * t /\ k * t \in Nat
    BY <1>1, <2>1, SMT
  <2> DEFINE z == k * t
  <2>3. (Blocks - 1) * t = from + z /\ z \in Nat
    BY <2>1, <2>2
  <2> HIDE DEF z, from
  <2>4. (Blocks - 1) * t < size
    BY Counts
  <2>5. from + z < size
    BY <2>3, <2>4
  <2> QED BY <1>1, <2>3, <2>5, SMT
<1>3. (b + 1) * t = from + t
  BY <1>1, SMT
<1> HIDE DEF t, from
<1>4. len \in Nat /\ len = Least(from + t, size) - from /\ Least(from, size) = from
      /\ Least(from + t, size) \in Nat
  BY <1>1, <1>2, SMT DEF Least
<1>5. Sent(b) = from /\ Sent(b + 1) = Least(from + t, size)
  BY <1>3, <1>4 DEF Sent, from, t
<1>6. Chunk(b) = [i \in 1 .. len |-> Unit(from + i - 1)]
  BY DEF Chunk, from, t
<1>7. Chunk(b) \in Seq(Int)
  BY ChunkType DEF IInv
<1> HIDE DEF len
<1>8. DOMAIN Chunk(b) = 1 .. len
  BY <1>6
<1>9. Len(Chunk(b)) = len
  BY <1>4, <1>7, <1>8, SMT
<1>10. \A i \in 1 .. Len(Chunk(b)) : Chunk(b)[i] = Unit(Sent(b) + i - 1)
  BY <1>5, <1>6, <1>9
<1> QED BY <1>1, <1>4, <1>5, <1>7, <1>9, <1>10 DEF from, t

LEMMA JoinedBlocks ==
  ASSUME NEW s \in Seq(Int), NEW b \in Seq(Int)
  PROVE  /\ s \o b \in Seq(Int) /\ Len(s \o b) = Len(s) + Len(b)
         /\ Len(s) \in Nat /\ Len(b) \in Nat
         /\ \A i \in 1 .. Len(s \o b) :
              (s \o b)[i] = IF i <= Len(s) THEN s[i] ELSE b[i - Len(s)]
BY SMT

\* A block that is taken in behind the others continues the image.
LEMMA BlockHolds ==
  ASSUME IInv, NEW b \in Nat, b < Blocks,
         NEW place \in Nat, NEW buffer \in Seq(Int), NEW m \in Medium,
         Holds(place, buffer, m, Sent(b)),
         NEW q, q = buffer \o Chunk(b)
  PROVE  /\ Holds(place, q, m, Sent(b + 1))
         /\ place + Len(q) <= PartitionSize =>
              Holds(place + Len(q), <<>>,
                    [u \in Units |-> IF u >= place /\ u < place + Len(q)
                                     THEN q[u - place + 1] ELSE m[u]], Sent(b + 1))
<1> DEFINE c == Chunk(b)
<1>1. /\ c \in Seq(Int) /\ Sent(b) \in Nat /\ Sent(b + 1) \in Nat
      /\ Len(c) = Sent(b + 1) - Sent(b)
      /\ \A i \in 1 .. Len(c) : c[i] = Unit(Sent(b) + i - 1)
  BY ChunkFacts
<1>2. q = buffer \o c
  OBVIOUS
<1> HIDE DEF c
<1>3. /\ q \in Seq(Int) /\ Len(q) = Len(buffer) + Len(c) /\ Len(buffer) \in Nat /\ Len(c) \in Nat
      /\ \A i \in 1 .. Len(q) : q[i] = IF i <= Len(buffer) THEN buffer[i] ELSE c[i - Len(buffer)]
  <2>1. /\ buffer \o c \in Seq(Int) /\ Len(buffer \o c) = Len(buffer) + Len(c)
        /\ Len(buffer) \in Nat /\ Len(c) \in Nat
        /\ \A i \in 1 .. Len(buffer \o c) :
             (buffer \o c)[i] = IF i <= Len(buffer) THEN buffer[i] ELSE c[i - Len(buffer)]
    BY <1>1, JoinedBlocks
  <2> QED BY <1>2, <2>1
<1>4. /\ place + Len(buffer) = Sent(b)
      /\ \A i \in 1 .. Len(buffer) : buffer[i] = Unit(place + i - 1)
      /\ \A u \in 0 .. place - 1 : m[u] = Unit(u)
  BY DEF Holds
<1>5. /\ place + Len(q) = Sent(b + 1) /\ Len(q) \in Nat
      /\ \A i \in 1 .. Len(q) : i <= Len(buffer) => i \in 1 .. Len(buffer)
      /\ \A i \in 1 .. Len(q) : ~(i <= Len(buffer)) =>
           i - Len(buffer) \in 1 .. Len(c) /\ Sent(b) + (i - Len(buffer)) - 1 = place + i - 1
  <2> DEFINE lb == Len(buffer)
             lc == Len(c)
             lq == Len(q)
             sb == Sent(b)
             sn == Sent(b + 1)
  <2>1. /\ lb \in Nat /\ lc \in Nat /\ lq = lb + lc
        /\ place + lb = sb /\ lc = sn - sb /\ sb \in Nat /\ sn \in Nat
    BY <1>1, <1>3, <1>4
  <2> HIDE DEF lb, lc, lq, sb, sn
  <2>2. place + lq = sn /\ lq \in Nat
    BY <2>1, SMT
  <2>3. ASSUME NEW i \in 1 .. lq, i <= lb PROVE i \in 1 .. lb
    BY <2>1, <2>2, <2>3, SMT
  <2>4. ASSUME NEW i \in 1 .. lq, ~(i <= lb)
        PROVE  i - lb \in 1 .. lc /\ sb + (i - lb) - 1 = place + i - 1
    BY <2>1, <2>2, <2>4, SMT
  <2> QED BY <2>2, <2>3, <2>4 DEF lb, lc, lq, sb, sn
<1>6. place + Len(q) = Sent(b + 1)
  BY <1>5
<1>7. \A i \in 1 .. Len(q) : q[i] = Unit(place + i - 1)
  <2> SUFFICES ASSUME NEW i \in 1 .. Len(q) PROVE q[i] = Unit(place + i - 1)
    OBVIOUS
  <2>1. CASE i <= Len(buffer)
    <3>1. i \in 1 .. Len(buffer)
      BY <1>5, <2>1, Zenon
    <3> QED BY <1>3, <1>4, <2>1, <3>1
  <2>2. CASE ~(i <= Len(buffer))
    <3>1. i - Len(buffer) \in 1 .. Len(c) /\ Sent(b) + (i - Len(buffer)) - 1 = place + i - 1
      BY <1>5, <2>2, Zenon
    <3> QED BY <1>1, <1>3, <2>2, <3>1
  <2> QED BY <2>1, <2>2
<1>8. Holds(place, q, m, Sent(b + 1))
  BY <1>4, <1>6, <1>7 DEF Holds
<1>9. ASSUME place + Len(q) <= PartitionSize,
             NEW n, n = [u \in Units |-> IF u >= place /\ u < place + Len(q)
                                         THEN q[u - place + 1] ELSE m[u]]
      PROVE  Holds(place + Len(q), <<>>, n, Sent(b + 1))
  <2>1. Len(<<>>) = 0 /\ place + Len(q) + 0 = Sent(b + 1)
    BY <1>5, SMT
  <2>2. ASSUME NEW u \in 0 .. (place + Len(q)) - 1 PROVE n[u] = Unit(u)
    <3>1. u \in Units /\ u \in Nat
      BY <1>3, <1>9, LoaderAssumption, SMT DEF Units
    <3>2. CASE u >= place
      <4>1. u - place + 1 \in 1 .. Len(q) /\ place + (u - place + 1) - 1 = u /\ u < place + Len(q)
        BY <1>3, <3>1, <3>2, SMT
      <4>2. n[u] = q[u - place + 1]
        BY <1>9, <3>1, <3>2, <4>1
      <4> QED BY <1>7, <4>1, <4>2
    <3>3. CASE ~(u >= place)
      <4>1. u \in 0 .. place - 1
        BY <3>1, <3>3, SMT
      <4>2. n[u] = m[u]
        BY <1>9, <3>1, <3>3
      <4> QED BY <1>4, <4>1, <4>2
    <3> QED BY <3>2, <3>3
  <2>3. \A i \in 1 .. 0 : <<>>[i] = Unit((place + Len(q)) + i - 1)
    BY SMT
  <2> QED BY <2>1, <2>2, <2>3 DEF Holds
<1> QED BY <1>8, <1>9

-----------------------------------------------------------------------------
(* The write that is streaming. *)

\* The loader took in the first b blocks, and nothing else.
Behind(b) ==
  /\ loader.writeOpen /\ loader.expected = b % BlockWrap
  /\ Holds(loader.offset, loader.pending, medium, Sent(b))

\* Before the first block, the cursor is closed or will refuse it.
AtStart ==
  Len(replies) = 0 /\ loader.state = "idle" /\ (loader.writeOpen => loader.expected # 0)

Sending ==
  op = "download" /\
    (pc = "stream" \/ (Pending /\ \A i \in 1 .. Len(replies) : replies[i].kind # "cancelled"))

StreamOK ==
  Sending /\ present =>
    /\ ~loader.flushing
    /\ \/ loader.state = "error"
       \/ AtStart
       \/ \E b \in Nat : Len(replies) = 2 * b + 1 /\ loader.state = "dnload_sync" /\ Behind(b + 1)
       \/ \E b \in Nat : Len(replies) = 2 * b + 2 /\ loader.state = "dnload_idle" /\ Behind(b + 1)

\* The status that was answered last is still the loader's.
LastAnswer ==
  op = "download" /\ pc = "stream" /\ present /\ (\E b \in Nat : Len(replies) = 2 * b + 2) =>
    replies[Len(replies)].state = loader.state

\* Without the queue patch no request is queued behind a status request.
NotHot == ~QueueLoader => ~hot

WriteInv == NotHot /\ StreamOK /\ LastAnswer

LEMMA ModNext ==
  ASSUME NEW b \in Nat, NEW w \in Nat, w > 1
  PROVE  ((b % w) + 1) % w = (b + 1) % w
<1> DEFINE q == b \div w
           e == b % w
<1>1. q \in Nat /\ e \in Nat /\ e < w /\ b = q * w + e
  BY SMT
<1> HIDE DEF q, e
<1>2. CASE e + 1 < w
  <2>1. b + 1 = q * w + (e + 1)
    BY <1>1, SMT
  <2>2. (b + 1) % w = e + 1
    BY <1>1, <1>2, <2>1, SMT
  <2>3. (e + 1) % w = e + 1
    BY <1>1, <1>2, SMT
  <2> QED BY <2>2, <2>3 DEF e
<1>3. CASE e + 1 = w
  <2>1. b + 1 = (q + 1) * w
    BY <1>1, <1>3, SMT
  <2>2. (b + 1) % w = 0
    BY <1>1, <2>1, SMT
  <2>3. (e + 1) % w = 0
    BY <1>1, <1>3, SMT
  <2> QED BY <2>2, <2>3 DEF e
<1> QED BY <1>1, <1>2, <1>3, SMT

\* No write is streaming where nothing is queued.
LEMMA NotSendingNext ==
  ASSUME pc' # "stream", submitted' = Len(replies'), Len(replies') \in Nat
  PROVE  ~Sending'
<1>1. ~Pending'
  BY SMT DEF Pending
<1> QED BY <1>1 DEF Sending

\* A step that leaves loader, medium and answers as they are.
LEMMA SameStream ==
  ASSUME WriteInv, UNCHANGED <<loader, medium, replies, op, size, attempts>>,
         present' => present, Sending' => Sending, pc' = "stream" => pc = "stream",
         hot' => hot
  PROVE  WriteInv'
BY DEF WriteInv, NotHot, StreamOK, LastAnswer, AtStart, Behind, Holds, Sent, Unit

\* Nothing is sent any more, or the device is gone.
LEMMA NoStream ==
  ASSUME NotHot, ~Sending' \/ ~present', pc' # "stream" \/ ~present', hot' => hot
  PROVE  WriteInv'
BY DEF WriteInv, NotHot, StreamOK, LastAnswer

\* A block of the write that is streaming is refused, or continues the image;
\* what it makes the loader write out lies before the new place.
LEMMA NextBlockStored ==
  ASSUME IInv, QueueInv, WriteInv, RunDownload, Sending
  PROVE  /\ ~loader'.flushing
         /\ \/ loader'.state = "error" /\ medium' = medium
            \/ /\ \E b \in Nat : Len(replies') = 2 * b + 1 /\ Behind(b + 1)'
               /\ loader'.state = "dnload_sync"
               /\ \A u \in Units : u < loader'.offset \/ medium'[u] = medium[u]
<1>1. /\ Pending /\ op = "download" /\ Len(replies) % 2 = 0 /\ present /\ hot' = FALSE
      /\ ~loader.flushing
  BY DEF RunDownload
<1>2. PICK b \in Nat : Len(replies) = 2 * b /\ Len(replies) \div 2 = b
  <2>1. Len(replies) \in Nat
    BY Counts
  <2>2. Len(replies) \div 2 \in Nat /\ Len(replies) = 2 * (Len(replies) \div 2)
    BY <1>1, <2>1, SMT
  <2> QED BY <2>2
<1>3. PICK fails \in BOOLEAN, stale \in BOOLEAN :
        LET units == IF stale THEN [i \in 1 .. Len(Chunk(b)) |-> Junk] ELSE Chunk(b)
            r == Downloaded(loader, medium, b, units, fails)
        IN  (stale => hot /\ ~QueueLoader) /\ Ran(r.loader, r.medium, r.answer)
  BY <1>2, Zenon DEF RunDownload
<1>4. ~stale
  BY <1>3 DEF WriteInv, NotHot
<1> DEFINE r == Downloaded(loader, medium, b, Chunk(b), fails)
<1>5. Ran(r.loader, r.medium, r.answer)
  BY <1>3, <1>4
<1>6. loader \in Loader /\ medium \in Medium
  BY DEF IInv, TypeOK
<1>7. b < Blocks
  <2>1. Streaming
    BY <1>1 DEF Streaming
  <2>2. submitted <= 2 * Blocks
    BY <2>1 DEF QueueInv, PairsOK
  <2> QED BY <1>1, <1>2, <2>2, Counts, SMT DEF Pending
<1>8. Chunk(b) \in Seq(Int)
  BY <1>7, ChunkFacts
<1>9. \/ Refused(loader, r.loader) /\ r.medium = medium
      \/ r.answer = Ack /\ TakenIn(loader, b, Chunk(b), r.loader, medium, r.medium)
  BY <1>6, <1>8, DownloadedFacts
<1> HIDE DEF r
<1>10. /\ loader' = r.loader /\ medium' = r.medium /\ replies' = Append(replies, r.answer)
       /\ UNCHANGED <<present, pc, op, size, submitted, attempts>>
  BY <1>5 DEF Ran, callVars
<1>11. Len(replies') = 2 * b + 1
  BY <1>2, <1>10, Counts, SMT
<1>12. CASE Refused(loader, r.loader) /\ r.medium = medium
  BY <1>1, <1>10, <1>12 DEF Refused
<1>13. CASE TakenIn(loader, b, Chunk(b), r.loader, medium, r.medium)
  <2>1. /\ loader.state \in {"idle", "dnload_idle"} /\ b % BlockWrap = CursorAt(loader)
        /\ r.loader.state = "dnload_sync" /\ r.loader.writeOpen
        /\ r.loader.flushing = loader.flushing
        /\ r.loader.expected = (CursorAt(loader) + 1) % BlockWrap
    BY <1>13 DEF TakenIn
  <2>2. r.loader.expected = (b + 1) % BlockWrap
    BY <2>1, ModNext, LoaderAssumption, SMT
  <2>3. \/ AtStart
        \/ \E c \in Nat : Len(replies) = 2 * c + 2 /\ Behind(c + 1)
    BY <1>1, <2>1 DEF WriteInv, StreamOK
  <2>4. PlaceAt(loader) \in Nat /\ BufferAt(loader) \in Seq(Int)
    <3>1. loader.offset \in Nat /\ loader.pending \in Seq(Int) /\ <<>> \in Seq(Int)
      BY <1>6, LoaderAssumption, SMT DEF Loader
    <3> QED BY <3>1 DEF PlaceAt, BufferAt
  <2>5. Holds(PlaceAt(loader), BufferAt(loader), medium, Sent(b))
    <3>1. CASE AtStart
      <4>1. b = 0
        BY <1>2, <3>1, SMT DEF AtStart
      <4>2. ~loader.writeOpen
        <5>1. 0 % BlockWrap = 0
          BY LoaderAssumption, SMT
        <5> QED BY <2>1, <3>1, <4>1, <5>1 DEF AtStart, CursorAt
      <4>3. PlaceAt(loader) = 0 /\ BufferAt(loader) = <<>>
        BY <4>2 DEF PlaceAt, BufferAt
      <4>4. Sent(b) = 0
        BY <1>7, <4>1, ChunkFacts, LoaderAssumption, SMT
      <4>5. 0 + Len(<<>>) = 0 /\ (\A i \in 1 .. Len(<<>>) : <<>>[i] = Unit(0 + i - 1))
            /\ (\A u \in 0 .. 0 - 1 : medium[u] = Unit(u))
        BY SMT
      <4> QED BY <4>3, <4>4, <4>5 DEF Holds
    <3>2. ASSUME NEW c \in Nat, Len(replies) = 2 * c + 2, Behind(c + 1)
          PROVE  Holds(PlaceAt(loader), BufferAt(loader), medium, Sent(b))
      <4>1. b = c + 1
        BY <1>2, <3>2, SMT
      <4>2. PlaceAt(loader) = loader.offset /\ BufferAt(loader) = loader.pending
        BY <3>2 DEF Behind, PlaceAt, BufferAt
      <4> QED BY <3>2, <4>1, <4>2 DEF Behind
    <3> QED BY <2>3, <3>1, <3>2
  <2> DEFINE place == PlaceAt(loader)
             buffer == BufferAt(loader)
             q == buffer \o Chunk(b)
             n == [u \in Units |-> IF u >= place /\ u < place + Len(q)
                                   THEN q[u - place + 1] ELSE medium[u]]
  <2>6. /\ Holds(place, q, medium, Sent(b + 1))
        /\ place + Len(q) <= PartitionSize => Holds(place + Len(q), <<>>, n, Sent(b + 1))
    <3> HIDE DEF place, buffer
    <3> QED BY <1>6, <1>7, <2>4, <2>5, BlockHolds DEF place, buffer
  <2>7. \/ r.loader.offset = place /\ r.loader.pending = q /\ r.medium = medium
        \/ /\ place + Len(q) <= PartitionSize
           /\ r.loader.offset = place + Len(q) /\ r.loader.pending = <<>>
           /\ r.medium = n
    BY <1>13, Zenon DEF TakenIn
  <2> DEFINE k == Len(q)
  <2>10. \A u \in Units : u < r.loader.offset \/ r.medium[u] = medium[u]
    <3>1. n = [u \in Units |-> IF u >= place /\ u < place + k
                              THEN q[u - place + 1] ELSE medium[u]]
      OBVIOUS
    <3> HIDE DEF place, q, n, k
    <3>2. \A u \in Units : u < place + k \/ n[u] = medium[u]
      BY <3>1
    <3> QED BY <2>7, <3>2 DEF k
  <2> HIDE DEF place, q, n, k
  <2>8. Holds(r.loader.offset, r.loader.pending, r.medium, Sent(b + 1))
    BY <2>6, <2>7
  <2>9. Behind(b + 1)'
    BY <1>10, <2>1, <2>2, <2>8 DEF Behind, Holds, Sent, Unit
  <2> QED BY <1>1, <1>10, <1>11, <2>1, <2>9, <2>10
<1> QED BY <1>9, <1>12, <1>13

LEMMA RunDownloadStream == ASSUME IInv, QueueInv, WriteInv, RunDownload PROVE WriteInv'
<1>1. /\ Pending /\ op = "download" /\ Len(replies) % 2 = 0 /\ present /\ hot' = FALSE
      /\ \E l, m, a : Ran(l, m, a)
  BY Zenon DEF RunDownload
<1>2. PICK a : replies' = Append(replies, a) /\ UNCHANGED <<present, pc, op, submitted>>
  BY <1>1 DEF Ran, callVars
<1>3. /\ replies \in Seq(Answers) /\ Len(replies) \in Nat /\ Len(replies') = Len(replies) + 1
      /\ \A i \in 1 .. Len(replies) : i \in 1 .. Len(replies') /\ replies'[i] = replies[i]
  BY <1>2, Counts, SMT
<1>4. NotHot'
  BY <1>1 DEF NotHot
<1>5. LastAnswer'
  <2>1. \A c \in Nat : Len(replies') # 2 * c + 2
    BY <1>1, <1>3, SMT
  <2> QED BY <2>1 DEF LastAnswer
<1>6. StreamOK'
  <2> SUFFICES ASSUME Sending' PROVE StreamOK'
    BY DEF StreamOK
  <2>1. Sending
    <3>1. CASE pc = "stream"
      BY <1>1, <3>1 DEF Sending
    <3>2. CASE pc # "stream"
      <4>1. \A i \in 1 .. Len(replies') : replies'[i].kind # "cancelled"
        BY <1>2, <3>2 DEF Sending
      <4>2. \A i \in 1 .. Len(replies) : replies[i].kind # "cancelled"
        BY <1>3, <4>1
      <4> QED BY <1>1, <4>2 DEF Sending
    <3> QED BY <3>1, <3>2
  <2> QED BY <2>1, NextBlockStored DEF StreamOK
<1> QED BY <1>4, <1>5, <1>6 DEF WriteInv

LEMMA RunStatusStream == ASSUME IInv, QueueInv, WriteInv, RunStatus PROVE WriteInv'
<1> DEFINE l == StatusPolled(loader)
<1>1. /\ Pending /\ op = "download" /\ Len(replies) % 2 = 1 /\ present /\ ~loader.flushing
      /\ hot' = (submitted > Len(replies) + 1) /\ Ran(l, medium, Status(l))
  BY DEF RunStatus
<1>2. /\ loader' = l /\ medium' = medium /\ replies' = Append(replies, Status(l))
      /\ UNCHANGED <<present, pc, op, size, submitted, attempts>>
  BY <1>1 DEF Ran, callVars
<1>3. loader \in Loader
  BY DEF IInv, TypeOK
<1>4. /\ l \in Loader
      /\ l.offset = loader.offset /\ l.expected = loader.expected /\ l.pending = loader.pending
      /\ l.writeOpen = loader.writeOpen /\ l.flushing = (loader.flushing \/ loader.state = "manifest")
      /\ loader.state \in {"idle", "error"} => l.state = loader.state
      /\ loader.state = "dnload_sync" => l.state = "dnload_idle"
  BY <1>3, PolledType, PolledFacts
<1> HIDE DEF l
<1>5. Status(l).state = l.state /\ Status(l) \in Answers
  BY <1>4, AnswerFacts DEF Status
<1>6. /\ replies \in Seq(Answers) /\ Len(replies) \in Nat /\ Len(replies') = Len(replies) + 1
      /\ replies'[Len(replies')] = Status(l)
      /\ \A i \in 1 .. Len(replies) : i \in 1 .. Len(replies') /\ replies'[i] = replies[i]
  BY <1>2, <1>5, Counts, AppendAnswer, SMT
<1>7. NotHot'
  <2>1. ASSUME ~QueueLoader PROVE ~(submitted > Len(replies) + 1)
    <3>1. Streaming
      BY <1>1 DEF Streaming
    <3>2. PICK k \in Nat : retired = 2 * k
      BY <3>1 DEF QueueInv, PairsOK
    <3>3. retired <= Len(replies) /\ submitted <= retired + 2 * Depth /\ Depth = 1
      BY <2>1, <3>1 DEF QueueInv, PairsOK, Depth
    <3> QED BY <1>1, <3>2, <3>3, Counts, SMT
  <2> QED BY <1>1, <2>1 DEF NotHot
<1>8. LastAnswer'
  BY <1>2, <1>5, <1>6 DEF LastAnswer
<1>9. StreamOK'
  <2> SUFFICES ASSUME Sending'
               PROVE  /\ ~loader'.flushing
                      /\ \/ loader'.state = "error"
                         \/ \E b \in Nat : /\ Len(replies') = 2 * b + 2
                                           /\ loader'.state = "dnload_idle" /\ Behind(b + 1)'
    BY DEF StreamOK
  <2>1. Sending
    <3>1. CASE pc = "stream"
      BY <1>1, <3>1 DEF Sending
    <3>2. CASE pc # "stream"
      <4>1. \A i \in 1 .. Len(replies') : replies'[i].kind # "cancelled"
        BY <1>2, <3>2 DEF Sending
      <4>2. \A i \in 1 .. Len(replies) : replies[i].kind # "cancelled"
        BY <1>6, <4>1
      <4> QED BY <1>1, <4>2 DEF Sending
    <3> QED BY <3>1, <3>2
  <2>2. Len(replies) # 0 /\ \A b \in Nat : Len(replies) # 2 * b + 2
    BY <1>1, <1>6, SMT
  <2>3. \/ loader.state = "error"
        \/ \E b \in Nat : Len(replies) = 2 * b + 1 /\ loader.state = "dnload_sync" /\ Behind(b + 1)
    BY <1>1, <2>1, <2>2 DEF WriteInv, StreamOK, AtStart
  <2>4. ~loader'.flushing
    BY <1>1, <1>2, <1>4, <2>3
  <2>5. ASSUME NEW b \in Nat, Len(replies) = 2 * b + 1, loader.state = "dnload_sync", Behind(b + 1)
        PROVE  /\ Len(replies') = 2 * b + 2
               /\ loader'.state = "dnload_idle" /\ Behind(b + 1)'
    <3>1. Len(replies') = 2 * b + 2
      BY <1>6, <2>5, SMT
    <3>2. Behind(b + 1)'
      BY <1>2, <1>4, <2>5 DEF Behind, Holds, Sent, Unit
    <3> QED BY <1>2, <1>4, <2>5, <3>1, <3>2
  <2> QED BY <1>2, <1>4, <2>3, <2>4, <2>5
<1> QED BY <1>7, <1>8, <1>9 DEF WriteInv

\* Raising an error ends the streaming, if it was not over.
LEMMA RaiseStream ==
  ASSUME IInv, QueueInv, WriteInv, Raise, hot' => hot
  PROVE  WriteInv'
<1>1. pc' # "stream" /\ submitted' = Len(replies') /\ Len(replies') \in Nat
  <2>1. CASE pc \in {"manifest", "poll", "confirm"}
    BY <2>1, Counts DEF Raise, queueVars, QueueInv, NothingQueued
  <2>2. CASE pc \notin {"manifest", "poll", "confirm"}
    BY <2>2, Counts DEF Raise, Close
  <2> QED BY <2>1, <2>2
<1> QED BY <1>1, NotSendingNext, NoStream DEF WriteInv

LEMMA CloseStream ==
  ASSUME IInv, WriteInv, NEW o, NEW note, Close(o, note), hot' => hot
  PROVE  WriteInv'
<1>1. pc' # "stream" /\ submitted' = Len(replies') /\ Len(replies') \in Nat
  BY Counts DEF Close
<1> QED BY <1>1, NotSendingNext, NoStream DEF WriteInv

LEMMA QuietStream ==
  ASSUME IInv, WriteInv, pc' # "stream", hot' => hot, submitted = Len(replies),
         UNCHANGED <<submitted, replies>>
  PROVE  WriteInv'
BY Counts, NotSendingNext, NoStream DEF WriteInv

LEMMA WriteStep ==
  ASSUME IInv, QueueInv, WriteInv, CursorFresh, [Next]_vars
  PROVE  WriteInv'
<1>1. ASSUME NEW o \in Ops, NEW n \in Sizes, NEW k \in Sizes, Open(o, n, k) PROVE WriteInv'
  <2>1. pc' = "check" /\ submitted' = 0 /\ replies' = <<>> /\ hot' = hot
    BY <1>1 DEF Open, loaderVars
  <2>2. Len(replies') = 0 /\ 0 \in Nat
    BY <2>1, SMT
  <2> QED BY <2>1, <2>2, NotSendingNext, NoStream DEF WriteInv
<1>2. CASE Check
  BY <1>2, RaiseStream, QuietStream DEF Check, CanControl, Continue, queueVars
<1>3. CASE Recheck
  <2>1. CASE Raise
    BY <1>3, <2>1, RaiseStream DEF Recheck
  <2>2. CASE Close("failed", FALSE)
    BY <1>3, <2>2, CloseStream DEF Recheck
  <2>3. CASE ~Raise /\ Continue("stream") /\ error = "none"
    <3> DEFINE l == StatusPolled(loader)
    <3>1. /\ pc = "recheck" /\ CanControl /\ loader' = l /\ IdleGood(l)
          /\ UNCHANGED <<medium, hot, present>>
      BY <1>3, <2>3 DEF Recheck
    <3>2. pc' = "stream" /\ UNCHANGED <<op, size, submitted, replies, retired, attempts>>
      BY <2>3 DEF Continue, callVars, queueVars
    <3>3. Len(replies') = 0
      BY <2>3, <3>1, <3>2, SMT DEF IInv, FreshStart
    <3>4. loader \in Loader /\ ~loader.flushing /\ loader.state # "manifest"
      BY <3>1 DEF IInv, TypeOK, NothingToFlush, CanControl
    <3>5. /\ l.expected = loader.expected /\ l.writeOpen = loader.writeOpen /\ ~l.flushing
          /\ l.state = "idle"
      BY <3>1, <3>4, PolledType, PolledFacts DEF IdleGood
    <3>6. StreamOK'
      <4>1. op = "download" => AtStart'
        BY <3>1, <3>3, <3>5 DEF AtStart, CursorFresh
      <4>2. op # "download" => ~Sending'
        BY <3>2 DEF Sending
      <4>3. ~loader'.flushing
        BY <3>1, <3>5
      <4> QED BY <3>2, <4>1, <4>2, <4>3 DEF StreamOK, Sending
    <3>7. LastAnswer'
      <4>1. \A b \in Nat : 0 # 2 * b + 2
        BY SMT
      <4> QED BY <3>3, <4>1 DEF LastAnswer
    <3> QED BY <3>1, <3>6, <3>7 DEF WriteInv, NotHot
  <2> QED BY <1>3, <2>1, <2>2, <2>3 DEF Recheck
<1>4. CASE Submit
  <2>1. /\ pc = "stream" /\ UNCHANGED <<loader, medium, hot, present, replies, pc, op, size, attempts>>
    BY <1>4 DEF Submit, loaderVars, callVars
  <2>2. Sending' => Sending
    BY <2>1 DEF Sending
  <2> QED BY <2>1, <2>2, SameStream
<1>5. CASE RetireUpload \/ RetireDownload \/ StreamFails \/ RetireTimesOut
  <2>1. /\ pc = "stream"
        /\ UNCHANGED <<loader, medium, hot, present, replies, op, size, attempts, submitted>>
    BY <1>5, Zenon DEF RetireUpload, RetireDownload, StreamFails, RetireTimesOut, StreamRaises,
                       loaderVars, callVars
  <2>2. Sending' => Sending
    BY <2>1 DEF Sending
  <2> QED BY <2>1, <2>2, SameStream
<1>6. CASE Discard
  <2>1. pc' = "cancel" /\ replies' = Append(replies, Cancelled) /\ hot' = hot
    BY <1>6 DEF Discard, loaderVars
  <2>2. Len(replies') \in 1 .. Len(replies') /\ replies'[Len(replies')] = Cancelled
    BY <2>1, Counts, AppendAnswer, AnswerFacts, SMT
  <2>3. ~Sending'
    BY <2>1, <2>2 DEF Sending, Cancelled
  <2> QED BY <2>1, <2>3, NoStream DEF WriteInv
<1>7. CASE CancelEnds
  <2>1. CASE Close("interrupted", FALSE)
    BY <1>7, <2>1, CloseStream DEF CancelEnds, loaderVars
  <2>2. CASE Continue("check")
    <3>1. pc' = "check" /\ pc = "cancel"
          /\ UNCHANGED <<loader, medium, hot, present, replies, op, size, attempts, submitted>>
      BY <1>7, <2>2 DEF CancelEnds, Continue, loaderVars, callVars, queueVars
    <3>2. Sending' => Sending
      BY <3>1 DEF Sending, Pending
    <3> QED BY <3>1, <3>2, SameStream
  <2> QED BY <1>7, <2>1, <2>2 DEF CancelEnds
<1>8. CASE FinishUpload \/ Manifest \/ PollManifest \/ ConfirmFlush
  <2>1. CanControl /\ hot' = hot
    BY <1>8 DEF FinishUpload, Manifest, PollManifest, ConfirmFlush
  <2>2. CASE Raise
    BY <2>1, <2>2, RaiseStream
  <2>3. CASE Close("done", FALSE)
    BY <2>1, <2>3, CloseStream
  <2>4. CASE Continue("poll") \/ Continue("confirm")
    BY <2>1, <2>4, QuietStream DEF CanControl, Continue, queueVars
  <2> QED BY <1>8, <2>2, <2>3, <2>4
          DEF FinishUpload, Manifest, PollManifest, ConfirmFlush, ConfirmNext
<1>9. CASE ControlFails
  BY <1>9, RaiseStream DEF ControlFails
<1>10. CASE Interrupted
  BY <1>10, CloseStream DEF Interrupted, loaderVars
<1>11. CASE RunUpload \/ RunWithoutDevice
  <2>1. op = "upload" \/ ~present
    BY <1>11 DEF RunUpload, RunWithoutDevice
  <2>2. UNCHANGED <<op, present, hot>>
    BY <1>11, Zenon DEF RunUpload, RunWithoutDevice, Ran, callVars
  <2>3. CASE op = "upload"
    BY <2>2, <2>3 DEF WriteInv, NotHot, StreamOK, LastAnswer, Sending
  <2>4. CASE ~present
    BY <2>2, <2>4 DEF WriteInv, NotHot, StreamOK, LastAnswer
  <2> QED BY <2>1, <2>3, <2>4
<1>12. CASE RunDownload \/ RunStatus
  BY <1>12, RunDownloadStream, RunStatusStream
<1>13. CASE Flush
  <2>1. /\ present /\ loader.flushing
        /\ UNCHANGED <<hot, present, pc, op, submitted, replies>>
    BY <1>13 DEF Flush, callVars, queueVars
  <2>2. ~Sending
    BY <2>1 DEF WriteInv, StreamOK
  <2>3. ~Sending'
    BY <2>1, <2>2 DEF Sending, Pending
  <2>4. LastAnswer'
    BY <2>1, <2>3 DEF LastAnswer, Sending
  <2> QED BY <2>1, <2>3, <2>4 DEF WriteInv, NotHot, StreamOK
<1>14. CASE Disconnect
  BY <1>14 DEF Disconnect, WriteInv, NotHot, StreamOK, LastAnswer
<1>15. CASE Reenter
  BY <1>15, QuietStream DEF Reenter, queueVars, QueueInv, NothingQueued
<1>16. CASE UNCHANGED vars
  <2>1. UNCHANGED <<loader, medium, hot, present, replies, pc, op, size, attempts, submitted>>
    BY <1>16 DEF vars, loaderVars, callVars, queueVars
  <2> QED BY <2>1, SameStream DEF Sending, Pending
<1> QED BY <1>1, <1>2, <1>3, <1>4, <1>5, <1>6, <1>7, <1>8, <1>9, <1>10, <1>11, <1>12, <1>13,
           <1>14, <1>15, <1>16, BusyFails DEF Next, Host, Device

-----------------------------------------------------------------------------
(* The end of a write. *)

Whole == Holds(loader.offset, loader.pending, medium, size)
AllStored == size <= PartitionSize /\ \A u \in 0 .. size - 1 : medium[u] = Unit(u)

\* The whole image is in the loader when it is told to end, and on the eMMC
\* once the last flush is over.
Confirming ==
  /\ pc = "manifest" /\ present => ~loader.flushing /\ loader.state = "dnload_idle" /\ Whole
  /\ pc = "poll" /\ present =>
       ~loader.flushing /\ loader.state \in {"manifest_sync", "manifest"} /\ Whole
  /\ pc = "confirm" /\ present =>
       /\ loader.state \in {"idle", "error"}
       /\ \/ loader.flushing /\ Whole
          \/ ~loader.flushing /\ (loader.good => AllStored)
  /\ op = "download" /\ outcome = "done" => ~loader.flushing /\ AllStored

\* A step elsewhere, which does not report success.
LEMMA NotConfirming ==
  ASSUME pc' \notin {"manifest", "poll", "confirm"}, op' = "download" => outcome' # "done"
  PROVE  Confirming'
BY DEF Confirming

LEMMA SameConfirming ==
  ASSUME Confirming, UNCHANGED <<loader, medium, pc, op, size, outcome, attempts>>,
         present' => present
  PROVE  Confirming'
BY DEF Confirming, Whole, AllStored, Holds, Unit

\* Confirmed blocks are all there: the last status was the one of the last
\* block, and it says that the loader is ready for more.
LEMMA RetiredAll ==
  ASSUME IInv, QueueInv, WriteInv, RetireDownload, pc' = "manifest", present
  PROVE  ~loader.flushing /\ loader.state = "dnload_idle" /\ Whole
<1>1. /\ pc = "stream" /\ op = "download"
      /\ Len(replies) > retired + 1 /\ replies[retired + 2].state = "dnload_idle"
      /\ retired + 2 = 2 * Blocks
  <2>1. pc = "stream" /\ op = "download" /\ pc' # "cancel" /\ pc' # pc
    BY DEF RetireDownload
  <2> QED BY <2>1, Zenon DEF RetireDownload, StreamRaises
<1>2. submitted <= 2 * Blocks
  <2>1. Streaming
    BY <1>1 DEF Streaming
  <2> QED BY <2>1 DEF QueueInv, PairsOK
<1>3. Len(replies) = 2 * Blocks /\ Blocks - 1 \in Nat /\ 2 * Blocks = 2 * (Blocks - 1) + 2
      /\ retired + 2 = Len(replies)
  BY <1>1, <1>2, Counts, SMT
<1>4. loader.state = "dnload_idle"
  <2>1. \E b \in Nat : Len(replies) = 2 * b + 2
    BY <1>3
  <2>2. replies[Len(replies)].state = loader.state
    BY <1>1, <2>1 DEF WriteInv, LastAnswer
  <2> QED BY <1>1, <1>3, <2>2
<1>5. ~loader.flushing /\ \E b \in Nat : Len(replies) = 2 * b + 2 /\ Behind(b + 1)
  BY <1>1, <1>4 DEF WriteInv, StreamOK, Sending, AtStart
<1>6. PICK b \in Nat : Len(replies) = 2 * b + 2 /\ Behind(b + 1)
  BY <1>5
<1>7. b + 1 = Blocks
  <2>1. Blocks \in Nat /\ 2 * b + 2 = 2 * Blocks
    BY <1>3, <1>6, Counts
  <2> QED BY <2>1, SMT
<1>8. Sent(Blocks) = size
  <2> DEFINE y == Blocks * TransferSize
  <2>1. y >= size /\ y \in Int /\ size \in Nat
    BY Counts, LoaderAssumption, SMT
  <2> HIDE DEF y
  <2>2. Least(y, size) = size
    BY <2>1, SMT DEF Least
  <2> QED BY <2>2 DEF Sent, y
<1> QED BY <1>4, <1>5, <1>6, <1>7, <1>8 DEF Behind, Whole

\* The flush that ends a write puts the image on the eMMC, or fails.
LEMMA FlushConfirming == ASSUME IInv, Confirming, Flush PROVE Confirming'
<1>1. /\ present /\ loader.flushing
      /\ UNCHANGED <<present, pc, op, size, outcome, attempts>>
  BY DEF Flush, callVars, endVars
<1>2. pc \notin {"manifest", "poll"} /\ ~(op = "download" /\ outcome = "done")
  BY <1>1 DEF Confirming
<1>3. CASE pc # "confirm"
  BY <1>1, <1>2, <1>3, NotConfirming
<1>4. CASE pc = "confirm"
  <2>1. loader.state \in {"idle", "error"} /\ Whole
    BY <1>1, <1>4 DEF Confirming
  <2>2. loader \in Loader /\ size \in Nat
    BY DEF IInv, TypeOK
  <2>3. CASE loader' = FlushFailed(loader)
    <3>1. loader'.state = "error" /\ ~loader'.good /\ ~loader'.flushing
      BY <2>2, <2>3, StopFacts
    <3> QED BY <1>1, <1>2, <1>4, <3>1 DEF Confirming
  <2>4. CASE DrainFits(loader) /\ loader' = Flushed(loader) /\ medium' = Stored(loader, medium)
    <3>1. loader'.state = loader.state /\ ~loader'.flushing
      BY <2>2, <2>4, DrainFacts
    <3> DEFINE place == loader.offset
               buffer == loader.pending
    <3>2. /\ place + Len(buffer) = size /\ place + Len(buffer) <= PartitionSize
          /\ \A i \in 1 .. Len(buffer) : buffer[i] = Unit(place + i - 1)
          /\ \A u \in 0 .. place - 1 : medium[u] = Unit(u)
      BY <2>1, <2>4 DEF Whole, Holds, DrainFits
    <3>3. medium' = [u \in Units |-> IF u >= place /\ u < place + Len(buffer)
                                     THEN buffer[u - place + 1] ELSE medium[u]]
      BY <2>4 DEF Stored
    <3>4. place \in Nat /\ Len(buffer) \in Nat
      BY <2>2, LoaderAssumption, SMT DEF Loader
    <3> HIDE DEF place, buffer
    <3>5. ASSUME NEW u \in 0 .. size - 1 PROVE medium'[u] = Unit(u)
      <4>1. u \in Units
        BY <2>2, <3>2, LoaderAssumption, SMT DEF Units
      <4>2. CASE u >= place
        <5>1. u < place + Len(buffer) /\ u - place + 1 \in 1 .. Len(buffer)
              /\ place + (u - place + 1) - 1 = u
          BY <2>2, <3>2, <3>4, <4>2, SMT
        <5>2. buffer[u - place + 1] = Unit(u)
          BY <3>2, <5>1
        <5> QED BY <3>3, <4>1, <4>2, <5>1, <5>2
      <4>3. CASE ~(u >= place)
        <5>1. u \in 0 .. place - 1
          BY <2>2, <3>4, <4>3, SMT
        <5> QED BY <3>2, <3>3, <4>1, <4>3, <5>1
      <4> QED BY <4>2, <4>3
    <3>6. AllStored'
      <4>1. \A u \in 0 .. size - 1 : medium'[u] = Unit(u)
        BY <3>5
      <4>2. size <= PartitionSize
        BY <3>2
      <4> QED BY <1>1, <4>1, <4>2 DEF AllStored, Unit
    <3> QED BY <1>1, <1>2, <1>4, <2>1, <3>1, <3>6 DEF Confirming
  <2> QED BY <2>3, <2>4 DEF Flush
<1> QED BY <1>3, <1>4

LEMMA ConfirmSteps ==
  ASSUME IInv, QueueInv, Confirming, Manifest \/ PollManifest \/ ConfirmFlush
  PROVE  Confirming'
<1> DEFINE l == StatusPolled(loader)
<1>1. /\ CanControl /\ pc \in {"manifest", "poll", "confirm"} /\ present /\ ~loader.flushing
      /\ UNCHANGED <<medium, present, op, size, attempts>>
  BY Zenon DEF Manifest, PollManifest, ConfirmFlush, ConfirmNext, CanControl, Raise, Close,
     Continue, callVars
<1>2. outcome # "done" /\ loader \in Loader
  BY <1>1 DEF IInv, CallOK, TypeOK
<1>3. /\ l.pending = loader.pending /\ l.good = loader.good /\ l.offset = loader.offset
      /\ l.flushing = (loader.flushing \/ loader.state = "manifest")
      /\ l.state = CASE loader.state = "dnload_sync" -> "dnload_idle"
                     [] loader.state = "manifest_sync" -> "manifest"
                     [] loader.state = "manifest" -> "idle"
                     [] OTHER -> loader.state
  BY <1>2, PolledType, PolledFacts
<1> HIDE DEF l
<1>4. CASE Raise
  <2>1. pc' \in {"check", "closed"} /\ outcome' # "done"
    BY <1>1, <1>2, <1>4 DEF Raise, Close
  <2> QED BY <2>1, NotConfirming
<1>5. CASE Manifest /\ ~Raise
  <2>1. /\ pc = "manifest" /\ loader' = Ended(loader) /\ pc' = "poll"
        /\ outcome' = outcome
    BY <1>5 DEF Manifest, Continue, endVars
  <2>2. loader.state = "dnload_idle" /\ Whole
    BY <1>1, <2>1 DEF Confirming
  <2>3. /\ loader'.state = "manifest_sync" /\ loader'.flushing = loader.flushing
        /\ loader'.offset = loader.offset /\ loader'.pending = loader.pending
    BY <1>2, <2>1, <2>2, StopFacts DEF SameCursor
  <2>4. Whole'
    BY <1>1, <2>2, <2>3 DEF Whole, Holds, Unit
  <2> QED BY <1>1, <1>2, <2>1, <2>3, <2>4 DEF Confirming
<1>6. CASE PollManifest /\ ~Raise
  <2>1. /\ pc = "poll" /\ loader' = l /\ outcome' = outcome
        /\ \/ l.good /\ l.state = "idle" /\ pc' = "confirm"
           \/ l.state \in {"manifest_sync", "manifest"} /\ pc' = "poll"
    BY <1>6, Zenon DEF PollManifest, Busy, ConfirmNext, Continue, endVars, l
  <2>2. loader.state \in {"manifest_sync", "manifest"} /\ Whole
    BY <1>1, <2>1 DEF Confirming
  <2>3. Whole'
    BY <1>1, <1>3, <2>1, <2>2 DEF Whole, Holds, Unit
  <2>4. CASE loader.state = "manifest_sync"
    <3>1. l.state = "manifest" /\ ~l.flushing
      BY <1>1, <1>3, <2>4
    <3> QED BY <1>2, <2>1, <2>3, <3>1 DEF Confirming
  <2>5. CASE loader.state = "manifest"
    <3>1. l.state = "idle" /\ l.flushing
      BY <1>3, <2>5
    <3> QED BY <1>2, <2>1, <2>3, <3>1 DEF Confirming
  <2> QED BY <2>2, <2>4, <2>5
<1>7. CASE ConfirmFlush /\ ~Raise
  <2>1. pc = "confirm" /\ loader' = l /\ IdleGood(l) /\ pc' = "closed"
    BY <1>7 DEF ConfirmFlush, Close, l
  <2>2. loader.state \in {"idle", "error"} /\ AllStored
    BY <1>1, <1>3, <2>1 DEF Confirming, IdleGood
  <2>3. ~l.flushing
    BY <1>1, <1>3, <2>2
  <2>4. AllStored'
    BY <1>1, <2>2 DEF AllStored, Unit
  <2> QED BY <2>1, <2>3, <2>4 DEF Confirming
<1> QED BY <1>4, <1>5, <1>6, <1>7

LEMMA ConfirmingStep ==
  ASSUME IInv, QueueInv, WriteInv, Confirming, [Next]_vars
  PROVE  Confirming'
<1>0. outcome = "done" => pc = "closed"
  BY DEF IInv, CallOK
<1>1. CASE pc \notin {"closed", "manifest", "poll", "confirm"}
  <2>1. CASE RetireDownload /\ pc' = "manifest"
    <3>1. UNCHANGED <<loader, medium, present, op, size, outcome, attempts>>
      BY <2>1 DEF RetireDownload, loaderVars, callVars
    <3>2. present => ~loader.flushing /\ loader.state = "dnload_idle" /\ Whole
      BY <2>1, RetiredAll
    <3>3. present' => (~loader.flushing /\ loader.state = "dnload_idle" /\ Whole)'
      BY <3>1, <3>2 DEF Whole, Holds, Unit
    <3> QED BY <1>0, <1>1, <2>1, <3>1, <3>3 DEF Confirming
  <2>2. CASE FinishUpload
    <3>1. op = "upload" /\ op' = op /\ pc' \in {"closed", "check"}
      BY <2>2, Zenon DEF IInv, CallOK, FinishUpload, Raise, Close, callVars
    <3> QED BY <3>1, NotConfirming
  <2>3. CASE ~FinishUpload /\ ~(RetireDownload /\ pc' = "manifest")
    <3>1. outcome' # "done" /\ pc' \notin {"manifest", "poll", "confirm"}
      BY <1>0, <1>1, <2>3, BusyFails, Zenon
      DEF Next, Host, Device, Open, Check, Recheck, Submit, RetireUpload, RetireDownload, Discard,
          CancelEnds, Manifest, PollManifest, ConfirmFlush, ControlFails, StreamFails,
          RetireTimesOut, StreamRaises, Interrupted, RunUpload, RunDownload, RunStatus, RunWithoutDevice, Ran,
          Flush, Disconnect, Reenter, Continue, Raise, Close, vars, endVars, SyncSteps
    <3> QED BY <3>1, NotConfirming
  <2> QED BY <2>1, <2>2, <2>3
<1>2. CASE pc \in {"manifest", "poll", "confirm"}
  <2>1. CASE Manifest \/ PollManifest \/ ConfirmFlush
    BY <2>1, ConfirmSteps
  <2>2. CASE ControlFails \/ Interrupted
    <3>1. pc' \in {"check", "closed"} /\ outcome' # "done"
      BY <1>0, <1>2, <2>2, Zenon DEF ControlFails, Interrupted, Raise, Close
    <3> QED BY <3>1, NotConfirming
  <2>3. CASE Flush
    BY <2>3, FlushConfirming
  <2>4. CASE Disconnect
    BY <1>0, <1>2, <2>4 DEF Disconnect, Confirming, endVars
  <2>5. CASE UNCHANGED vars
    BY <2>5, SameConfirming DEF vars, loaderVars, callVars, endVars
  <2>6. ~(RunUpload \/ RunDownload \/ RunStatus \/ RunWithoutDevice)
    BY <1>2, Counts, SMT DEF RunUpload, RunDownload, RunStatus, RunWithoutDevice, Pending, QueueInv,
       NothingQueued
  <2> QED
    BY <1>2, <2>1, <2>2, <2>3, <2>4, <2>5, <2>6, BusyFails
    DEF Next, Host, Device, Open, Check, Recheck, Submit, RetireUpload, RetireDownload, Discard,
        CancelEnds, FinishUpload, StreamFails, RetireTimesOut, Reenter
<1>3. CASE pc = "closed"
  <2>1. ~(RunUpload \/ RunDownload \/ RunStatus \/ RunWithoutDevice)
    BY <1>3, RanQueue
  <2>2. ASSUME NEW o \in Ops, NEW n \in Sizes, NEW k \in Sizes, Open(o, n, k) PROVE Confirming'
    BY <2>2, NotConfirming DEF Open
  <2>3. CASE Flush
    BY <2>3, FlushConfirming
  <2>4. CASE Disconnect \/ Reenter
    <3>1. /\ pc' = "closed" /\ loader' = FreshLoader
          /\ UNCHANGED <<medium, op, size, outcome, attempts>>
      BY <1>3, <2>4 DEF Disconnect, Reenter, callVars, endVars
    <3> QED BY <3>1, FreshType DEF Confirming, AllStored, Unit
  <2>5. CASE UNCHANGED vars
    BY <2>5, SameConfirming DEF vars, loaderVars, callVars, endVars
  <2> QED
    BY <1>3, <2>1, <2>2, <2>3, <2>4, <2>5, BusyFails
    DEF Next, Host, Device, Check, Recheck, Submit, RetireUpload, RetireDownload, Discard,
        CancelEnds, FinishUpload, Manifest, PollManifest, ConfirmFlush, ControlFails, SyncSteps,
        StreamFails, RetireTimesOut, Interrupted
<1> QED BY <1>1, <1>2, <1>3

LEMMA WriteInvariant == Spec /\ []CursorFresh => [](IInv /\ QueueInv /\ WriteInv /\ Confirming)
<1>1. Init => WriteInv /\ Confirming
  <2> SUFFICES ASSUME Init PROVE WriteInv /\ Confirming
    OBVIOUS
  <2>1. pc = "closed" /\ op = "upload" /\ hot = FALSE
    BY DEF Init
  <2> QED BY <2>1 DEF WriteInv, NotHot, StreamOK, LastAnswer, Sending, Confirming
<1> QED BY <1>1, QueueInvariant, WriteStep, ConfirmingStep, PTL DEF Spec

\* _download_stream: a write that reports success is on the eMMC, the last
\* buffer too, unless the loader's cursor was left at block 0 in the middle
\* of an earlier image.
THEOREM DfuDownloadStored == Spec => DownloadStored
<1>1. Confirming => ImageStored
  BY DEF Confirming, AllStored, ImageStored
<1> QED BY <1>1, WriteInvariant, PTL DEF DownloadStored

-----------------------------------------------------------------------------
(* Transfers that never come to the end of the block numbers.               *)

\* Every transfer asked for has fewer blocks than there are block numbers,
\* and the alternative holds a full block.
Numbered ==
  /\ TransferSize <= PartitionSize
  /\ \A n \in Sizes : n \div TransferSize + 1 < BlockWrap

\* The loader is in the middle of a write.
Writing ==
  \/ loader.state \in {"dnload_sync", "dnload_idle", "manifest_sync", "manifest"}
  \/ loader.flushing

\* Where the one cursor of reads and writes may stand between two requests.
CursorOK ==
  /\ loader.writeOpen => loader.expected # 0
  /\ loader.expected = 0 => loader.offset = 0
  /\ loader.state = "upload_idle" => loader.readOpen
  /\ Writing => loader.writeOpen
  /\ loader.flushing => loader.state \in {"idle", "error"}

\* What is asked for stays below the end of the block numbers.
SizeOK ==
  /\ pc # "closed" => size \in Sizes
  /\ op = "upload" => submitted <= Requests

CursorInv == CursorOK /\ SizeOK

\* Parts of a transfer that has fewer blocks than there are block numbers.
LEMMA BlockCounts ==
  ASSUME IInv, Numbered, size \in Sizes
  PROVE  Requests \in Nat /\ Requests < BlockWrap /\ Blocks < BlockWrap
<1> DEFINE t == TransferSize
           a == size \div t
           b == (size + t - 1) \div t
<1>1. t \in Nat /\ t > 0 /\ size \in Nat /\ BlockWrap \in Nat
  BY LoaderAssumption, Counts, SMT
<1>2. a + 1 < BlockWrap
  BY DEF Numbered
<1> HIDE DEF t
<1>3. a \in Nat /\ size < a * t + t
  BY <1>1, SMT
<1>4. b \in Nat /\ b * t <= size + t - 1
  BY <1>1, SMT
<1>5. b <= a + 1
  <2> SUFFICES ASSUME b > a + 1 PROVE FALSE
    BY <1>3, <1>4, SMT
  <2> DEFINE k == b - a - 2
  <2>1. k \in Nat /\ b = a + 2 + k
    BY <1>3, <1>4, SMT
  <2> HIDE DEF a, b, k
  <2>2. b * t = a * t + 2 * t + k * t /\ k * t >= 0 /\ k * t \in Nat
    BY <1>1, <1>3, <2>1, SMT
  <2> DEFINE y == a * t
             z == k * t
             x == b * t
  <2>3. x = y + 2 * t + z /\ z \in Nat /\ size < y + t /\ x <= size + t - 1 /\ y \in Int
    BY <1>1, <1>3, <1>4, <2>2, SMT
  <2> HIDE DEF x, y, z
  <2> QED BY <1>1, <2>3, SMT
<1> HIDE DEF a, b
<1>6. Requests = a + 1 /\ Blocks = b
  BY DEF Requests, Blocks, a, b, t
<1> QED BY <1>1, <1>2, <1>3, <1>4, <1>5, <1>6, SMT

LEMMA SmallMod == ASSUME NEW a \in Nat, NEW w \in Nat, a < w PROVE a % w = a
BY SMT

\* A step that only moves the loader's state on.
LEMMA SameCursorOK ==
  ASSUME CursorOK, SameCursor(loader, loader'), loader'.writeOpen = loader.writeOpen,
         loader'.state = "upload_idle" => loader.state = "upload_idle", Writing' => Writing,
         loader'.flushing => loader'.state \in {"idle", "error"}
  PROVE  CursorOK'
BY DEF CursorOK, SameCursor

\* A write that fails closes its cursor.
LEMMA FailedCursorOK ==
  ASSUME CursorOK, SameCursor(loader, loader'), ~loader'.writeOpen, loader'.state = "error",
         ~loader'.flushing
  PROVE  CursorOK'
BY DEF CursorOK, SameCursor, Writing

LEMMA PolledCursor ==
  ASSUME IInv, CursorOK, loader' = StatusPolled(loader), ~loader.flushing \/ Writing
  PROVE  CursorOK' /\ (Writing' => Writing)
<1>1. loader \in Loader
  BY DEF IInv, TypeOK
<1>2. /\ SameCursor(loader, loader') /\ loader'.writeOpen = loader.writeOpen
      /\ loader'.flushing = (loader.flushing \/ loader.state = "manifest")
      /\ loader'.state = CASE loader.state = "dnload_sync" -> "dnload_idle"
                           [] loader.state = "manifest_sync" -> "manifest"
                           [] loader.state = "manifest" -> "idle"
                           [] OTHER -> loader.state
      /\ loader.flushing \in BOOLEAN
  BY <1>1, PolledType, PolledFacts DEF SameCursor, Loader
<1>3. CASE loader.state = "dnload_sync"
  <2>1. loader'.state = "dnload_idle" /\ loader'.flushing = loader.flushing
    BY <1>2, <1>3, SMT
  <2> QED BY <1>2, <1>3, <2>1, SameCursorOK DEF Writing, CursorOK
<1>4. CASE loader.state = "manifest_sync"
  <2>1. loader'.state = "manifest" /\ loader'.flushing = loader.flushing
    BY <1>2, <1>4, SMT
  <2> QED BY <1>2, <1>4, <2>1, SameCursorOK DEF Writing, CursorOK
<1>5. CASE loader.state = "manifest"
  <2>1. loader'.state = "idle"
    BY <1>2, <1>5
  <2> QED BY <1>2, <1>5, <2>1, SameCursorOK DEF Writing
<1>6. CASE loader.state \notin {"dnload_sync", "manifest_sync", "manifest"}
  <2>1. loader'.state = loader.state /\ loader'.flushing = loader.flushing
    BY <1>2, <1>6, SMT
  <2> QED BY <1>2, <2>1, SameCursorOK DEF Writing, CursorOK
<1> QED BY <1>3, <1>4, <1>5, <1>6

\* Answer a to request n: a block read where the cursor stands, or none.
ReadBlock(n, a) ==
  /\ a.from \in Nat /\ a.len \in Nat /\ a.len <= TransferSize
  /\ a.len < TransferSize => a.from + a.len = PartitionSize
  /\ a.len = TransferSize => loader'.readOpen
  /\ loader'.offset = a.from + a.len
  /\ \E e \in {0, n} :
       /\ loader'.expected = e + 1
       /\ loader.state = "idle" => e = 0
       /\ IF loader.readOpen THEN e = loader.expected /\ a.from = loader.offset
          ELSE e = 0 /\ a.from = 0

LEMMA UploadOutcome ==
  ASSUME IInv, QueueInv, CursorInv, Numbered, RunUpload
  PROVE  /\ Len(replies) + 1 <= Requests /\ size \in Sizes
         /\ loader'.writeOpen = loader.writeOpen /\ ~loader'.flushing
         /\ loader'.state \in {"idle", "upload_idle", "error"}
         /\ \E a \in Answers :
              /\ replies' = Append(replies, a)
              /\ loader'.state = "upload_idle" =>
                   \/ loader'.readOpen
                   \/ loader.state = "idle" /\ IsData(a) /\ a.len < TransferSize
              /\ IF IsData(a) THEN ReadBlock(Len(replies), a)
                 ELSE /\ loader'.readOpen = loader.readOpen
                      /\ loader'.expected = loader.expected /\ loader'.offset = loader.offset
<1> DEFINE n == Len(replies)
           r == Uploaded(loader, n)
           e == IF loader.readOpen THEN loader.expected ELSE 0
<1>1. /\ Pending /\ ~loader.flushing /\ loader' = r.loader /\ replies' = Append(replies, r.answer)
      /\ op = "upload"
  BY DEF RunUpload, Ran
<1>2. loader \in Loader /\ n \in Nat
  BY Counts DEF IInv, TypeOK
<1>3. n + 1 <= Requests /\ size \in Sizes /\ n + 1 < BlockWrap /\ n < BlockWrap /\ 1 < BlockWrap
  <2>1. pc # "closed"
    BY RanQueue
  <2>2. submitted <= Requests /\ size \in Sizes
    BY <1>1, <2>1 DEF CursorInv, SizeOK
  <2> QED BY <1>1, <2>2, BlockCounts, Counts, LoaderAssumption, SMT DEF Pending
<1>4. /\ r.answer \in Answers /\ r.loader.flushing = loader.flushing
      /\ IsData(r.answer) =>
           /\ r.answer.from \in Nat /\ r.answer.len \in Nat /\ r.answer.len <= TransferSize
           /\ r.answer.len < TransferSize => r.answer.from + r.answer.len = PartitionSize
           /\ r.answer.len = TransferSize => r.loader.readOpen
           /\ loader.readOpen => r.answer.from = loader.offset
           /\ e = IF loader.state = "idle" THEN 0 ELSE n % BlockWrap
           /\ r.loader.expected = (e + 1) % BlockWrap
           /\ ~loader.readOpen => r.answer.from = 0
  BY <1>2, UploadedFacts
<1>5. /\ r.loader.writeOpen = loader.writeOpen
      /\ r.loader.state \in {"idle", "upload_idle", "error"}
      /\ r.loader.state = "upload_idle" =>
           \/ r.loader.readOpen
           \/ loader.state = "idle" /\ IsData(r.answer) /\ r.answer.len < TransferSize
      /\ \/ IsData(r.answer)
         \/ /\ r.loader.readOpen = loader.readOpen /\ r.loader.expected = loader.expected
            /\ r.loader.offset = loader.offset
         \/ loader.state = "upload_idle" /\ ~loader.readOpen
      /\ IsData(r.answer) => r.loader.offset = r.answer.from + r.answer.len
  BY <1>2, UploadedState
<1> HIDE DEF r
<1>6. ASSUME IsData(r.answer) PROVE ReadBlock(n, r.answer)
  <2>1. e = (IF loader.state = "idle" THEN 0 ELSE n % BlockWrap)
    BY <1>4, <1>6
  <2>2. n % BlockWrap = n /\ (n + 1) % BlockWrap = n + 1 /\ (0 + 1) % BlockWrap = 0 + 1
    BY <1>2, <1>3, SmallMod, LoaderAssumption
  <2>3. loader.readOpen => e = loader.expected
    OBVIOUS
  <2>4. ~loader.readOpen => e = 0
    OBVIOUS
  <2> HIDE DEF e, n
  <2>5. e \in {0, n} /\ (loader.state = "idle" => e = 0) /\ r.loader.expected = e + 1
    BY <1>4, <1>6, <2>1, <2>2
  <2> QED BY <1>1, <1>4, <1>5, <1>6, <2>3, <2>4, <2>5 DEF ReadBlock
<1>7. ~(loader.state = "upload_idle" /\ ~loader.readOpen)
  BY DEF CursorInv, CursorOK
<1> HIDE DEF n, e
<1> QED BY <1>1, <1>3, <1>4, <1>5, <1>6, <1>7 DEF n

LEMMA UploadCursor ==
  ASSUME IInv, QueueInv, CursorInv, Numbered, RunUpload
  PROVE  CursorOK'
<1>1. /\ loader'.writeOpen = loader.writeOpen /\ ~Writing' /\ ~loader'.flushing
  BY UploadOutcome DEF Writing
<1>2. PICK a \in Answers :
        /\ loader'.state = "upload_idle" =>
             \/ loader'.readOpen
             \/ loader.state = "idle" /\ IsData(a) /\ a.len < TransferSize
        /\ IF IsData(a) THEN ReadBlock(Len(replies), a)
           ELSE /\ loader'.readOpen = loader.readOpen
                /\ loader'.expected = loader.expected /\ loader'.offset = loader.offset
  BY UploadOutcome
<1>3. CASE IsData(a)
  <2>1. PICK e \in {0, Len(replies)} :
          /\ loader'.expected = e + 1
          /\ loader.state = "idle" => e = 0
          /\ IF loader.readOpen THEN e = loader.expected /\ a.from = loader.offset
             ELSE e = 0 /\ a.from = 0
    BY <1>2, <1>3 DEF ReadBlock
  <2>2. loader'.expected # 0
    BY <2>1, Counts, SMT
  <2>3. ~(loader.state = "idle" /\ a.len < TransferSize)
    <3> SUFFICES ASSUME loader.state = "idle", a.len < TransferSize PROVE FALSE
      OBVIOUS
    <3>1. a.from = 0
      BY <2>1 DEF CursorInv, CursorOK
    <3> QED BY <1>2, <1>3, <3>1, LoaderAssumption, SMT DEF ReadBlock, Numbered
  <2> QED BY <1>1, <1>2, <2>2, <2>3 DEF CursorOK
<1>4. CASE ~IsData(a)
  BY <1>1, <1>2, <1>4 DEF CursorInv, CursorOK
<1> QED BY <1>3, <1>4

\* A block is refused, or taken in where the cursor stands.
LEMMA DownloadOutcome ==
  ASSUME IInv, RunDownload
  PROVE  /\ ~loader.flushing
         /\ \/ Refused(loader, loader') /\ medium' = medium
            \/ \E b \in Nat, units \in Seq(Int) :
                 Len(replies) = 2 * b /\ TakenIn(loader, b, units, loader', medium, medium')
<1>1. Len(replies) % 2 = 0 /\ ~loader.flushing
  BY DEF RunDownload
<1> DEFINE b == Len(replies) \div 2
<1>2. b \in Nat /\ Len(replies) = 2 * b
  BY <1>1, Counts, SMT
<1>3. PICK fails \in BOOLEAN, stale \in BOOLEAN :
        LET units == IF stale THEN [i \in 1 .. Len(Chunk(b)) |-> Junk] ELSE Chunk(b)
            r == Downloaded(loader, medium, b, units, fails)
        IN  Ran(r.loader, r.medium, r.answer)
  BY Zenon DEF RunDownload
<1> DEFINE units == IF stale THEN [i \in 1 .. Len(Chunk(b)) |-> Junk] ELSE Chunk(b)
           r == Downloaded(loader, medium, b, units, fails)
<1>4. loader' = r.loader /\ medium' = r.medium /\ loader \in Loader /\ medium \in Medium
  BY <1>3 DEF Ran, IInv, TypeOK
<1>5. units \in Seq(Int)
  BY <1>2, ChunkType, JunkType DEF IInv
<1> HIDE DEF units
<1>6. \/ Refused(loader, r.loader) /\ r.medium = medium
      \/ TakenIn(loader, b, units, r.loader, medium, r.medium)
  BY <1>2, <1>4, <1>5, DownloadedFacts
<1> HIDE DEF r, b
<1> QED BY <1>1, <1>2, <1>4, <1>5, <1>6

LEMMA DownloadCursor ==
  ASSUME IInv, QueueInv, CursorInv, Numbered, RunDownload
  PROVE  CursorOK'
<1>1. Pending /\ op = "download"
  BY DEF RunDownload
<1>2. CASE Refused(loader, loader')
  <2>1. /\ loader'.state = "error" /\ ~loader'.flushing
        /\ \/ /\ loader'.writeOpen = loader.writeOpen /\ loader'.expected = loader.expected
              /\ loader'.offset = loader.offset
           \/ /\ ~loader'.writeOpen /\ loader'.expected = CursorAt(loader)
              /\ loader'.offset = PlaceAt(loader)
    BY <1>2, DownloadOutcome DEF Refused
  <2>2. CursorAt(loader) = 0 => PlaceAt(loader) = 0
    BY DEF CursorAt, PlaceAt, CursorInv, CursorOK
  <2> QED BY <2>1, <2>2 DEF CursorInv, CursorOK, Writing
<1>3. ASSUME NEW b \in Nat, NEW units \in Seq(Int), Len(replies) = 2 * b,
             TakenIn(loader, b, units, loader', medium, medium')
      PROVE  CursorOK'
  <2>1. /\ b % BlockWrap = CursorAt(loader) /\ loader'.state = "dnload_sync"
        /\ loader'.writeOpen /\ ~loader'.flushing
        /\ loader'.expected = (CursorAt(loader) + 1) % BlockWrap
    BY <1>3, DownloadOutcome DEF TakenIn
  <2>2. b + 1 <= Blocks /\ Blocks < BlockWrap
    <3>1. Streaming /\ pc # "closed"
      BY <1>1, RanQueue DEF Streaming
    <3>2. submitted <= 2 * Blocks /\ size \in Sizes
      BY <3>1 DEF QueueInv, PairsOK, CursorInv, SizeOK
    <3> QED BY <1>1, <1>3, <3>2, BlockCounts, Counts, SMT DEF Pending
  <2>3. b % BlockWrap = b /\ (b + 1) % BlockWrap = b + 1 /\ b + 1 # 0
    <3>1. b + 1 \in Nat /\ b + 1 < BlockWrap /\ b < BlockWrap /\ b + 1 # 0
      BY <2>2, Counts, LoaderAssumption, SMT
    <3> QED BY <3>1, SmallMod, LoaderAssumption
  <2>4. loader'.expected # 0
    BY <2>1, <2>3
  <2> QED BY <2>1, <2>4 DEF CursorOK, Writing
<1> QED BY <1>2, <1>3, DownloadOutcome

\* A new helper keeps to what it was asked for.
LEMMA SizeStep ==
  ASSUME IInv, SizeOK, [Next]_vars
  PROVE  SizeOK'
<1>1. ASSUME NEW o \in Ops, NEW n \in Sizes, NEW k \in Sizes, Open(o, n, k) PROVE SizeOK'
  <2>1. size' = n /\ submitted' = 0
    BY <1>1 DEF Open
  <2>2. 0 <= Requests'
    <3>1. n \in Nat
      BY TransferAssumption
    <3>2. 0 <= n \div TransferSize + 1
      BY <3>1, LoaderAssumption, SMT
    <3> QED BY <2>1, <3>2 DEF Requests
  <2> QED BY <2>1, <2>2 DEF SizeOK
<1>2. CASE Submit
  <2>1. /\ pc = "stream" /\ UNCHANGED <<pc, op, size>> /\ submitted' = submitted + 1
        /\ op = "upload" => submitted < Requests
    BY <1>2 DEF Submit, CanSubmit, callVars
  <2>2. Requests \in Int
    BY Counts, LoaderAssumption, SMT DEF Requests
  <2>3. op = "upload" => submitted + 1 <= Requests
    BY <2>1, <2>2, Counts, SMT
  <2> QED BY <2>1, <2>3 DEF SizeOK, Requests
<1>3. CASE /\ op' = op /\ size' = size /\ (pc' # "closed" => pc # "closed")
           /\ submitted' \in {submitted, Len(replies)}
  <2>1. Requests \in Int
    BY Counts, LoaderAssumption, SMT DEF Requests
  <2>2. op = "upload" => submitted' <= Requests
    BY <1>3, <2>1, Counts, SMT DEF SizeOK
  <2> QED BY <1>3, <2>2 DEF SizeOK, Requests
<1>4. \/ \E o \in Ops, n, k \in Sizes : Open(o, n, k)
      \/ Submit
      \/ /\ op' = op /\ size' = size /\ (pc' # "closed" => pc # "closed")
         /\ submitted' \in {submitted, Len(replies)}
  <2>1. CASE Raise \/ \E o, note : Close(o, note)
    BY <2>1 DEF Raise, Close, callVars, queueVars
  <2>2. CASE \E step : Continue(step) /\ pc # "closed"
    BY <2>2 DEF Continue, callVars, queueVars
  <2>3. CASE RetireUpload \/ RetireDownload \/ StreamFails \/ RetireTimesOut \/ Discard
    BY <2>3, Zenon DEF RetireUpload, RetireDownload, StreamFails, RetireTimesOut, StreamRaises, Discard,
                       callVars
  <2>4. CASE Device
    BY <2>4, Zenon DEF Device, RunUpload, RunDownload, RunStatus, RunWithoutDevice, Ran, Flush,
       callVars, queueVars
  <2>5. CASE Disconnect \/ Reenter \/ UNCHANGED vars
    BY <2>5 DEF Disconnect, Reenter, vars, callVars, queueVars
  <2>6. CASE Check \/ Recheck \/ FinishUpload \/ Manifest \/ PollManifest \/ ConfirmFlush
    BY <2>1, <2>2, <2>6, Zenon DEF Check, Recheck, FinishUpload, Manifest, PollManifest, ConfirmFlush,
                            ConfirmNext
  <2>7. CASE CancelEnds \/ ControlFails \/ Interrupted
    BY <2>1, <2>2, <2>7, Zenon DEF CancelEnds, ControlFails, Interrupted
  <2> QED BY <2>3, <2>4, <2>5, <2>6, <2>7, BusyFails DEF Next, Host
<1> QED BY <1>1, <1>2, <1>3, <1>4

\* A status request flushes nothing but the end of a write.
LEMMA PolledSame ==
  ASSUME NEW l \in Loader
  PROVE  /\ SameCursor(l, StatusPolled(l)) /\ StatusPolled(l).writeOpen = l.writeOpen
         /\ l.state # "manifest" => StatusPolled(l).flushing = l.flushing
         /\ l.state \in {"idle", "manifest"} => StatusPolled(l).state = "idle"
<1>1. /\ SameCursor(l, StatusPolled(l)) /\ StatusPolled(l).writeOpen = l.writeOpen
      /\ StatusPolled(l).flushing = (l.flushing \/ l.state = "manifest")
      /\ StatusPolled(l).state = CASE l.state = "dnload_sync" -> "dnload_idle"
                                   [] l.state = "manifest_sync" -> "manifest"
                                   [] l.state = "manifest" -> "idle"
                                   [] OTHER -> l.state
      /\ l.flushing \in BOOLEAN
  BY PolledType, PolledFacts DEF SameCursor, Loader
<1>2. l.state # "manifest" => StatusPolled(l).flushing = l.flushing
  BY <1>1, SMT
<1>3. l.state \in {"idle", "manifest"} => StatusPolled(l).state = "idle"
  BY <1>1, SMT
<1> QED BY <1>1, <1>2, <1>3

\* _ensure_idle and _finish_upload ask for the status, and may end in idle.
LEMMA EndsIdle ==
  ASSUME IInv, Check \/ FinishUpload
  PROVE  \/ loader' = StatusPolled(loader)
         \/ /\ SameCursor(loader, loader') /\ loader'.writeOpen = loader.writeOpen
            /\ ~loader'.flushing /\ loader'.state = "idle"
<1> DEFINE l == StatusPolled(loader)
           a == Aborted(l)
<1>1. loader \in Loader
  BY DEF IInv, TypeOK
<1>2. /\ l \in Loader /\ SameCursor(loader, l) /\ l.writeOpen = loader.writeOpen
      /\ l.state # "idle" => l.flushing = loader.flushing
  BY <1>1, PolledType, PolledSame
<1> HIDE DEF l
<1>3. l.state \in {"dnload_idle", "upload_idle"} => a.state = "idle"
  BY <1>2, SimpleTypes
<1>4. a \in Loader /\ SameCursor(l, a) /\ a.writeOpen = l.writeOpen /\ a.flushing = l.flushing
  BY <1>2, SimpleTypes, StopFacts
<1>5. /\ SameCursor(a, StatusPolled(a)) /\ StatusPolled(a).writeOpen = a.writeOpen
      /\ a.state = "idle" => StatusPolled(a).flushing = a.flushing /\ StatusPolled(a).state = "idle"
  BY <1>4, PolledSame
<1>6. /\ SameCursor(l, StatusCleared(l)) /\ StatusCleared(l).writeOpen = l.writeOpen
      /\ StatusCleared(l).flushing = l.flushing
      /\ l.state = "error" => StatusCleared(l).state = "idle"
  BY <1>2, SimpleTypes, StopFacts
<1>7. /\ ~loader.flushing
      /\ \/ loader' = l
         \/ l.state \in {"dnload_idle", "upload_idle"} /\ loader' \in {a, StatusPolled(a)}
         \/ l.state = "error" /\ loader' = StatusCleared(l)
  <2>1. CASE Check
    BY <2>1, Zenon DEF Check, CanControl, l, a
  <2>2. CASE FinishUpload
    BY <2>2, Zenon DEF FinishUpload, CanControl, l, a
  <2> QED BY <2>1, <2>2
<1> HIDE DEF a
<1>8. /\ SameCursor(loader, a) /\ SameCursor(loader, StatusPolled(a))
      /\ SameCursor(loader, StatusCleared(l))
  BY <1>2, <1>4, <1>5, <1>6 DEF SameCursor
<1> QED BY <1>2, <1>3, <1>4, <1>5, <1>6, <1>7, <1>8 DEF l

\* The zero-length DFU_DNLOAD.
LEMMA ManifestEnds ==
  ASSUME IInv, Manifest
  PROVE  /\ SameCursor(loader, loader') /\ loader'.writeOpen = loader.writeOpen
         /\ ~loader'.flushing /\ loader'.state \in {"manifest_sync", "error"} /\ (Writing' => Writing)
<1>1. loader \in Loader
  BY DEF IInv, TypeOK
<1>2. /\ SameCursor(loader, loader') /\ loader'.writeOpen = loader.writeOpen /\ ~loader'.flushing
      /\ loader'.state = (IF loader.state = "dnload_idle" THEN "manifest_sync" ELSE "error")
  BY <1>1, StopFacts DEF Manifest, CanControl
<1> QED BY <1>2 DEF Writing

\* What the host's synchronous requests make of the loader.
LEMMA ControlCursor ==
  ASSUME IInv, CursorOK,
         Check \/ Recheck \/ FinishUpload \/ Manifest \/ PollManifest \/ ConfirmFlush \/ ControlFails
  PROVE  CursorOK'
<1>1. CASE loader' = loader
  BY <1>1 DEF CursorOK, Writing
<1>2. CASE loader' = StatusPolled(loader)
  BY <1>2, PolledCursor DEF Writing
<1>3. CASE /\ SameCursor(loader, loader') /\ loader'.writeOpen = loader.writeOpen
           /\ ~loader'.flushing /\ loader'.state = "idle"
  BY <1>3 DEF CursorOK, SameCursor, Writing
<1>4. CASE Manifest
  BY <1>4, ManifestEnds, SameCursorOK
<1>5. CASE Recheck \/ PollManifest \/ ConfirmFlush \/ ControlFails
  BY <1>1, <1>2, <1>5, Zenon DEF Recheck, PollManifest, ConfirmFlush, ControlFails
<1> QED BY <1>2, <1>3, <1>4, <1>5, EndsIdle

\* The steps that touch the loader or the medium.
LEMMA LoaderSteps ==
  ASSUME [Next]_vars
  PROVE  \/ RunUpload \/ RunDownload \/ RunStatus \/ Flush \/ Disconnect \/ Reenter
         \/ Check \/ Recheck \/ FinishUpload \/ Manifest \/ PollManifest \/ ConfirmFlush \/ ControlFails
         \/ loader' = loader /\ medium' = medium
<1>1. CASE \/ Submit \/ RetireUpload \/ RetireDownload \/ StreamFails \/ RetireTimesOut
           \/ Discard \/ CancelEnds
  BY <1>1, Zenon DEF Submit, RetireUpload, RetireDownload, StreamFails, RetireTimesOut, Discard,
                     CancelEnds, loaderVars
<1>2. CASE Interrupted \/ RunWithoutDevice \/ UNCHANGED vars
  BY <1>2, Zenon DEF Interrupted, RunWithoutDevice, Ran, vars, loaderVars
<1>3. ASSUME NEW o \in Ops, NEW n \in Sizes, NEW k \in Sizes, Open(o, n, k)
      PROVE  loader' = loader /\ medium' = medium
  BY <1>3 DEF Open, loaderVars
<1> QED BY <1>1, <1>2, <1>3, BusyFails DEF Next, Host, Device

LEMMA CursorStep ==
  ASSUME IInv, QueueInv, CursorInv, Numbered, [Next]_vars
  PROVE  CursorInv'
<1>1. SizeOK'
  BY SizeStep DEF CursorInv
<1>2. CASE RunUpload \/ RunDownload
  BY <1>1, <1>2, UploadCursor, DownloadCursor DEF CursorInv
<1>3. CASE Check \/ Recheck \/ FinishUpload \/ Manifest \/ PollManifest \/ ConfirmFlush \/ ControlFails
  BY <1>1, <1>3, ControlCursor DEF CursorInv
<1>4. CASE RunStatus
  <2>1. ~loader.flushing /\ loader' = StatusPolled(loader)
    BY <1>4 DEF RunStatus, Ran
  <2> QED BY <1>1, <2>1, PolledCursor DEF CursorInv
<1>5. CASE Flush
  <2>1. loader \in Loader /\ loader.flushing /\ loader.state \in {"idle", "error"}
        /\ loader.expected # 0
    BY <1>5 DEF Flush, IInv, TypeOK, CursorInv, CursorOK, Writing
  <2>2. CASE DrainFits(loader) /\ loader' = Flushed(loader)
    <3>1. /\ loader'.state = loader.state /\ ~loader'.writeOpen /\ ~loader'.flushing
          /\ loader'.expected = loader.expected
      BY <2>1, <2>2, DrainFacts
    <3> QED BY <1>1, <2>1, <3>1 DEF CursorInv, CursorOK, Writing
  <2>3. CASE loader' = FlushFailed(loader)
    <3>1. SameCursor(loader, loader') /\ ~loader'.writeOpen /\ loader'.state = "error"
          /\ ~loader'.flushing
      BY <2>1, <2>3, StopFacts
    <3> QED BY <1>1, <3>1, FailedCursorOK DEF CursorInv
  <2> QED BY <1>5, <2>2, <2>3 DEF Flush
<1>6. CASE Disconnect \/ Reenter
  <2>1. loader' = FreshLoader
    BY <1>6 DEF Disconnect, Reenter
  <2> QED BY <1>1, <2>1 DEF CursorInv, CursorOK, Writing, FreshLoader
<1>7. CASE loader' = loader
  BY <1>1, <1>7 DEF CursorInv, CursorOK, Writing
<1> QED BY <1>2, <1>3, <1>4, <1>5, <1>6, <1>7, LoaderSteps

\* While block numbers do not wrap, the cursor is never mistaken for a new one.
LEMMA CursorInvariant ==
  ASSUME Numbered
  PROVE  Spec => [](IInv /\ QueueInv /\ CursorInv)
<1>1. Init => CursorInv
  <2> SUFFICES ASSUME Init PROVE CursorInv
    OBVIOUS
  <2>1. loader = FreshLoader /\ pc = "closed" /\ submitted = 0 /\ size = 0
    BY DEF Init
  <2>2. 0 <= Requests
    BY <2>1, LoaderAssumption, SMT DEF Requests
  <2> QED BY <2>1, <2>2 DEF CursorInv, CursorOK, SizeOK, Writing, FreshLoader
<1>2. IInv /\ QueueInv /\ CursorInv /\ [Next]_vars => CursorInv'
  BY CursorStep
<1> QED BY <1>1, <1>2, QueueInvariant, PTL DEF Spec

\* _download_stream: while block numbers do not wrap within a transfer, a
\* write that reports success is on the eMMC, whatever was interrupted before.
THEOREM DfuStoredUnwrapped ==
  ASSUME Numbered
  PROVE  Spec => []ImageStored
<1>1. CursorInv => CursorFresh
  BY DEF CursorInv, CursorOK, CursorFresh
<1> QED BY <1>1, CursorInvariant, DfuDownloadStored, PTL DEF DownloadStored

-----------------------------------------------------------------------------
(* Units stay in place, also in writes that fail or are interrupted.        *)

InPlace(x, u) == x = Old \/ (x >= 0 /\ x % PartitionSize = u)

\* What a write has buffered belongs where the cursor stands.
Placed ==
  \A i \in 1 .. Len(loader.pending) :
    loader.offset + i - 1 < PartitionSize => InPlace(loader.pending[i], loader.offset + i - 1)

PlacedInv == UnitsInPlace /\ (Writing => Placed)

LEMMA UnitInPlace ==
  ASSUME TypeOK, NEW u \in Units
  PROVE  InPlace(Unit(u), u)
<1> DEFINE p == PartitionSize
<1>1. attempts \in Nat /\ p \in Nat /\ p > 0 /\ u \in Nat /\ u < p
  BY LoaderAssumption, SMT DEF TypeOK, Units
<1> HIDE DEF p
<1>2. attempts * p + u >= 0 /\ (attempts * p + u) % p = u
  BY <1>1, SMT
<1> QED BY <1>2 DEF Unit, InPlace, p

\* Writing out a buffer that is in place keeps the medium in place.
LEMMA StoredInPlace ==
  ASSUME IInv, PlacedInv, Writing, medium' = Stored(loader, medium)
  PROVE  UnitsInPlace'
<1>1. loader \in Loader /\ loader.offset \in Nat /\ Len(loader.pending) \in Nat
  BY LoaderAssumption, SMT DEF IInv, TypeOK, Loader
<1> SUFFICES ASSUME NEW u \in Units PROVE InPlace(medium'[u], u)
  BY DEF UnitsInPlace, InPlace
<1>2. u \in Nat /\ u < PartitionSize
  BY LoaderAssumption, SMT DEF Units
<1>3. CASE u >= loader.offset /\ u < loader.offset + Len(loader.pending)
  <2> DEFINE i == u - loader.offset + 1
  <2>1. i \in 1 .. Len(loader.pending) /\ loader.offset + i - 1 = u
    BY <1>1, <1>2, <1>3, SMT
  <2>2. medium'[u] = loader.pending[i]
    BY <1>3 DEF Stored
  <2> HIDE DEF i
  <2> QED BY <1>2, <2>1, <2>2 DEF PlacedInv, Placed
<1>4. CASE ~(u >= loader.offset /\ u < loader.offset + Len(loader.pending))
  <2>1. medium'[u] = medium[u]
    BY <1>4 DEF Stored
  <2> QED BY <2>1 DEF PlacedInv, UnitsInPlace, InPlace
<1> QED BY <1>3, <1>4

\* With one write in flight nothing that streams was discarded.
LEMMA OneInFlight ==
  ASSUME IInv, QueueInv, ~QueueLoader, RunDownload
  PROVE  Sending
<1>1. Pending /\ op = "download" /\ Len(replies) % 2 = 0
  BY DEF RunDownload
<1>2. Streaming
  BY <1>1 DEF Streaming
<1>3. PICK k \in Nat : retired = 2 * k
  BY <1>2 DEF QueueInv, PairsOK
<1>4. /\ retired <= Len(replies) /\ submitted <= retired + 2 * Depth /\ Depth = 1
      /\ \A i \in 1 .. retired : replies[i].kind # "cancelled"
  BY <1>2 DEF QueueInv, PairsOK, Depth
<1>5. Len(replies) = retired
  BY <1>1, <1>3, <1>4, Counts, SMT DEF Pending
<1> QED BY <1>1, <1>4, <1>5 DEF Sending

LEMMA RunDownloadPlaced ==
  ASSUME IInv, QueueInv, WriteInv, PlacedInv, ~QueueLoader, RunDownload
  PROVE  PlacedInv'
<1>1. /\ ~loader'.flushing
      /\ \/ loader'.state = "error" /\ medium' = medium
         \/ /\ \E b \in Nat : Len(replies') = 2 * b + 1 /\ Behind(b + 1)'
            /\ loader'.state = "dnload_sync"
            /\ \A u \in Units : u < loader'.offset \/ medium'[u] = medium[u]
  BY OneInFlight, NextBlockStored
<1>2. CASE loader'.state = "error" /\ medium' = medium
  BY <1>1, <1>2 DEF PlacedInv, UnitsInPlace, Writing
<1>3. CASE /\ \E b \in Nat : Len(replies') = 2 * b + 1 /\ Behind(b + 1)'
           /\ \A u \in Units : u < loader'.offset \/ medium'[u] = medium[u]
  <2>1. attempts' = attempts
    BY Zenon DEF RunDownload, Ran
  <2>2. /\ \A i \in 1 .. Len(loader'.pending) : loader'.pending[i] = Unit(loader'.offset + i - 1)
        /\ \A u \in 0 .. loader'.offset - 1 : medium'[u] = Unit(u)
    BY <1>3, <2>1 DEF Behind, Holds, Unit
  <2>3. loader' \in Loader
    BY RunDownloadInv DEF IInv, TypeOK
  <2>4. loader'.offset \in Nat
    BY <2>3, LoaderAssumption, SMT DEF Loader
  <2>5. ASSUME NEW u \in Units PROVE InPlace(medium'[u], u)
    <3>1. CASE u < loader'.offset
      <4>1. u \in 0 .. loader'.offset - 1
        BY <2>4, <3>1, LoaderAssumption, SMT DEF Units
      <4>2. medium'[u] = Unit(u)
        BY <2>2, <4>1
      <4> QED BY <4>2, UnitInPlace DEF IInv
    <3>2. CASE medium'[u] = medium[u]
      BY <3>2 DEF PlacedInv, UnitsInPlace, InPlace
    <3> QED BY <1>3, <3>1, <3>2
  <2>6. Placed'
    <3> SUFFICES ASSUME NEW i \in 1 .. Len(loader'.pending), loader'.offset + i - 1 < PartitionSize
                 PROVE  InPlace(loader'.pending[i], loader'.offset + i - 1)
      BY DEF Placed
    <3> DEFINE u == loader'.offset + i - 1
    <3>1. u \in Units
      BY <2>4, LoaderAssumption, SMT DEF Units
    <3>2. loader'.pending[i] = Unit(u)
      BY <2>2
    <3> HIDE DEF u
    <3>3. InPlace(loader'.pending[i], u)
      BY <3>1, <3>2, UnitInPlace DEF IInv
    <3> QED BY <3>3 DEF u
  <2> QED BY <2>5, <2>6 DEF PlacedInv, UnitsInPlace, InPlace
<1> QED BY <1>1, <1>2, <1>3

\* The cursor and the medium stay as they are, or the write is over.
LEMMA SamePlaced ==
  ASSUME PlacedInv, medium' = medium,
         Writing' => Writing /\ loader'.offset = loader.offset /\ loader'.pending = loader.pending
  PROVE  PlacedInv'
BY DEF PlacedInv, UnitsInPlace, Placed

LEMMA PolledPlaced ==
  ASSUME IInv, PlacedInv, medium' = medium, loader' = StatusPolled(loader)
  PROVE  PlacedInv'
<1>1. loader \in Loader
  BY DEF IInv, TypeOK
<1>2. /\ loader'.offset = loader.offset /\ loader'.pending = loader.pending
      /\ loader'.flushing = (loader.flushing \/ loader.state = "manifest")
      /\ loader'.state = CASE loader.state = "dnload_sync" -> "dnload_idle"
                           [] loader.state = "manifest_sync" -> "manifest"
                           [] loader.state = "manifest" -> "idle"
                           [] OTHER -> loader.state
  BY <1>1, PolledType, PolledFacts
<1>3. Writing' => Writing
  <2>1. ASSUME loader'.state \in {"dnload_sync", "dnload_idle", "manifest_sync", "manifest"}
        PROVE  loader.state \in {"dnload_sync", "dnload_idle", "manifest_sync", "manifest"}
    BY <1>2, <2>1, SMT
  <2>2. loader'.flushing => loader.flushing \/ loader.state = "manifest"
    BY <1>2
  <2> QED BY <2>1, <2>2 DEF Writing
<1> QED BY <1>2, <1>3, SamePlaced

LEMMA PlacedStep ==
  ASSUME IInv, QueueInv, WriteInv, PlacedInv, ~QueueLoader, [Next]_vars
  PROVE  PlacedInv'
<1>0. loader \in Loader
  BY DEF IInv, TypeOK
<1>1. CASE RunDownload
  BY <1>1, RunDownloadPlaced
<1>2. CASE RunUpload
  <2> DEFINE r == Uploaded(loader, Len(replies))
  <2>1. ~loader.flushing /\ loader' = r.loader /\ medium' = medium
    BY <1>2 DEF RunUpload, Ran
  <2>2. r.loader.flushing = loader.flushing /\ r.loader.state \in {"idle", "upload_idle", "error"}
    BY <1>0, Counts, UploadedFacts, UploadedState
  <2> HIDE DEF r
  <2> QED BY <2>1, <2>2, SamePlaced DEF Writing
<1>3. CASE Check \/ FinishUpload
  <2>1. medium' = medium
    BY <1>3 DEF Check, FinishUpload
  <2> QED BY <1>3, <2>1, EndsIdle, PolledPlaced, SamePlaced DEF Writing
<1>4. CASE Manifest
  <2>1. medium' = medium
    BY <1>4 DEF Manifest
  <2> QED BY <1>4, <2>1, ManifestEnds, SamePlaced DEF SameCursor
<1>5. CASE Recheck \/ PollManifest \/ ConfirmFlush \/ ControlFails \/ RunStatus
  <2>1. medium' = medium /\ loader' \in {loader, StatusPolled(loader)}
    BY <1>5, Zenon DEF Recheck, PollManifest, ConfirmFlush, ControlFails, RunStatus, Ran
  <2> QED BY <2>1, PolledPlaced, SamePlaced DEF Writing
<1>6. CASE Flush
  <2>1. CASE DrainFits(loader) /\ loader' = Flushed(loader) /\ medium' = Stored(loader, medium)
    <3>1. loader'.pending = <<>>
      BY <1>0, <2>1, DrainFacts
    <3>2. Placed'
      BY <3>1, SMT DEF Placed
    <3>3. UnitsInPlace'
      BY <1>6, <2>1, StoredInPlace DEF Flush, Writing
    <3> QED BY <3>2, <3>3 DEF PlacedInv
  <2>2. CASE loader' = FlushFailed(loader) /\ medium' = medium
    <3>1. loader'.state = "error" /\ ~loader'.flushing
      BY <1>0, <2>2, StopFacts
    <3> QED BY <2>2, <3>1, SamePlaced DEF Writing
  <2> QED BY <1>6, <2>1, <2>2 DEF Flush
<1>7. CASE Disconnect \/ Reenter
  <2>1. loader' = FreshLoader /\ medium' = medium
    BY <1>7 DEF Disconnect, Reenter
  <2> QED BY <2>1, FreshType, SamePlaced DEF Writing
<1>8. CASE loader' = loader /\ medium' = medium
  BY <1>8, SamePlaced DEF Writing
<1> QED BY <1>1, <1>2, <1>3, <1>4, <1>5, <1>6, <1>7, <1>8, LoaderSteps

\* Without the queue patch, whatever fails or is interrupted, a partition unit holds
\* what it held or an image's unit for that very place, unless the cursor was
\* left at block 0 in the middle of an image.
THEOREM DfuNothingMisplaced ==
  ASSUME ~QueueLoader
  PROVE  Spec => NothingMisplaced
<1>1. Init => PlacedInv
  <2> SUFFICES ASSUME Init PROVE PlacedInv
    OBVIOUS
  <2>1. loader = FreshLoader /\ medium = [u \in Units |-> Old]
    BY DEF Init
  <2> QED BY <2>1, FreshType DEF PlacedInv, UnitsInPlace, Writing
<1>2. IInv /\ QueueInv /\ WriteInv /\ PlacedInv /\ [Next]_vars => PlacedInv'
  BY PlacedStep
<1>3. PlacedInv => UnitsInPlace
  BY DEF PlacedInv
<1> QED BY <1>1, <1>2, <1>3, WriteInvariant, PTL DEF Spec, NothingMisplaced

\* _download_stream without the queue patch: while block numbers do not wrap within
\* a transfer, no failed or interrupted write leaves a unit out of its place.
THEOREM DfuInPlaceUnwrapped ==
  ASSUME Numbered, ~QueueLoader
  PROVE  Spec => []UnitsInPlace
<1>1. CursorInv => CursorFresh
  BY DEF CursorInv, CursorOK, CursorFresh
<1> QED BY <1>1, CursorInvariant, DfuNothingMisplaced, PTL DEF NothingMisplaced

-----------------------------------------------------------------------------
(* Reads ahead stay in the first pass over the alternative.                 *)

\* The cursor stands no further than its block number says.
CursorLow ==
  /\ loader.offset <= loader.expected * TransferSize
  /\ Writing => loader.offset + Len(loader.pending) <= loader.expected * TransferSize

Reading == op = "upload" /\ (pc = "stream" \/ Pending)

ReadQuiet == Reading => loader.state \in {"idle", "upload_idle", "error"} /\ ~loader.flushing

\* The loader answered the first request of this session with data.
Begun == Len(replies) > 0 /\ IsData(replies[1])

\* Where the cursor a read starts from is known: with one write in flight
\* always, otherwise as soon as the first request was answered.
Trusted == ~QueueLoader \/ Begun

\* What was answered since has not moved the cursor beyond its number.
ReadLow == Reading /\ Begun => loader.offset <= loader.expected * TransferSize

DataLow ==
  op = "upload" /\ Trusted =>
    \A i \in 1 .. Len(replies) : IsData(replies[i]) => replies[i].from <= (i - 1) * TransferSize

\* Until its last block a read moves on, block by block.
DataBehind ==
  Reading /\ present /\ Trusted /\ size <= PartitionSize /\ Len(replies) < Requests =>
    \A i \in 1 .. Len(replies) :
      IsData(replies[i]) => loader.readOpen /\ replies[i].from < loader.offset

\* No two requests were answered from the same pass over the alternative.
NoSecondPass ==
  op = "upload" /\ Trusted /\ size <= PartitionSize =>
    \A i, j \in 1 .. Len(replies) :
      i < j /\ IsData(replies[i]) /\ IsData(replies[j]) => replies[i].from < replies[j].from

ReadInv == ReadQuiet /\ ReadLow /\ DataLow /\ DataBehind /\ NoSecondPass

\* With one write in flight no cursor ever stands beyond its number.
KnownLow == ~QueueLoader => CursorLow

LEMMA LowDownload ==
  ASSUME IInv, QueueInv, WriteInv, CursorInv, CursorLow, Numbered, ~QueueLoader, RunDownload
  PROVE  CursorLow'
<1>1. loader \in Loader /\ loader' \in Loader
  BY RunDownloadInv DEF IInv, TypeOK
<1>2. CASE Refused(loader, loader')
  <2>1. ~Writing'
    BY <1>2, DownloadOutcome DEF Refused, Writing
  <2>2. CASE loader'.expected = loader.expected /\ loader'.offset = loader.offset
    BY <2>1, <2>2 DEF CursorLow
  <2>3. CASE loader'.expected = 0 /\ loader'.offset = 0
    BY <2>1, <2>3, LoaderAssumption, SMT DEF CursorLow
  <2> QED BY <1>2, <2>2, <2>3 DEF Refused, CursorAt, PlaceAt
<1>3. ASSUME NEW c \in Nat, NEW units \in Seq(Int), Len(replies) = 2 * c,
             TakenIn(loader, c, units, loader', medium, medium')
      PROVE  CursorLow'
  <2>1. loader'.state # "error"
    BY <1>3 DEF TakenIn
  <2>2. \E b \in Nat : Len(replies') = 2 * b + 1 /\ Behind(b + 1)'
    BY <2>1, OneInFlight, NextBlockStored
  <2>3. PICK b \in Nat : Len(replies') = 2 * b + 1 /\ Behind(b + 1)'
    BY <2>2
  <2>4. /\ loader'.expected = (b + 1) % BlockWrap
        /\ loader'.offset + Len(loader'.pending) = Sent(b + 1)'
    BY <2>3 DEF Behind, Holds
  <2>5. Len(replies') <= 2 * Blocks /\ Blocks < BlockWrap /\ size' = size
    <3>1. Streaming /\ pc # "closed" /\ size' = size /\ submitted' = submitted /\ Pending
      BY RanQueue, Zenon DEF RunDownload, Streaming, Ran, callVars
    <3>2. submitted <= 2 * Blocks /\ size \in Sizes
      BY <3>1 DEF QueueInv, PairsOK, CursorInv, SizeOK
    <3>3. \E a : replies' = Append(replies, a)
      BY Zenon DEF RunDownload, Ran
    <3> QED BY <3>1, <3>2, <3>3, BlockCounts, Counts, SMT DEF Pending
  <2>6. b + 1 \in Nat /\ b + 1 < BlockWrap
    <3>1. 2 * b + 1 <= 2 * Blocks
      BY <2>3, <2>5
    <3>2. Blocks \in Int /\ BlockWrap \in Int /\ Blocks < BlockWrap
      BY <2>5, Counts, LoaderAssumption
    <3> QED BY <3>1, <3>2, SMT
  <2>7. (b + 1) % BlockWrap = b + 1
    BY <2>6, SmallMod, LoaderAssumption
  <2> DEFINE y == (b + 1) * TransferSize
  <2>8. y \in Int /\ loader'.expected * TransferSize = y /\ Sent(b + 1)' = Least(y, size)
    <3>1. loader'.expected = b + 1
      BY <2>4, <2>7
    <3>2. y \in Int
      BY <2>6, LoaderAssumption, SMT
    <3> QED BY <2>5, <3>1, <3>2 DEF Sent, Least
  <2> HIDE DEF y
  <2>9. Least(y, size) <= y
    BY <2>8, Counts, SMT DEF Least
  <2>10. loader'.offset \in Nat /\ Len(loader'.pending) \in Nat
    BY <1>1, LoaderAssumption, SMT DEF Loader
  <2> QED BY <2>4, <2>8, <2>9, <2>10, SMT DEF CursorLow
<1> QED BY <1>2, <1>3, DownloadOutcome

LEMMA LowUpload ==
  ASSUME IInv, QueueInv, CursorInv, CursorLow, Numbered, RunUpload
  PROVE  CursorLow'
<1>1. ~Writing'
  BY UploadOutcome DEF Writing
<1>2. PICK a \in Answers :
        IF IsData(a) THEN ReadBlock(Len(replies), a)
        ELSE /\ loader'.readOpen = loader.readOpen
             /\ loader'.expected = loader.expected /\ loader'.offset = loader.offset
  BY UploadOutcome
<1>3. CASE IsData(a)
  <2>1. PICK e \in {0, Len(replies)} :
          /\ loader'.expected = e + 1
          /\ IF loader.readOpen THEN e = loader.expected /\ a.from = loader.offset
             ELSE e = 0 /\ a.from = 0
    BY <1>2, <1>3 DEF ReadBlock
  <2> DEFINE y == e * TransferSize
  <2>2. e \in Nat /\ y \in Int /\ (e + 1) * TransferSize = y + TransferSize /\ (e = 0 => y = 0)
    BY <2>1, Counts, LoaderAssumption, SMT
  <2>3. a.from <= y
    BY <2>1, <2>2, SMT DEF CursorLow
  <2> HIDE DEF y
  <2>4. loader'.offset <= y + TransferSize
    BY <1>2, <1>3, <2>2, <2>3, LoaderAssumption, SMT DEF ReadBlock
  <2> QED BY <1>1, <2>1, <2>2, <2>4 DEF CursorLow
<1>4. CASE ~IsData(a)
  BY <1>1, <1>2, <1>4 DEF CursorLow
<1> QED BY <1>3, <1>4

LEMMA SameLow ==
  ASSUME CursorLow, loader'.expected = loader.expected, loader'.offset = loader.offset,
         Writing' => Writing /\ loader'.pending = loader.pending
  PROVE  CursorLow'
BY DEF CursorLow

LEMMA PolledLow ==
  ASSUME IInv, CursorOK, CursorLow, loader' = StatusPolled(loader)
  PROVE  CursorLow'
<1>1. SameCursor(loader, loader') /\ (Writing' => Writing)
  BY PolledCursor, PolledSame DEF IInv, TypeOK, Writing
<1> QED BY <1>1, SameLow DEF SameCursor

LEMMA LowStep ==
  ASSUME IInv, QueueInv, WriteInv, CursorInv, CursorLow, Numbered, ~QueueLoader, [Next]_vars
  PROVE  CursorLow'
<1>0. loader \in Loader
  BY DEF IInv, TypeOK
<1>1. CASE RunUpload \/ RunDownload
  BY <1>1, LowUpload, LowDownload
<1>2. CASE Check \/ FinishUpload
  <2>1. CASE loader' = StatusPolled(loader)
    BY <2>1, PolledLow DEF CursorInv
  <2>2. CASE SameCursor(loader, loader') /\ ~loader'.flushing /\ loader'.state = "idle"
    BY <2>2, SameLow DEF SameCursor, Writing
  <2> QED BY <1>2, <2>1, <2>2, EndsIdle
<1>3. CASE Manifest
  BY <1>3, ManifestEnds, SameLow DEF SameCursor
<1>4. CASE Recheck \/ PollManifest \/ ConfirmFlush \/ ControlFails \/ RunStatus
  <2>1. loader' \in {loader, StatusPolled(loader)}
    BY <1>4, Zenon DEF Recheck, PollManifest, ConfirmFlush, ControlFails, RunStatus, Ran
  <2> QED BY <2>1, PolledLow, SameLow DEF CursorInv, Writing
<1>5. CASE Flush
  <2>1. CASE DrainFits(loader) /\ loader' = Flushed(loader)
    <3>1. /\ loader'.expected = loader.expected /\ loader'.pending = <<>>
          /\ loader'.offset = loader.offset + Len(loader.pending)
      BY <1>0, <2>1, DrainFacts
    <3>2. loader.offset + Len(loader.pending) <= loader.expected * TransferSize
      BY <1>5 DEF Flush, CursorLow, Writing
    <3>3. loader.offset + Len(loader.pending) \in Int /\ Len(<<>>) = 0
      BY <1>0, LoaderAssumption, SMT DEF Loader
    <3>4. loader'.offset + Len(loader'.pending) = loader'.offset
      BY <3>1, <3>3, SMT
    <3> QED BY <3>1, <3>2, <3>4 DEF CursorLow
  <2>2. CASE loader' = FlushFailed(loader)
    <3>1. SameCursor(loader, loader') /\ loader'.state = "error" /\ ~loader'.flushing
      BY <1>0, <2>2, StopFacts
    <3> QED BY <3>1, SameLow DEF SameCursor, Writing
  <2> QED BY <1>5, <2>1, <2>2 DEF Flush
<1>6. CASE Disconnect \/ Reenter
  <2>1. loader' = FreshLoader
    BY <1>6 DEF Disconnect, Reenter
  <2>2. ~Writing' /\ loader'.expected = 0 /\ loader'.offset = 0
    BY <2>1 DEF FreshLoader, Writing
  <2> QED BY <2>2, LoaderAssumption, SMT DEF CursorLow
<1>7. CASE loader' = loader /\ medium' = medium
  BY <1>7, SameLow DEF Writing
<1> QED BY <1>1, <1>2, <1>3, <1>4, <1>5, <1>6, <1>7, LoaderSteps

-----------------------------------------------------------------------------
\* No read is queued.
LEMMA NotReading ==
  ASSUME IInv, ReadInv, ~Reading', UNCHANGED <<op, size, replies>>
  PROVE  ReadInv'
BY DEF ReadInv, ReadQuiet, ReadLow, DataLow, DataBehind, NoSecondPass, Trusted, Begun

\* No answer yet.
LEMMA NothingRead ==
  ASSUME replies' = <<>>, Reading' => loader'.state = "idle" /\ ~loader'.flushing
  PROVE  ReadInv'
<1>1. 1 .. Len(replies') = {} /\ ~(Len(replies') > 0)
  BY SMT
<1> QED BY <1>1 DEF ReadInv, ReadQuiet, ReadLow, DataLow, DataBehind, NoSecondPass, Trusted, Begun

\* A step that leaves the answers and the loader as they are.
LEMMA SameReading ==
  ASSUME ReadInv, UNCHANGED <<loader, op, size, replies>>,
         Reading' => Reading, present' => present
  PROVE  ReadInv'
BY DEF ReadInv, ReadQuiet, ReadLow, DataLow, DataBehind, NoSecondPass, Trusted, Begun, Requests

\* An answer without data, where the loader's cursor stays.
LEMMA NoDataReading ==
  ASSUME IInv, ReadInv, Reading, UNCHANGED <<op, size>>, present' => present,
         NEW a \in Answers, ~IsData(a), replies' = Append(replies, a),
         loader'.readOpen = loader.readOpen, loader'.expected = loader.expected,
         loader'.offset = loader.offset,
         loader'.state \in {"idle", "upload_idle", "error"}, ~loader'.flushing
  PROVE  ReadInv'
<1>1. /\ Len(replies) \in Nat /\ Len(replies') = Len(replies) + 1
      /\ \A i \in 1 .. Len(replies) : replies'[i] = replies[i]
      /\ replies'[Len(replies')] = a
  BY Counts, AppendAnswer
<1>2. \A i \in 1 .. Len(replies') :
        IsData(replies'[i]) => i \in 1 .. Len(replies) /\ replies'[i] = replies[i]
  <2> SUFFICES ASSUME NEW i \in 1 .. Len(replies'), IsData(replies'[i])
               PROVE  i \in 1 .. Len(replies) /\ replies'[i] = replies[i]
    OBVIOUS
  <2>1. i \in 1 .. Len(replies) \/ i = Len(replies')
    BY <1>1, SMT
  <2> QED BY <1>1, <2>1
<1>2a. (Begun' => Begun) /\ (Trusted' => Trusted)
  <2>1. Begun' => 1 \in 1 .. Len(replies')
    BY <1>1, SMT DEF Begun
  <2>2. Begun' => 1 \in 1 .. Len(replies) /\ IsData(replies[1])
    BY <1>2, <2>1 DEF Begun
  <2> QED BY <1>1, <2>2, SMT DEF Begun, Trusted
<1>3. ReadQuiet' /\ ReadLow' /\ DataLow'
  BY <1>2, <1>2a DEF ReadInv, ReadQuiet, ReadLow, DataLow
<1>4. DataBehind'
  <2>1. Requests \in Int /\ Requests' = Requests
    BY Counts, LoaderAssumption, SMT DEF Requests
  <2>2. Len(replies') < Requests' => Len(replies) < Requests
    BY <1>1, <2>1, SMT
  <2> QED BY <1>2, <1>2a, <2>2 DEF ReadInv, DataBehind
<1>5. NoSecondPass'
  <2> SUFFICES ASSUME op' = "upload", Trusted', size' <= PartitionSize,
                      NEW i \in 1 .. Len(replies'), NEW j \in 1 .. Len(replies'), i < j,
                      IsData(replies'[i]), IsData(replies'[j])
               PROVE  replies'[i].from < replies'[j].from
    BY Zenon DEF NoSecondPass
  <2>1. /\ i \in 1 .. Len(replies) /\ replies'[i] = replies[i]
        /\ j \in 1 .. Len(replies) /\ replies'[j] = replies[j]
    BY <1>2, Zenon
  <2>2. op = "upload" /\ Trusted /\ size <= PartitionSize
    BY <1>2a
  <2>3. replies[i].from < replies[j].from
    BY <2>1, <2>2, Zenon DEF ReadInv, NoSecondPass
  <2> QED BY <2>1, <2>3
<1> QED BY <1>3, <1>4, <1>5 DEF ReadInv

\* Data comes from where the cursor stands, in front of what was read before;
\* before the last request that is a full block.
LEMMA UploadReading ==
  ASSUME IInv, QueueInv, CursorInv, KnownLow, ReadInv, Numbered, RunUpload
  PROVE  ReadInv'
<1> DEFINE n == Len(replies)
<1>1. /\ n + 1 <= Requests /\ ~loader'.flushing
      /\ loader'.state \in {"idle", "upload_idle", "error"}
  BY UploadOutcome
<1>2. PICK a \in Answers :
        /\ replies' = Append(replies, a)
        /\ IF IsData(a) THEN ReadBlock(n, a)
           ELSE /\ loader'.readOpen = loader.readOpen
                /\ loader'.expected = loader.expected /\ loader'.offset = loader.offset
  BY UploadOutcome
<1>3. present /\ Reading /\ UNCHANGED <<op, size, present>> /\ op = "upload"
  BY DEF RunUpload, Ran, callVars, Reading
<1>4. CASE ~IsData(a)
  BY <1>1, <1>2, <1>3, <1>4, NoDataReading
<1>5. CASE IsData(a)
  <2>1. /\ n \in Nat /\ Len(replies') = n + 1 /\ replies'[n + 1] = a
        /\ \A i \in 1 .. n : replies'[i] = replies[i]
    BY <1>2, Counts, AppendAnswer
  <2> DEFINE t == TransferSize
             y == n * t
  <2>2. /\ t \in Nat /\ t > 0 /\ PartitionSize \in Nat /\ size \in Nat /\ y \in Nat
        /\ y = (n + 1 - 1) * t /\ Requests \in Int /\ Requests' = Requests
    <3>1. n + 1 - 1 = n
      BY <2>1, SMT
    <3> QED BY <1>3, <2>1, <3>1, Counts, LoaderAssumption, SMT DEF Requests
  <2>3a. Trusted' => Trusted \/ n = 0
    <3>1. CASE n = 0
      BY <3>1
    <3>2. CASE n # 0
      <4>1. n > 0 /\ replies'[1] = replies[1]
        BY <2>1, <3>2, SMT
      <4> QED BY <4>1 DEF Trusted, Begun
    <3> QED BY <3>1, <3>2
  <2>3b. PICK e \in {0, n} :
           /\ loader'.expected = e + 1
           /\ IF loader.readOpen THEN e = loader.expected /\ a.from = loader.offset
              ELSE e = 0 /\ a.from = 0
    BY <1>2, <1>5 DEF ReadBlock
  <2>3c. e \in Nat /\ e <= n
    BY <2>1, <2>3b, SMT
  <2> DEFINE z == e * t
  <2>3d. z \in Nat /\ z <= y /\ (e = 0 => z = 0) /\ (e + 1) * t = z + t
    <3>1. PICK k \in Nat : n = e + k
      <4>1. n - e \in Nat /\ n = e + (n - e)
        BY <2>1, <2>3c, SMT
      <4> QED BY <4>1
    <3>2. n * t = e * t + k * t /\ e * t \in Nat /\ k * t \in Nat
      BY <2>2, <2>3c, <3>1, SMT
    <3>3. (e + 1) * t = e * t + t /\ (e = 0 => e * t = 0)
      BY <2>2, <2>3c, SMT
    <3> DEFINE x == k * t
    <3>4. y = z + x /\ z \in Nat /\ x \in Nat
      BY <3>2
    <3>5. z <= y
      <4> HIDE DEF x, y, z
      <4> QED BY <3>4, SMT
    <3> QED BY <3>3, <3>4, <3>5
  <2>3e. Trusted' => a.from <= z
    <3> SUFFICES ASSUME Trusted' PROVE a.from <= z
      OBVIOUS
    <3>1. CASE ~loader.readOpen
      <4>1. a.from = 0
        BY <2>3b, <3>1
      <4> QED BY <2>3d, <4>1, SMT
    <3>2. CASE loader.readOpen /\ n = 0
      <4>1. e = 0 /\ loader.expected = 0
        BY <2>3b, <3>2
      <4>2. loader.offset = 0
        BY <4>1 DEF CursorInv, CursorOK
      <4> QED BY <2>3b, <2>3d, <3>2, <4>2, SMT
    <3>3. CASE loader.readOpen /\ Trusted
      <4>1. loader.offset <= loader.expected * TransferSize
        BY <1>3, <3>3 DEF Trusted, KnownLow, CursorLow, ReadInv, ReadLow
      <4>2. e = loader.expected /\ a.from = loader.offset
        BY <2>3b, <3>3
      <4> QED BY <4>1, <4>2
    <3> QED BY <2>3a, <3>1, <3>2, <3>3
  <2>3. Trusted' => a.from <= y
    <3>1. a.from \in Int /\ y \in Int
      BY <1>2, <1>5, <2>2, SMT DEF ReadBlock
    <3> HIDE DEF y, z
    <3> QED BY <2>3d, <2>3e, <3>1, SMT
  <2>3f. ReadLow'
    <3> SUFFICES ASSUME Begun' PROVE loader'.offset <= loader'.expected * t
      BY DEF ReadLow
    <3>1. a.from <= z
      BY <2>3e DEF Trusted
    <3>2. loader'.offset = a.from + a.len /\ a.len <= t /\ a.from \in Nat /\ a.len \in Nat
      BY <1>2, <1>5 DEF ReadBlock
    <3>3. loader'.expected * t = z + t
      BY <2>3b, <2>3d
    <3> HIDE DEF z
    <3> QED BY <2>2, <2>3d, <3>1, <3>2, <3>3, SMT
  <2> HIDE DEF z
  <2>4. \A i \in 1 .. n + 1 : i \in 1 .. n \/ i = n + 1
    BY <2>1, SMT
  <2>5. DataLow'
    <3> SUFFICES ASSUME Trusted', NEW i \in 1 .. n + 1, IsData(replies'[i])
                 PROVE  replies'[i].from <= (i - 1) * t
      BY <2>1 DEF DataLow
    <3>1. CASE i \in 1 .. n
      <4>1. Trusted
        BY <2>1, <2>3a, <3>1, SMT
      <4> QED BY <1>3, <2>1, <3>1, <4>1 DEF ReadInv, DataLow
    <3>2. CASE i = n + 1
      BY <2>1, <2>2, <2>3, <3>2
    <3> QED BY <2>4, <3>1, <3>2
  <2>6. ASSUME Trusted', size <= PartitionSize, NEW i \in 1 .. n, IsData(replies[i])
        PROVE  Trusted /\ replies[i].from < a.from
    <3>0. Trusted
      BY <2>1, <2>3a, <2>6, SMT
    <3>1. n < Requests
      BY <1>1, <2>1, <2>2, SMT
    <3>2. loader.readOpen /\ replies[i].from < loader.offset
      BY <1>3, <2>6, <3>0, <3>1 DEF ReadInv, DataBehind
    <3> QED BY <1>2, <1>5, <3>0, <3>2 DEF ReadBlock
  <2>7. NoSecondPass'
    <3> SUFFICES ASSUME Trusted', size <= PartitionSize, NEW i \in 1 .. n + 1, NEW j \in 1 .. n + 1, i < j,
                        IsData(replies'[i]), IsData(replies'[j])
                 PROVE  replies'[i].from < replies'[j].from
      BY <1>3, <2>1 DEF NoSecondPass
    <3>1. i \in 1 .. n
      BY <2>1, SMT
    <3>2. CASE j \in 1 .. n
      <4>1. Trusted
        BY <2>1, <2>3a, <3>2, SMT
      <4> QED BY <1>3, <2>1, <3>1, <3>2, <4>1 DEF ReadInv, NoSecondPass
    <3>3. CASE j = n + 1
      BY <2>1, <2>6, <3>1, <3>3
    <3> QED BY <2>4, <3>2, <3>3
  <2>8. ASSUME Trusted', size <= PartitionSize, n + 1 < Requests
        PROVE  loader'.readOpen /\ a.from < loader'.offset
    <3>1. y + t <= size
      <4> DEFINE d == size \div t
                 k == d - (n + 1)
      <4>1. Requests = d + 1 /\ d \in Nat /\ d * t <= size
        BY <2>2, SMT DEF Requests
      <4>2. k \in Nat /\ d = n + 1 + k
        BY <2>1, <2>8, <4>1, SMT
      <4> HIDE DEF d, k
      <4>3. d * t = n * t + t + k * t /\ k * t \in Nat
        BY <2>1, <2>2, <4>2, SMT
      <4>4. y = n * t
        OBVIOUS
      <4> DEFINE w == d * t
                 x == k * t
      <4>5. w = y + t + x /\ x \in Nat /\ w <= size /\ w \in Int
        BY <2>1, <2>2, <4>1, <4>3, <4>4, SMT
      <4> HIDE DEF y, t, w, x
      <4> QED BY <2>2, <4>5, SMT
    <3> HIDE DEF y, t
    <3>2. a.from + t <= PartitionSize
      BY <1>2, <1>5, <2>2, <2>3, <2>8, <3>1, SMT DEF ReadBlock
    <3>3. a.from \in Nat /\ a.len \in Nat /\ a.len <= t /\ loader'.offset = a.from + a.len
          /\ (a.len < t => a.from + a.len = PartitionSize) /\ (a.len = t => loader'.readOpen)
      BY <1>2, <1>5 DEF ReadBlock, t
    <3>4. a.len = t
      BY <2>2, <3>2, <3>3, SMT
    <3> QED BY <2>2, <3>3, <3>4, SMT
  <2>9. DataBehind'
    <3> SUFFICES ASSUME Trusted', size <= PartitionSize, n + 1 < Requests,
                        NEW i \in 1 .. n + 1, IsData(replies'[i])
                 PROVE  loader'.readOpen /\ replies'[i].from < loader'.offset
      BY <1>3, <2>1, <2>2 DEF DataBehind
    <3>1. loader'.readOpen /\ a.from < loader'.offset
      BY <2>8
    <3>2. CASE i = n + 1
      BY <2>1, <3>1, <3>2
    <3>3. CASE i \in 1 .. n
      <4>1. replies'[i] = replies[i] /\ replies[i].from < a.from
        BY <2>1, <2>6, <3>3
      <4>2. replies[i].from \in Int /\ a.from \in Int /\ loader'.offset \in Int
        <5>1. replies[i] \in Answers
          BY <2>1, <3>3, Counts, AppendAnswer
        <5>2. replies[i].from \in Nat
          BY <2>1, <3>3, <5>1, AnswerFacts DEF IsData
        <5> QED BY <1>2, <1>5, <5>2, SMT DEF ReadBlock
      <4> QED BY <3>1, <4>1, <4>2, SMT
    <3> QED BY <2>4, <3>2, <3>3
  <2>10. ReadQuiet'
    BY <1>1 DEF ReadQuiet
  <2> QED BY <2>3f, <2>5, <2>7, <2>9, <2>10 DEF ReadInv
<1> QED BY <1>4, <1>5

\* A helper that closes has nothing queued any more.
LEMMA ClosedReading ==
  ASSUME IInv, ReadInv, pc' # "stream", submitted' = Len(replies), UNCHANGED <<op, size, replies>>
  PROVE  ReadInv'
<1>1. ~Pending'
  BY Counts, SMT DEF Pending
<1> QED BY <1>1, NotReading DEF Reading

\* Synchronous requests wait for the queue, and fail into the end of a helper.
LEMMA RaiseReading ==
  ASSUME IInv, QueueInv, ReadInv, Raise
  PROVE  ReadInv'
<1>1. CASE pc \in {"manifest", "poll", "confirm"}
  <2>1. submitted' = Len(replies) /\ pc' = "check" /\ UNCHANGED <<op, size, replies>>
    BY <1>1 DEF Raise, QueueInv, NothingQueued, callVars, queueVars
  <2> QED BY <2>1, ClosedReading
<1>2. CASE pc \notin {"manifest", "poll", "confirm"}
  BY <1>2, ClosedReading DEF Raise, Close, callVars
<1> QED BY <1>1, <1>2

LEMMA ReadStep ==
  ASSUME IInv, QueueInv, CursorInv, KnownLow, ReadInv, Numbered, [Next]_vars
  PROVE  ReadInv'
<1>1. ASSUME NEW o \in Ops, NEW n \in Sizes, NEW k \in Sizes, Open(o, n, k) PROVE ReadInv'
  <2>1. pc' = "check" /\ submitted' = 0 /\ replies' = <<>>
    BY <1>1 DEF Open
  <2>2. ~Reading'
    BY <2>1, SMT DEF Reading, Pending
  <2> QED BY <2>1, <2>2, NothingRead
<1>2. CASE Check \/ Recheck \/ FinishUpload \/ Manifest \/ PollManifest \/ ConfirmFlush
  <2>1. submitted = Len(replies)
    BY <1>2 DEF Check, Recheck, FinishUpload, Manifest, PollManifest, ConfirmFlush, CanControl
  <2>2. CASE Raise \/ \E o, note : Close(o, note)
    BY <2>2, RaiseReading, ClosedReading DEF Close, callVars
  <2>3. CASE \E step \in {"recheck", "poll", "confirm"} : Continue(step)
    BY <2>1, <2>3, ClosedReading DEF Continue, callVars, queueVars
  <2>4. CASE Recheck /\ Continue("stream") /\ error = "none"
    <3>1. /\ pc = "recheck" /\ CanControl /\ loader' = StatusPolled(loader)
          /\ (IdleGood(loader') \/ Raise)
      BY <2>4, Zenon DEF Recheck
    <3>2. pc' = "stream" /\ replies' = replies /\ replies = <<>>
      BY <2>4, <3>1 DEF Continue, queueVars, IInv, FreshStart
    <3>3. ~Raise
      BY <3>1, <3>2 DEF Raise, Close
    <3>4. loader'.state = "idle" /\ ~loader'.flushing
      <4>1. loader \in Loader /\ loader.state \in {"idle", "error"} /\ ~loader.flushing
        BY <3>1 DEF IInv, TypeOK, NothingToFlush, CanControl
      <4> QED BY <3>1, <3>3, <4>1, PolledSame DEF IdleGood
    <3> QED BY <3>2, <3>4, NothingRead
  <2> QED BY <1>2, <2>2, <2>3, <2>4
          DEF Check, Recheck, FinishUpload, Manifest, PollManifest, ConfirmFlush, ConfirmNext
<1>3. CASE Submit \/ RetireUpload \/ RetireDownload \/ StreamFails \/ RetireTimesOut
  <2>1. pc = "stream" /\ UNCHANGED <<loader, op, size, replies, present>>
    BY <1>3, Zenon DEF Submit, RetireUpload, RetireDownload, StreamFails, RetireTimesOut, StreamRaises,
                       loaderVars, callVars
  <2> QED BY <2>1, SameReading DEF Reading
<1>4. CASE Discard
  <2>1. /\ Pending /\ pc' = "cancel" /\ replies' = Append(replies, Cancelled)
        /\ UNCHANGED <<loader, present, op, size>>
    BY <1>4 DEF Discard, loaderVars, callVars, Pending
  <2>2. CASE op = "upload"
    <3>1. Reading
      BY <2>1, <2>2 DEF Reading
    <3>2. loader.state \in {"idle", "upload_idle", "error"} /\ ~loader.flushing
      BY <3>1 DEF ReadInv, ReadQuiet
    <3> QED BY <2>1, <3>1, <3>2, NoDataReading, AnswerFacts
  <2>3. CASE op # "upload"
    BY <2>1, <2>3 DEF ReadInv, ReadQuiet, ReadLow, DataLow, DataBehind, NoSecondPass, Trusted, Begun, Reading
  <2> QED BY <2>2, <2>3
<1>5. CASE CancelEnds
  <2>1. CASE Close("interrupted", FALSE)
    BY <2>1, ClosedReading DEF Close, callVars
  <2>2. CASE pc = "cancel" /\ Continue("check") /\ UNCHANGED loaderVars
    BY <2>2, SameReading DEF Continue, callVars, queueVars, loaderVars, Reading, Pending
  <2> QED BY <1>5, <2>1, <2>2 DEF CancelEnds
<1>6. CASE ControlFails
  BY <1>6, RaiseReading DEF ControlFails
<1>7. CASE Interrupted
  BY <1>7, ClosedReading DEF Interrupted, Close, callVars
<1>8. CASE RunUpload
  BY <1>8, UploadReading
<1>9. CASE RunDownload \/ RunStatus
  <2>1. op = "download" /\ op' = op
    BY <1>9, Zenon DEF RunDownload, RunStatus, Ran, callVars
  <2> QED BY <2>1 DEF ReadInv, ReadQuiet, ReadLow, DataLow, DataBehind, NoSecondPass, Trusted, Begun, Reading
<1>10. CASE RunWithoutDevice
  <2>1. /\ Pending /\ ~present /\ replies' = Append(replies, Fail)
        /\ UNCHANGED <<loader, present, op, size>>
    BY <1>10 DEF RunWithoutDevice, Ran, callVars
  <2>2. CASE op = "upload"
    <3>1. Reading
      BY <2>1, <2>2 DEF Reading
    <3>2. loader.state \in {"idle", "upload_idle", "error"} /\ ~loader.flushing
      BY <3>1 DEF ReadInv, ReadQuiet
    <3> QED BY <2>1, <3>1, <3>2, NoDataReading, AnswerFacts
  <2>3. CASE op # "upload"
    BY <2>1, <2>3 DEF ReadInv, ReadQuiet, ReadLow, DataLow, DataBehind, NoSecondPass, Trusted, Begun, Reading
  <2> QED BY <2>2, <2>3
<1>11. CASE Flush
  <2>1. loader.flushing /\ UNCHANGED <<pc, op, size, submitted, replies>>
    BY <1>11 DEF Flush, callVars, queueVars
  <2>2. ~Reading'
    BY <2>1 DEF ReadInv, ReadQuiet, Reading, Pending
  <2> QED BY <2>1, <2>2, NotReading
<1>12. CASE Disconnect
  <2>1. /\ loader' = FreshLoader /\ ~present'
        /\ UNCHANGED <<pc, op, size, submitted, replies>>
    BY <1>12 DEF Disconnect, callVars, queueVars
  <2>2. loader'.offset <= loader'.expected * TransferSize
    <3>1. loader'.offset = 0 /\ loader'.expected = 0
      BY <2>1 DEF FreshLoader
    <3> QED BY <3>1, LoaderAssumption, SMT
  <2>3. ReadQuiet' /\ ReadLow' /\ DataBehind'
    BY <2>1, <2>2, FreshType DEF ReadQuiet, ReadLow, DataBehind
  <2> QED BY <2>1, <2>3 DEF ReadInv, DataLow, NoSecondPass, Trusted, Begun
<1>13. CASE Reenter
  <2>1. pc' # "stream" /\ submitted' = Len(replies) /\ UNCHANGED <<op, size, replies>>
    BY <1>13 DEF Reenter, callVars, queueVars, QueueInv, NothingQueued
  <2> QED BY <2>1, ClosedReading
<1>14. CASE UNCHANGED vars
  BY <1>14, SameReading DEF vars, loaderVars, callVars, queueVars, Reading, Pending
<1> QED BY <1>1, <1>2, <1>3, <1>4, <1>5, <1>6, <1>7, <1>8, <1>9, <1>10, <1>11, <1>12, <1>13, <1>14,
        BusyFails DEF Next, Host, Device

-----------------------------------------------------------------------------
LEMMA ReadInvariant ==
  ASSUME Numbered
  PROVE  Spec => []ReadInv
<1>1. Init => KnownLow /\ ReadInv
  <2> SUFFICES ASSUME Init PROVE KnownLow /\ ReadInv
    OBVIOUS
  <2>1. loader = FreshLoader /\ pc = "closed" /\ submitted = 0 /\ replies = <<>>
    BY DEF Init
  <2>2. ~Writing /\ loader.offset = 0 /\ loader.expected = 0
    BY <2>1 DEF FreshLoader, Writing
  <2>3. KnownLow
    BY <2>2, LoaderAssumption, SMT DEF KnownLow, CursorLow
  <2>4. ~Reading /\ 1 .. Len(replies) = {}
    BY <2>1, SMT DEF Reading, Pending
  <2> QED BY <2>3, <2>4 DEF ReadInv, ReadQuiet, ReadLow, DataLow, DataBehind, NoSecondPass
<1>2. IInv /\ QueueInv /\ WriteInv /\ CursorInv /\ KnownLow /\ [Next]_vars => KnownLow'
  BY LowStep DEF KnownLow
<1>3. IInv /\ QueueInv /\ CursorInv /\ KnownLow /\ ReadInv /\ [Next]_vars => ReadInv'
  BY ReadStep
<1>4. CursorInv => CursorFresh
  BY DEF CursorInv, CursorOK, CursorFresh
<1> QED BY <1>1, <1>2, <1>3, <1>4, CursorInvariant, WriteInvariant, PTL DEF Spec

\* _upload_stream: with block numbers that do not wrap, requests queued behind
\* one the loader answered never run into a second pass over the alternative,
\* whatever the depth of the queues and whatever cursor was left behind.
THEOREM DfuOnePass ==
  ASSUME Numbered
  PROVE  Spec => []OnePass
<1>1. NoSecondPass /\ TypeOK => OnePass
  <2> SUFFICES ASSUME NoSecondPass, TypeOK, op = "upload", size <= PartitionSize,
                      NEW i \in 1 .. Len(replies), NEW j \in 1 .. Len(replies), i < j,
                      {replies[1].kind, replies[i].kind, replies[j].kind} = {"data"}
               PROVE  replies[i].from < replies[j].from
    BY Zenon DEF OnePass
  <2>1. IsData(replies[1]) /\ IsData(replies[i]) /\ IsData(replies[j])
    BY Zenon DEF IsData
  <2>2. Len(replies) > 0
    <3>1. Len(replies) \in Nat
      BY DEF TypeOK
    <3> QED BY <3>1, SMT
  <2> QED BY <2>1, <2>2 DEF NoSecondPass, Trusted, Begun
<1>2. ReadInv => NoSecondPass
  BY DEF ReadInv
<1> QED BY <1>1, <1>2, ReadInvariant, DfuTypeOK, PTL

\* With one write in flight that holds of every read, answered at first or not.
THEOREM DfuOnePassOneWrite ==
  ASSUME Numbered, ~QueueLoader
  PROVE  Spec => [](op = "upload" /\ size <= PartitionSize =>
                      \A i, j \in 1 .. Len(replies) :
                        i < j /\ IsData(replies[i]) /\ IsData(replies[j]) =>
                          replies[i].from < replies[j].from)
<1>1. ReadInv => (op = "upload" /\ size <= PartitionSize =>
                    \A i, j \in 1 .. Len(replies) :
                      i < j /\ IsData(replies[i]) /\ IsData(replies[j]) =>
                        replies[i].from < replies[j].from)
  BY Zenon DEF ReadInv, NoSecondPass, Trusted
<1> QED BY <1>1, ReadInvariant, PTL
=============================================================================
