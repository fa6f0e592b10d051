----------------------------- MODULE TaskEvents_proofs -----------------------------
(***************************************************************************)
(* The relay of task events: a decision is used once, the block the user   *)
(* was asked about is not forgotten, and the page hears the board's events *)
(* in order: for any log, any number of concurrent calls and any schedule  *)
(* of the watcher, the calls and the board.                                *)
(***************************************************************************)
EXTENDS TaskEvents, SequenceTheorems, TLAPS

\* Whoever blocks the task writes the last event.
BlockedIsLast == status = "blocked" => log # <<>> /\ log[Len(log)] \in Blocks

Increasing(s) == \A i, j \in 1 .. Len(s) : i < j => s[i] < s[j]

\* The page has what precedes the list, the list what the watcher has handled.
InOrder ==
  /\ Increasing(published) /\ Increasing(pendingVoice)
  /\ \A i \in 1 .. Len(published), j \in 1 .. Len(pendingVoice) : published[i] < pendingVoice[j]
  /\ \A i \in 1 .. Len(published) : published[i] <= cursor
  /\ \A i \in 1 .. Len(pendingVoice) : pendingVoice[i] <= cursor
  /\ watcher \in {"checking", "notifying"} =>
       /\ \A i \in 1 .. Len(published) : published[i] < cursor
       /\ \A i \in 1 .. Len(pendingVoice) : pendingVoice[i] < cursor
  /\ watcher = "registering" => \A i \in 1 .. Len(published) : published[i] < cursor
  /\ watcher = "new" => published = <<>> /\ pendingVoice = <<>>

\* The event b is the block that asks the user and still stands.
Stands(b) == log[b] = Asking /\ b = Len(log) /\ status = "blocked" /\ Tracked

\* The block that stands is pending once the watcher is done with it.
Remembered ==
  /\ \A i \in 1 .. Len(published) : Stands(published[i]) => pendingBlock = published[i]
  /\ \A i \in 1 .. Len(pendingVoice) :
       Stands(pendingVoice[i]) =>
         pendingBlock = pendingVoice[i] \/ (watcher = "registering" /\ cursor = pendingVoice[i])

\* The lock lets one call in; its block is an event of the board, over when it is resolved.
OneCall ==
  /\ \A c, d \in Callers : call[c] # NoCall /\ call[d] # NoCall => c = d
  /\ \A c \in Callers :
       /\ call[c].at = "idle" <=> call[c] = NoCall
       /\ call[c].block <= Len(log)
       /\ call[c].at = "resolved" => call[c].block < Len(log)

\* A block that was answered is over, and nobody is about to answer it again.
UsedUp ==
  /\ \A i \in 1 .. Len(answers) : answers[i].given < Len(log)
  /\ \A c \in Callers : call[c].at = "unblocking" =>
       \A i \in 1 .. Len(answers) : answers[i].given # call[c].block
  /\ AnswerUsedOnce

IInv == TypeOK /\ BlockedIsLast /\ InOrder /\ Remembered /\ OneCall /\ UsedUp
-----------------------------------------------------------------------------
\* The last event of a blocked task is the block that stands, whatever came before.
LEMMA LatestIsLast ==
  ASSUME TypeOK, BlockedIsLast, status = "blocked"
  PROVE  LatestMove = Len(log) /\ Len(log) \in Nat \ {0}
<1> DEFINE moves == {i \in 1 .. Len(log) : log[i] \in Blocks \cup {"unblocked"}}
<1>1. Len(log) \in Nat \ {0}
  BY EmptySeq, LenProperties DEF TypeOK, BlockedIsLast
<1>2. Len(log) \in moves /\ \A j \in moves : j <= Len(log)
  BY <1>1 DEF BlockedIsLast
<1>3. LatestMove = CHOOSE i \in moves : \A j \in moves : j <= i
  BY <1>2 DEF LatestMove
<1>4. \A i \in moves : (\A j \in moves : j <= i) => i = Len(log)
  BY <1>1, <1>2
<1> HIDE DEF moves
<1> QED BY <1>1, <1>2, <1>3, <1>4

\* Which block is current.
LEMMA CurrentIsLast ==
  ASSUME TypeOK, BlockedIsLast, NEW b
  PROVE  IsCurrentBlock(b) <=> status = "blocked" /\ b = Len(log)
<1>1. CASE status = "blocked"
  BY <1>1, LatestIsLast DEF IsCurrentBlock, BlockedIsLast
<1>2. CASE status # "blocked"
  BY <1>2 DEF IsCurrentBlock
<1> QED BY <1>1, <1>2

\* What is published or queued was handled by the watcher.
LEMMA PositionsHandled ==
  ASSUME IInv
  PROVE  /\ \A i \in 1 .. Len(published) : published[i] \in 0 .. cursor
         /\ \A i \in 1 .. Len(pendingVoice) : pendingVoice[i] \in 0 .. cursor
         /\ cursor \in Nat /\ upto \in Nat /\ Len(log) \in Nat /\ cursor <= upto /\ upto <= Len(log)
<1>1. Len(log) \in Nat
  BY LenProperties DEF IInv, TypeOK
<1>2. /\ \A i \in 1 .. Len(published) : published[i] \in Nat
      /\ \A i \in 1 .. Len(pendingVoice) : pendingVoice[i] \in Nat
  BY ElementOfSeq DEF IInv, TypeOK
<1> QED BY <1>1, <1>2 DEF IInv, TypeOK, InOrder

\* A call and an answer are about an event of the board.
LEMMA AnswersTyped ==
  ASSUME IInv
  PROVE  /\ \A i \in 1 .. Len(answers) : answers[i].given \in Nat
         /\ \A c \in Callers : call[c].block \in Nat /\ call[c].at \in CallSteps
<1>1. \A i \in 1 .. Len(answers) : answers[i] \in [given : Nat, to : Nat]
  BY ElementOfSeq DEF IInv, TypeOK
<1> QED BY <1>1 DEF IInv, TypeOK
-----------------------------------------------------------------------------
LEMMA InitHolds == Init => IInv
<1> SUFFICES ASSUME Init PROVE IInv
  OBVIOUS
<1>1. Len(log) = 0 /\ Len(published) = 0 /\ Len(pendingVoice) = 0 /\ Len(answers) = 0
  BY DEF Init
<1>2. TypeOK
  <2>1. \A S : <<>> \in Seq(S)
    BY EmptySeq
  <2>2. call \in [Callers -> [at : CallSteps, block : Nat]]
    BY DEF Init, NoCall, CallSteps
  <2>3. upto \in 0 .. Len(log) /\ cursor \in 0 .. upto
    BY <1>1 DEF Init
  <2> QED BY <2>1, <2>2, <2>3 DEF Init, TypeOK
<1>3. BlockedIsLast /\ InOrder /\ Remembered
  BY <1>1 DEF Init, BlockedIsLast, InOrder, Increasing, Remembered
<1>4. OneCall /\ UsedUp
  BY <1>1 DEF Init, OneCall, UsedUp, NoCall, AnswerUsedOnce
<1> QED BY <1>2, <1>3, <1>4 DEF IInv
-----------------------------------------------------------------------------
(* The board.                                                               *)

\* A new event is past all that was published, queued or answered, and after an unblock
\* no block stands.
LEMMA LogGrows ==
  ASSUME IInv, NEW e \in Voiced \cup {"crashed", "unblocked"}, log' = Append(log, e),
         status' \in {"running", "blocked", "done"}, status' = "blocked" => e \in Blocks
  PROVE  /\ log' \in Seq(Voiced \cup {"crashed", "unblocked"}) /\ Len(log) \in Nat
         /\ Len(log') = Len(log) + 1 /\ log'[Len(log')] = e /\ BlockedIsLast'
<1>1. /\ log' \in Seq(Voiced \cup {"crashed", "unblocked"}) /\ Len(log) \in Nat
      /\ Len(log') = Len(log) + 1 /\ log'[Len(log) + 1] = e
  BY AppendProperties, LenProperties DEF IInv, TypeOK
<1>2. log' # <<>>
  BY <1>1, EmptySeq
<1> QED BY <1>1, <1>2 DEF BlockedIsLast

LEMMA BoardChangesKeeps == ASSUME IInv, BoardChanges PROVE IInv'
<1>1. PICK e \in Voiced \cup {"crashed", "unblocked"} :
        /\ log' = Append(log, e) /\ status' \in {"running", "blocked", "done"}
        /\ status' = "blocked" => e \in Blocks
  BY DEF BoardChanges, BoardMoves, Voiced, Blocks, Asking, Waiting
<1>2. UNCHANGED <<session, watcher, upto, cursor, terminalSeen, pendingVoice, pendingBlock, call,
                  published, answers, lost>>
  BY DEF BoardChanges, trackVars, historyVars
<1>3. /\ log' \in Seq(Voiced \cup {"crashed", "unblocked"}) /\ Len(log) \in Nat
      /\ Len(log') = Len(log) + 1 /\ BlockedIsLast'
  BY <1>1, LogGrows
<1>4. TypeOK'
  BY <1>1, <1>2, <1>3 DEF IInv, TypeOK
<1>5. InOrder'
  BY <1>2 DEF IInv, InOrder, Increasing
<1>6. \A b \in 0 .. cursor : ~Stands(b)'
  BY <1>2, <1>3 DEF IInv, TypeOK, Stands
<1>7. Remembered'
  BY <1>2, <1>6, PositionsHandled DEF Remembered
<1>8. \A k \in Nat : (k <= Len(log) => k < Len(log')) /\ (k < Len(log) => k < Len(log'))
  BY <1>3
<1>9. OneCall'
  <2>1. \A c \in Callers : call[c].block < Len(log')
    BY <1>8, AnswersTyped DEF IInv, OneCall
  <2> QED BY <1>2, <1>3, <2>1, AnswersTyped DEF IInv, OneCall
<1>10. UsedUp'
  <2>1. \A i \in 1 .. Len(answers) : answers[i].given < Len(log')
    BY <1>8, AnswersTyped DEF IInv, UsedUp
  <2> QED BY <1>2, <2>1 DEF IInv, UsedUp, AnswerUsedOnce
<1> QED BY <1>3, <1>4, <1>5, <1>7, <1>9, <1>10 DEF IInv

LEMMA SessionEndsKeeps == ASSUME IInv, SessionEnds PROVE IInv'
BY DEF SessionEnds, boardVars, trackVars, historyVars, IInv, TypeOK, BlockedIsLast, InOrder,
  Increasing, Remembered, Stands, Tracked, OneCall, UsedUp, AnswerUsedOnce
-----------------------------------------------------------------------------
(* The watcher.                                                             *)

\* A step of the watcher leaves the board, the calls and the answers alone.
LEMMA BoardAndCallsKept ==
  ASSUME IInv, UNCHANGED <<log, status, call, answers>>
  PROVE  BlockedIsLast' /\ OneCall' /\ UsedUp'
BY DEF IInv, BlockedIsLast, OneCall, UsedUp, AnswerUsedOnce

\* A step of the watcher that handles no event.
LEMMA QuietStepHolds ==
  ASSUME IInv,
         UNCHANGED <<log, status, session, terminalSeen, pendingVoice, pendingBlock, call, published,
                     answers>>,
         watcher \notin {"registering", "ended"},
         watcher' \in {"asleep", "reading", "checking", "notifying"},
         upto' \in 0 .. Len(log), cursor' \in 0 .. upto', cursor <= cursor',
         watcher' \in {"checking", "notifying"} =>
           cursor < cursor' \/ (watcher = "checking" /\ cursor' = cursor),
         lost' \subseteq Nat
  PROVE  IInv'
<1>1. /\ \A i \in 1 .. Len(published) : published[i] \in 0 .. cursor
      /\ \A i \in 1 .. Len(pendingVoice) : pendingVoice[i] \in 0 .. cursor
      /\ cursor \in Nat /\ upto \in Nat /\ Len(log) \in Nat /\ cursor <= upto /\ upto <= Len(log)
  BY PositionsHandled
<1>2. TypeOK'
  BY <1>1 DEF IInv, TypeOK
<1>3. InOrder'
  <2>1. /\ Increasing(published)' /\ Increasing(pendingVoice)'
        /\ \A i \in 1 .. Len(published'), j \in 1 .. Len(pendingVoice') :
             published'[i] < pendingVoice'[j]
    BY DEF IInv, InOrder, Increasing
  <2>2. /\ \A i \in 1 .. Len(published') : published'[i] <= cursor'
        /\ \A i \in 1 .. Len(pendingVoice') : pendingVoice'[i] <= cursor'
    BY <1>1
  <2>3. watcher' \in {"checking", "notifying"} =>
          /\ \A i \in 1 .. Len(published') : published'[i] < cursor'
          /\ \A i \in 1 .. Len(pendingVoice') : pendingVoice'[i] < cursor'
    <3>1. CASE cursor < cursor'
      BY <1>1, <3>1
    <3>2. CASE watcher = "checking" /\ cursor' = cursor
      BY <3>2 DEF IInv, InOrder
    <3> QED BY <3>1, <3>2
  <2> QED BY <2>1, <2>2, <2>3 DEF InOrder
<1>4. Remembered'
  <2>1. \A b : Stands(b)' => Stands(b) \/ watcher = "new"
    BY DEF Stands, Tracked
  <2>2. watcher = "new" => Len(published) = 0 /\ Len(pendingVoice) = 0
    BY DEF IInv, InOrder
  <2>3. \A i \in 1 .. Len(published) : Stands(published[i])' => pendingBlock = published[i]
    BY <2>1, <2>2 DEF IInv, Remembered
  <2>4. \A i \in 1 .. Len(pendingVoice) : Stands(pendingVoice[i])' => pendingBlock = pendingVoice[i]
    BY <2>1, <2>2 DEF IInv, Remembered
  <2> QED BY <2>3, <2>4 DEF Remembered
<1> QED BY <1>2, <1>3, <1>4, BoardAndCallsKept DEF IInv

LEMMA QuietStepsKeep ==
  ASSUME IInv, RegisterTask \/ ReadEvents \/ TakeEvent \/ CheckBlock \/ PollFails
  PROVE  IInv'
<1> USE DEF boardVars, trackVars, historyVars
<1>1. cursor \in Nat /\ upto \in Nat /\ Len(log) \in Nat /\ cursor <= upto /\ upto <= Len(log)
      /\ lost \subseteq Nat
  BY PositionsHandled DEF IInv, TypeOK
<1>2. CASE RegisterTask
  BY <1>1, <1>2, QuietStepHolds DEF RegisterTask
<1>3. CASE ReadEvents
  BY <1>1, <1>3, QuietStepHolds DEF ReadEvents
<1>4. CASE TakeEvent
  <2>1. watcher' \in {"reading", "checking", "notifying"}
    BY <1>4 DEF TakeEvent
  <2> QED BY <1>1, <1>4, <2>1, QuietStepHolds DEF TakeEvent
<1>5. CASE CheckBlock
  <2>1. watcher' \in {"reading", "notifying"}
    BY <1>5 DEF CheckBlock
  <2> QED BY <1>1, <1>5, <2>1, QuietStepHolds DEF CheckBlock
<1>6. CASE PollFails
  BY <1>1, <1>6, QuietStepHolds DEF PollFails
<1> QED BY <1>2, <1>3, <1>4, <1>5, <1>6

\* The event goes to the end of the list; a block that asks is pending, or about to be.
LEMMA HandleEventKeeps == ASSUME IInv, HandleEvent PROVE IInv'
<1> USE DEF boardVars, historyVars
<1>1. /\ \A i \in 1 .. Len(published) : published[i] \in 0 .. cursor - 1
      /\ \A i \in 1 .. Len(pendingVoice) : pendingVoice[i] \in 0 .. cursor - 1
      /\ cursor \in Nat /\ upto \in Nat /\ Len(log) \in Nat /\ cursor <= upto /\ upto <= Len(log)
  BY PositionsHandled DEF IInv, InOrder, HandleEvent
<1>2. /\ UNCHANGED <<log, status, session, upto, cursor, call, published, answers, lost>>
      /\ pendingVoice' = pendingVoice \/ pendingVoice' = Append(pendingVoice, cursor)
      /\ watcher' \in {"registering", "reading"} /\ pendingBlock' \in {pendingBlock, cursor}
      /\ terminalSeen' \in BOOLEAN
      /\ log[cursor] = Asking =>
           pendingBlock' = cursor \/ watcher' = "registering"
  BY DEF HandleEvent, IInv, TypeOK
<1>3. /\ pendingVoice' \in Seq(Nat) /\ Len(pendingVoice) \in Nat
      /\ \A i \in 1 .. Len(pendingVoice') :
           \/ i \in 1 .. Len(pendingVoice) /\ pendingVoice'[i] = pendingVoice[i]
           \/ i = Len(pendingVoice) + 1 /\ pendingVoice'[i] = cursor
  <2>1. pendingVoice \in Seq(Nat) /\ Len(pendingVoice) \in Nat
    BY LenProperties DEF IInv, TypeOK
  <2>2. CASE pendingVoice' = pendingVoice
    BY <2>1, <2>2
  <2>3. CASE pendingVoice' = Append(pendingVoice, cursor)
    BY <1>1, <2>1, <2>3, AppendProperties
  <2> QED BY <1>2, <2>2, <2>3
<1>4. TypeOK'
  BY <1>1, <1>2, <1>3 DEF IInv, TypeOK
<1>5. InOrder'
  <2>1. Increasing(published)'
    BY <1>2 DEF IInv, InOrder, Increasing
  <2>2. Increasing(pendingVoice)'
    <3> SUFFICES ASSUME NEW i \in 1 .. Len(pendingVoice'), NEW j \in 1 .. Len(pendingVoice'), i < j
                 PROVE  pendingVoice'[i] < pendingVoice'[j]
      BY DEF Increasing
    <3>1. i \in 1 .. Len(pendingVoice) /\ pendingVoice'[i] = pendingVoice[i]
      BY <1>3
    <3>2. CASE j \in 1 .. Len(pendingVoice) /\ pendingVoice'[j] = pendingVoice[j]
      BY <3>1, <3>2 DEF IInv, InOrder, Increasing
    <3>3. CASE pendingVoice'[j] = cursor
      BY <1>1, <3>1, <3>3
    <3> QED BY <1>3, <3>2, <3>3
  <2>3. \A i \in 1 .. Len(published'), j \in 1 .. Len(pendingVoice') :
          published'[i] < pendingVoice'[j]
    <3> SUFFICES ASSUME NEW i \in 1 .. Len(published), NEW j \in 1 .. Len(pendingVoice')
                 PROVE  published[i] < pendingVoice'[j]
      BY <1>2
    <3>1. CASE j \in 1 .. Len(pendingVoice) /\ pendingVoice'[j] = pendingVoice[j]
      BY <3>1 DEF IInv, InOrder
    <3>2. CASE pendingVoice'[j] = cursor
      BY <1>1, <3>2
    <3> QED BY <1>3, <3>1, <3>2
  <2>4. /\ \A i \in 1 .. Len(published') : published'[i] < cursor'
        /\ \A i \in 1 .. Len(pendingVoice') : pendingVoice'[i] <= cursor'
    BY <1>1, <1>2, <1>3
  <2>5. \A i \in 1 .. Len(published') : published'[i] <= cursor'
    BY <1>1, <1>2
  <2> QED BY <1>2, <2>1, <2>2, <2>3, <2>4, <2>5 DEF InOrder
<1>6. Remembered'
  <2>1. \A b \in 0 .. cursor - 1 : ~Stands(b)'
    BY <1>1, <1>2 DEF Stands
  <2>2. \A i \in 1 .. Len(published') : ~Stands(published[i])'
    BY <1>1, <1>2, <2>1
  <2>3. ASSUME NEW i \in 1 .. Len(pendingVoice'), Stands(pendingVoice[i])'
        PROVE  pendingBlock' = pendingVoice'[i]
                 \/ (watcher' = "registering" /\ cursor' = pendingVoice'[i])
    <3>1. pendingVoice'[i] = cursor
      BY <1>1, <1>3, <2>1, <2>3
    <3>2. log[cursor] = Asking
      BY <1>2, <2>3, <3>1 DEF Stands
    <3> QED BY <1>2, <3>1, <3>2
  <2> QED BY <1>2, <2>2, <2>3 DEF Remembered
<1> QED BY <1>2, <1>4, <1>5, <1>6, BoardAndCallsKept DEF IInv

\* Registering late: the block that stands is the one the watcher holds.
LEMMA RegisterBlockKeeps == ASSUME IInv, RegisterBlock PROVE IInv'
<1> USE DEF boardVars, trackVars, historyVars
<1>1. /\ \A i \in 1 .. Len(published) : published[i] \in 0 .. cursor - 1
      /\ \A i \in 1 .. Len(pendingVoice) : pendingVoice[i] \in 0 .. cursor
      /\ cursor \in Nat /\ Len(log) \in Nat /\ cursor <= Len(log)
  BY PositionsHandled DEF IInv, InOrder, RegisterBlock
<1>2. UNCHANGED <<log, status, session, upto, cursor, terminalSeen, pendingVoice, call, published,
                  answers, lost>> /\ pendingBlock' = cursor /\ watcher' = "reading"
  BY DEF RegisterBlock
<1>3. TypeOK'
  BY <1>1, <1>2 DEF IInv, TypeOK
<1>4. InOrder'
  BY <1>1, <1>2 DEF IInv, InOrder, Increasing
<1>5. Remembered'
  <2>1. \A b \in 0 .. cursor : Stands(b)' => b = cursor
    BY <1>1, <1>2 DEF Stands
  <2> QED BY <1>1, <1>2, <2>1 DEF Remembered
<1> QED BY <1>2, <1>3, <1>4, <1>5, BoardAndCallsKept DEF IInv

\* What a flush makes of the two sequences: every position of the new ones is one of the old.
Flushed(pub, pend, n, all, rest) ==
  /\ rest \in Seq(Nat) /\ all \in Seq(Nat) /\ Len(pub) \in Nat
  /\ \A i \in 1 .. Len(rest) : i + n \in 1 .. Len(pend) /\ rest[i] = pend[i + n]
  /\ \A i \in 1 .. Len(all) :
       \/ i \in 1 .. Len(pub) /\ all[i] = pub[i]
       \/ \E a \in 1 .. Len(pend) : i = Len(pub) + a /\ a <= n /\ all[i] = pend[a]

LEMMA FlushFacts ==
  ASSUME NEW pub \in Seq(Nat), NEW pend \in Seq(Nat), NEW n \in 0 .. Len(pend)
  PROVE  Flushed(pub, pend, n, pub \o SubSeq(pend, 1, n), SubSeq(pend, n + 1, Len(pend)))
<1> DEFINE first == SubSeq(pend, 1, n)
           all == pub \o SubSeq(pend, 1, n)
           rest == SubSeq(pend, n + 1, Len(pend))
<1>1. Len(pub) \in Nat /\ Len(pend) \in Nat
      /\ \A i \in 1 .. Len(pend) : pend[i] \in Nat
  BY LenProperties, ElementOfSeq
<1>2. /\ first \in Seq(Nat) /\ Len(first) = n
      /\ \A i \in 1 .. n : first[i] = pend[i]
  BY <1>1, SubSeqProperties
<1>3. /\ rest \in Seq(Nat) /\ Len(rest) = Len(pend) - n
      /\ \A i \in 1 .. Len(pend) - n : rest[i] = pend[i + n]
  <2>1. \A i \in n + 1 .. Len(pend) : pend[i] \in Nat
    BY <1>1
  <2>2. /\ rest \in Seq(Nat)
        /\ Len(rest) = IF n + 1 <= Len(pend) THEN Len(pend) - (n + 1) + 1 ELSE 0
        /\ \A i \in 1 .. Len(pend) - (n + 1) + 1 : rest[i] = pend[n + 1 + i - 1]
    BY <1>1, <2>1, SubSeqProperties
  <2> QED BY <1>1, <2>2
<1>4. /\ all \in Seq(Nat) /\ Len(all) = Len(pub) + n
      /\ \A i \in 1 .. Len(pub) + n : all[i] = IF i <= Len(pub) THEN pub[i] ELSE first[i - Len(pub)]
  BY <1>2, ConcatProperties
<1> HIDE DEF first, all, rest
<1>5. \A i \in 1 .. Len(rest) : i + n \in 1 .. Len(pend) /\ rest[i] = pend[i + n]
  BY <1>1, <1>3
<1>6. \A i \in 1 .. Len(all) :
        \/ i \in 1 .. Len(pub) /\ all[i] = pub[i]
        \/ \E a \in 1 .. Len(pend) : i = Len(pub) + a /\ a <= n /\ all[i] = pend[a]
  <2> SUFFICES ASSUME NEW i \in 1 .. Len(all), ~(i \in 1 .. Len(pub) /\ all[i] = pub[i])
               PROVE  \E a \in 1 .. Len(pend) : i = Len(pub) + a /\ a <= n /\ all[i] = pend[a]
    OBVIOUS
  <2>0. i > Len(pub)
    BY <1>1, <1>4
  <2>1. /\ i - Len(pub) \in 1 .. n /\ i - Len(pub) \in 1 .. Len(pend)
        /\ i = Len(pub) + (i - Len(pub)) /\ all[i] = first[i - Len(pub)]
    <3>1. i \in 1 .. Len(pub) + n /\ n \in 0 .. Len(pend)
      BY <1>4
    <3>2. all[i] = IF i <= Len(pub) THEN pub[i] ELSE first[i - Len(pub)]
      BY <1>4, <3>1
    <3>3. /\ i - Len(pub) \in 1 .. n /\ i - Len(pub) \in 1 .. Len(pend)
          /\ i = Len(pub) + (i - Len(pub))
      BY <1>1, <2>0, <3>1
    <3>4. ~(i <= Len(pub))
      BY <1>1, <2>0, <3>1
    <3> QED BY <3>2, <3>3, <3>4
  <2>2. first[i - Len(pub)] = pend[i - Len(pub)]
    BY <1>2, <2>1
  <2>3. i - Len(pub) <= n
    BY <1>1, <2>1
  <2>4. /\ i - Len(pub) \in 1 .. Len(pend)
        /\ i = Len(pub) + (i - Len(pub)) /\ i - Len(pub) <= n
        /\ all[i] = pend[i - Len(pub)]
    BY <2>1, <2>2, <2>3, Zenon
  <2> QED BY <2>4, Zenon
<1>7. Flushed(pub, pend, n, all, rest)
  BY <1>1, <1>3, <1>4, <1>5, <1>6 DEF Flushed
<1> QED BY <1>7, Zenon DEF all, rest

LEMMA FlushVoiceKeeps == ASSUME IInv, NEW n \in 0 .. MaxEvents, FlushVoice(n) PROVE IInv'
<1> USE DEF boardVars, trackVars, historyVars
<1>1. /\ \A i \in 1 .. Len(published) : published[i] \in 0 .. cursor
      /\ \A i \in 1 .. Len(pendingVoice) : pendingVoice[i] \in 0 .. cursor
      /\ cursor \in Nat
  BY PositionsHandled
<1>2. /\ UNCHANGED <<log, status, session, upto, cursor, terminalSeen, pendingBlock, call, answers,
                     lost>>
      /\ watcher = "reading" /\ watcher' \in {"ended", "asleep"}
      /\ published \in Seq(Nat) /\ pendingVoice \in Seq(Nat) /\ n \in 0 .. Len(pendingVoice)
  BY DEF FlushVoice, IInv, TypeOK
\* A position of the new sequences is one of the old.
<1>3. /\ published' \in Seq(Nat) /\ pendingVoice' \in Seq(Nat) /\ Len(published) \in Nat
      /\ \A i \in 1 .. Len(pendingVoice') :
           i + n \in 1 .. Len(pendingVoice) /\ pendingVoice'[i] = pendingVoice[i + n]
      /\ \A i \in 1 .. Len(published') :
           \/ i \in 1 .. Len(published) /\ published'[i] = published[i]
           \/ \E a \in 1 .. Len(pendingVoice) :
                i = Len(published) + a /\ a <= n /\ published'[i] = pendingVoice[a]
  <2>1. CASE session
    <3>1. /\ published' = published \o SubSeq(pendingVoice, 1, n)
          /\ pendingVoice' = SubSeq(pendingVoice, n + 1, Len(pendingVoice))
      BY <2>1 DEF FlushVoice
    <3>2. published \in Seq(Nat) /\ pendingVoice \in Seq(Nat) /\ n \in 0 .. Len(pendingVoice)
      BY <1>2
    <3>3. Flushed(published, pendingVoice, n, published \o SubSeq(pendingVoice, 1, n),
                  SubSeq(pendingVoice, n + 1, Len(pendingVoice)))
      BY <3>2, FlushFacts, Zenon
    <3>4. Flushed(published, pendingVoice, n, published', pendingVoice')
      BY <3>1, <3>3, Zenon
    <3> QED BY <3>4 DEF Flushed
  <2>2. CASE ~session
    <3>1. published' = published /\ pendingVoice' = <<>>
      BY <2>2 DEF FlushVoice
    <3>2. Len(published) \in Nat /\ pendingVoice' \in Seq(Nat) /\ Len(pendingVoice') = 0
      BY <1>2, <3>1, LenProperties
    <3> QED BY <1>2, <3>1, <3>2
  <2> QED BY <2>1, <2>2
<1>4. Len(pendingVoice) \in Nat
  BY <1>2, LenProperties
<1>5. TypeOK'
  BY <1>2, <1>3 DEF IInv, TypeOK
<1>6. InOrder'
  <2>0. /\ \A i, j \in 1 .. Len(published) : i < j => published[i] < published[j]
        /\ \A i, j \in 1 .. Len(pendingVoice) : i < j => pendingVoice[i] < pendingVoice[j]
        /\ \A i \in 1 .. Len(published), j \in 1 .. Len(pendingVoice) :
             published[i] < pendingVoice[j]
    BY DEF IInv, InOrder, Increasing
  <2>1. Increasing(published)'
    <3> SUFFICES ASSUME NEW i \in 1 .. Len(published'), NEW j \in 1 .. Len(published'), i < j
                 PROVE  published'[i] < published'[j]
      BY DEF Increasing
    <3>1. CASE j \in 1 .. Len(published) /\ published'[j] = published[j]
      <4>1. i \in 1 .. Len(published) /\ published'[i] = published[i]
        <5>1. ASSUME NEW a \in 1 .. Len(pendingVoice), i = Len(published) + a PROVE FALSE
          BY <1>3, <1>4, <3>1, <5>1
        <5> QED BY <1>3, <5>1
      <4> QED BY <2>0, <3>1, <4>1
    <3>2. ASSUME NEW b \in 1 .. Len(pendingVoice),
                 j = Len(published) + b, published'[j] = pendingVoice[b]
          PROVE  published'[i] < published'[j]
      <4>1. CASE i \in 1 .. Len(published) /\ published'[i] = published[i]
        BY <2>0, <3>2, <4>1
      <4>2. ASSUME NEW a \in 1 .. Len(pendingVoice),
                   i = Len(published) + a, published'[i] = pendingVoice[a]
            PROVE  published'[i] < published'[j]
        <5>1. a < b
          BY <1>3, <1>4, <3>2, <4>2
        <5> QED BY <2>0, <3>2, <4>2, <5>1
      <4> QED BY <1>3, <4>1, <4>2
    <3> QED BY <1>3, <3>1, <3>2
  <2>2. Increasing(pendingVoice)'
    <3> SUFFICES ASSUME NEW i \in 1 .. Len(pendingVoice'), NEW j \in 1 .. Len(pendingVoice'), i < j
                 PROVE  pendingVoice'[i] < pendingVoice'[j]
      BY DEF Increasing
    <3>1. i + n \in 1 .. Len(pendingVoice) /\ j + n \in 1 .. Len(pendingVoice) /\ i + n < j + n
      BY <1>2, <1>3, <1>4
    <3> QED BY <1>3, <2>0, <3>1
  <2>3. \A i \in 1 .. Len(published'), j \in 1 .. Len(pendingVoice') :
          published'[i] < pendingVoice'[j]
    <3> SUFFICES ASSUME NEW i \in 1 .. Len(published'), NEW j \in 1 .. Len(pendingVoice')
                 PROVE  published'[i] < pendingVoice'[j]
      OBVIOUS
    <3>1. j + n \in 1 .. Len(pendingVoice) /\ pendingVoice'[j] = pendingVoice[j + n] /\ j >= 1
      BY <1>3
    <3>2. CASE i \in 1 .. Len(published) /\ published'[i] = published[i]
      BY <2>0, <3>1, <3>2
    <3>3. ASSUME NEW a \in 1 .. Len(pendingVoice), a <= n, published'[i] = pendingVoice[a]
          PROVE  published'[i] < pendingVoice'[j]
      <4>1. a < j + n
        BY <1>2, <1>4, <3>1, <3>3
      <4> QED BY <2>0, <3>1, <3>3, <4>1
    <3> QED BY <1>3, <3>2, <3>3
  <2>4. /\ \A i \in 1 .. Len(published') : published'[i] <= cursor'
        /\ \A i \in 1 .. Len(pendingVoice') : pendingVoice'[i] <= cursor'
    <3>1. \A i \in 1 .. Len(published') : published'[i] \in 0 .. cursor
      BY <1>1, <1>3
    <3>2. \A i \in 1 .. Len(pendingVoice') : pendingVoice'[i] \in 0 .. cursor
      BY <1>1, <1>3
    <3> QED BY <1>1, <1>2, <3>1, <3>2
  <2> QED BY <1>2, <2>1, <2>2, <2>3, <2>4 DEF InOrder
<1>7. Remembered'
  <2>1. \A b : Stands(b)' => Stands(b)
    BY <1>2 DEF Stands, Tracked
  <2>2. /\ \A i \in 1 .. Len(published) : Stands(published[i]) => pendingBlock = published[i]
        /\ \A i \in 1 .. Len(pendingVoice) : Stands(pendingVoice[i]) => pendingBlock = pendingVoice[i]
    BY <1>2 DEF IInv, Remembered
  <2>3. \A i \in 1 .. Len(published') : Stands(published'[i]) => pendingBlock' = published'[i]
    BY <1>2, <1>3, <1>4, <2>2
  <2>4. \A i \in 1 .. Len(pendingVoice') : Stands(pendingVoice'[i]) => pendingBlock' = pendingVoice'[i]
    BY <1>2, <1>3, <2>2
  <2>5. /\ \A i \in 1 .. Len(published') : Stands(published[i])' => Stands(published'[i])
        /\ \A i \in 1 .. Len(pendingVoice') : Stands(pendingVoice[i])' => Stands(pendingVoice'[i])
    BY <1>2 DEF Stands, Tracked
  <2> QED BY <2>3, <2>4, <2>5 DEF Remembered
<1> QED BY <1>2, <1>5, <1>6, <1>7, BoardAndCallsKept DEF IInv

\* A coordinator that was shut down tracks nothing.
LEMMA ShutdownKeeps == ASSUME IInv, Shutdown PROVE IInv'
<1>1. UNCHANGED <<log, status, session, upto, cursor, terminalSeen, pendingVoice, call, published,
                  answers, lost>> /\ watcher' = "ended" /\ pendingBlock' = 0
  BY DEF Shutdown, boardVars, trackVars, historyVars
<1>2. TypeOK'
  BY <1>1 DEF IInv, TypeOK
<1>3. InOrder' /\ Remembered'
  BY <1>1 DEF IInv, InOrder, Increasing, Remembered, Stands, Tracked
<1> QED BY <1>1, <1>2, <1>3, BoardAndCallsKept DEF IInv
-----------------------------------------------------------------------------
(* resolve_permission.                                                      *)

\* A step of a call that holds the lock, or takes it when it is free.
LEMMA CallMoves ==
  ASSUME IInv, NEW c \in Callers, NEW m \in [at : CallSteps \ {"idle"}, block : Nat],
         LockFree \/ call[c] # NoCall, call' = [call EXCEPT ![c] = m],
         m.block <= Len(log), Len(log) <= Len(log'), m.at = "resolved" => m.block < Len(log')
  PROVE  OneCall' /\ call' \in [Callers -> [at : CallSteps, block : Nat]]
<1>1. call' \in [Callers -> [at : CallSteps, block : Nat]] /\ call'[c] = m
      /\ \A d \in Callers : d # c => call'[d] = call[d]
  BY DEF IInv, TypeOK
<1>2. m # NoCall /\ m.at # "idle"
  BY DEF NoCall
<1>3. \A d \in Callers : d # c => call[d] = NoCall
  BY DEF IInv, OneCall, LockFree
<1>4. Len(log) \in Nat /\ Len(log') \in Nat
  BY LenProperties, PositionsHandled DEF IInv, TypeOK
<1>5. \A d \in Callers : call'[d] = NoCall <=> call'[d].at = "idle"
  BY <1>1, <1>2, <1>3 DEF NoCall
<1>6. \A d \in Callers : call'[d].block <= Len(log') /\ (call'[d].at = "resolved" => call'[d].block < Len(log'))
  <2>1. NoCall.block = 0 /\ NoCall.at # "resolved"
    BY DEF NoCall
  <2>2. m.block <= Len(log')
    BY <1>4
  <2> QED BY <1>1, <1>3, <1>4, <2>1, <2>2
<1> QED BY <1>1, <1>3, <1>5, <1>6 DEF OneCall

LEMMA ResolvePermissionKeeps ==
  ASSUME IInv, NEW c \in Callers, NEW b \in 1 .. Len(log), ResolvePermission(c, b)
  PROVE  IInv'
<1>1. /\ UNCHANGED <<log, status, session, watcher, upto, cursor, terminalSeen, pendingVoice,
                     pendingBlock, published, answers, lost>>
      /\ LockFree /\ call' = [call EXCEPT ![c] = [at |-> "checking", block |-> b]]
  BY DEF ResolvePermission, boardVars, trackVars, historyVars
<1> DEFINE m == [at |-> "checking", block |-> b]
<1>2. /\ Len(log) \in Nat /\ Len(log) <= Len(log') /\ m \in [at : CallSteps \ {"idle"}, block : Nat]
      /\ m.block <= Len(log) /\ ~(m.at = "resolved")
  BY <1>1, PositionsHandled DEF CallSteps
<1>3. OneCall' /\ call' \in [Callers -> [at : CallSteps, block : Nat]]
  <2>1. LockFree /\ call' = [call EXCEPT ![c] = m]
    BY <1>1
  <2> HIDE DEF m
  <2> QED BY <1>2, <2>1, CallMoves
<1>4. UsedUp'
  BY <1>1 DEF IInv, TypeOK, UsedUp, AnswerUsedOnce
<1>5. TypeOK' /\ BlockedIsLast' /\ InOrder' /\ Remembered'
  BY <1>1, <1>3 DEF IInv, TypeOK, BlockedIsLast, InOrder, Increasing, Remembered, Stands, Tracked
<1> QED BY <1>3, <1>4, <1>5 DEF IInv

\* A call that ends forgets a block only when that block does not stand.
LEMMA CallEndsHolds ==
  ASSUME IInv, NEW c \in Callers, NEW forgets \in BOOLEAN, CallEnds(c, forgets),
         UNCHANGED <<log, status, session, watcher, upto, cursor, terminalSeen, pendingVoice,
                     published, answers, lost>>,
         forgets => ~Stands(call[c].block)
  PROVE  IInv'
<1>1. /\ call' = [call EXCEPT ![c] = NoCall]
      /\ pendingBlock' = pendingBlock \/ (pendingBlock' = 0 /\ ~Stands(pendingBlock))
  BY DEF CallEnds
<1>2. TypeOK' /\ OneCall'
  <2>1. NoCall \in [at : CallSteps, block : Nat] /\ NoCall.at = "idle" /\ NoCall.block = 0
    BY DEF NoCall, CallSteps
  <2>2. call' \in [Callers -> [at : CallSteps, block : Nat]] /\ call'[c] = NoCall
        /\ \A d \in Callers : d # c => call'[d] = call[d]
    BY <1>1, <2>1 DEF IInv, TypeOK
  <2>3. TypeOK'
    BY <1>1, <2>2 DEF IInv, TypeOK
  <2>4. OneCall'
    BY <2>1, <2>2, PositionsHandled DEF IInv, OneCall
  <2> QED BY <2>3, <2>4
<1>3. BlockedIsLast' /\ InOrder' /\ UsedUp'
  BY <1>1 DEF IInv, TypeOK, BlockedIsLast, InOrder, Increasing, UsedUp, AnswerUsedOnce, NoCall
<1>4. Remembered'
  BY <1>1 DEF IInv, Remembered, Stands, Tracked
<1> QED BY <1>2, <1>3, <1>4 DEF IInv

LEMMA CheckStillBlockedKeeps == ASSUME IInv, NEW c \in Callers, CheckStillBlocked(c) PROVE IInv'
<1> DEFINE b == call[c].block
<1>1. /\ UNCHANGED <<log, status, session, watcher, upto, cursor, terminalSeen, pendingVoice,
                     published, answers, lost>>
      /\ call[c].at = "checking" /\ b \in Nat /\ b <= Len(log)
  BY AnswersTyped DEF CheckStillBlocked, boardVars, trackVars, historyVars, IInv, OneCall
<1>2. IsCurrentBlock(b) <=> status = "blocked" /\ b = Len(log)
  BY CurrentIsLast DEF IInv
<1>3. CASE IsCurrentBlock(b) /\ session
  <2> DEFINE m == [at |-> "unblocking", block |-> b]
  <2>1. call' = [call EXCEPT ![c] = m] /\ UNCHANGED pendingBlock
    BY <1>3 DEF CheckStillBlocked, IInv, TypeOK
  <2>2. m \in [at : CallSteps \ {"idle"}, block : Nat] /\ call[c] # NoCall
        /\ m.block = b /\ m.at = "unblocking"
    BY <1>1 DEF CallSteps, NoCall
  <2> HIDE DEF m
  <2>3. OneCall' /\ call' \in [Callers -> [at : CallSteps, block : Nat]]
    <3>1. Len(log) \in Nat /\ Len(log) <= Len(log') /\ m.block <= Len(log) /\ ~(m.at = "resolved")
      BY <1>1, <2>2, PositionsHandled
    <3> QED BY <2>1, <2>2, <3>1, CallMoves
  <2>4. \A i \in 1 .. Len(answers) : answers[i].given # b
    BY <1>1, <1>2, <1>3, AnswersTyped, PositionsHandled DEF IInv, UsedUp
  <2>5. UsedUp'
    BY <1>1, <2>1, <2>2, <2>4 DEF IInv, TypeOK, UsedUp, AnswerUsedOnce
  <2>6. TypeOK' /\ BlockedIsLast' /\ InOrder' /\ Remembered'
    BY <1>1, <2>1, <2>3 DEF IInv, TypeOK, BlockedIsLast, InOrder, Increasing, Remembered, Stands,
      Tracked
  <2> QED BY <2>3, <2>5, <2>6 DEF IInv
<1>4. CASE ~(IsCurrentBlock(b) /\ session)
  <2>1. CallEnds(c, ~IsCurrentBlock(b)) /\ (~IsCurrentBlock(b) => ~Stands(b))
    BY <1>2, <1>4 DEF CheckStillBlocked, Stands
  <2>2. (~IsCurrentBlock(b)) \in BOOLEAN
    OBVIOUS
  <2> QED BY <1>1, <2>1, <2>2, CallEndsHolds
<1> QED BY <1>3, <1>4

LEMMA CallReturnsKeeps == ASSUME IInv, NEW c \in Callers, CallReturns(c) PROVE IInv'
<1>1. /\ UNCHANGED <<log, status, session, watcher, upto, cursor, terminalSeen, pendingVoice,
                     published, answers, lost>>
      /\ CallEnds(c, call[c].at = "resolved")
  BY DEF CallReturns, boardVars, trackVars, historyVars
<1>2. call[c].at = "resolved" => ~Stands(call[c].block)
  BY AnswersTyped, PositionsHandled DEF IInv, OneCall, Stands
<1>3. (call[c].at = "resolved") \in BOOLEAN
  OBVIOUS
<1> QED BY <1>1, <1>2, <1>3, CallEndsHolds

\* The command of the one call that holds the lock: the board may have moved since the
\* call looked, but its block was given no answer before.
LEMMA UnblockKeeps ==
  ASSUME IInv, NEW c \in Callers, NEW works \in BOOLEAN, NEW reported \in BOOLEAN,
         Unblock(c, works, reported)
  PROVE  IInv'
<1> DEFINE b == call[c].block
           m == [at |-> IF reported THEN "resolved" ELSE "failed", block |-> b]
<1>1. /\ UNCHANGED <<session, watcher, upto, cursor, terminalSeen, pendingVoice, pendingBlock,
                     published, lost>>
      /\ call[c].at = "unblocking" /\ b \in Nat /\ b <= Len(log) /\ call' = [call EXCEPT ![c] = m]
      /\ Len(log) \in Nat
  <2>1. call' = [call EXCEPT ![c] = m]
    <3>1. /\ call \in [Callers -> [at : CallSteps, block : Nat]]
          /\ call' = [call EXCEPT ![c].at = IF reported THEN "resolved" ELSE "failed"]
      BY DEF Unblock, IInv, TypeOK
    <3>2. [call[c] EXCEPT !.at = IF reported THEN "resolved" ELSE "failed"] = m
      BY <3>1
    <3> QED BY <3>1, <3>2
  <2>2. /\ UNCHANGED <<session, watcher, upto, cursor, terminalSeen, pendingVoice, pendingBlock,
                       published, lost>> /\ call[c].at = "unblocking"
    BY DEF Unblock, trackVars
  <2>3. b \in Nat /\ b <= Len(log) /\ Len(log) \in Nat
    BY AnswersTyped, PositionsHandled DEF IInv, OneCall
  <2> QED BY <2>1, <2>2, <2>3
<1>2. /\ call[c] # NoCall /\ m \in [at : CallSteps \ {"idle"}, block : Nat] /\ m.block = b
      /\ (m.at = "resolved" => works)
  BY <1>1 DEF NoCall, CallSteps, Unblock
<1> HIDE DEF m
<1>3. \A d \in Callers : call'[d].at # "unblocking"
  <2>1. \A d \in Callers : d # c => call[d] = NoCall /\ call'[d] = call[d]
    BY <1>1, <1>2 DEF IInv, OneCall, TypeOK
  <2>2. call'[c].at # "unblocking"
    BY <1>1 DEF IInv, TypeOK, m
  <2> QED BY <2>1, <2>2 DEF NoCall
<1>4. CASE ~works
  <2>1. UNCHANGED <<log, status, answers>>
    BY <1>4 DEF Unblock, boardVars
  <2>2. OneCall' /\ call' \in [Callers -> [at : CallSteps, block : Nat]]
    <3>1. m.block <= Len(log) /\ Len(log) <= Len(log') /\ ~(m.at = "resolved")
      BY <1>1, <1>2, <1>4, <2>1
    <3> QED BY <1>1, <1>2, <3>1, CallMoves
  <2>3. UsedUp'
    BY <1>3, <2>1 DEF IInv, UsedUp, AnswerUsedOnce
  <2>4. TypeOK' /\ BlockedIsLast' /\ InOrder' /\ Remembered'
    BY <1>1, <2>1, <2>2 DEF IInv, TypeOK, BlockedIsLast, InOrder, Increasing, Remembered, Stands,
      Tracked
  <2> QED BY <2>2, <2>3, <2>4 DEF IInv
<1>5. CASE works
  <2> DEFINE given == [given |-> b, to |-> LatestMove]
  <2>1. /\ status = "blocked" /\ log' = Append(log, "unblocked") /\ status' = "running"
        /\ answers' = Append(answers, given)
    BY <1>5 DEF Unblock
  <2>2. /\ log' \in Seq(Voiced \cup {"crashed", "unblocked"})
        /\ Len(log') = Len(log) + 1 /\ BlockedIsLast'
    BY <2>1, LogGrows
  <2>3. given \in [given : Nat, to : Nat] /\ given.given = b
    BY <1>1, <2>1, LatestIsLast DEF IInv
  <2> HIDE DEF given
  <2>4. /\ answers' \in Seq([given : Nat, to : Nat]) /\ Len(answers) \in Nat
        /\ Len(answers') = Len(answers) + 1
        /\ \A i \in 1 .. Len(answers) : answers'[i] = answers[i]
        /\ answers'[Len(answers) + 1] = given
    BY <2>1, <2>3, AppendProperties, LenProperties DEF IInv, TypeOK
  <2>5. OneCall' /\ call' \in [Callers -> [at : CallSteps, block : Nat]]
    <3>1. m.block <= Len(log) /\ Len(log) <= Len(log') /\ m.block < Len(log')
      BY <1>1, <1>2, <2>2
    <3> QED BY <1>1, <1>2, <3>1, CallMoves
  <2>6. UsedUp'
    <3>1. \A i \in 1 .. Len(answers) : answers[i].given # b /\ answers[i].given < Len(log)
      BY <1>1 DEF IInv, UsedUp
    <3>0. \A i \in 1 .. Len(answers') :
            \/ i \in 1 .. Len(answers) /\ answers'[i] = answers[i]
            \/ i = Len(answers) + 1 /\ answers'[i].given = b
      BY <2>3, <2>4
    <3>2. \A i \in 1 .. Len(answers') : answers'[i].given < Len(log')
      <4> SUFFICES ASSUME NEW i \in 1 .. Len(answers') PROVE answers'[i].given < Len(log')
        OBVIOUS
      <4>1. CASE i \in 1 .. Len(answers) /\ answers'[i] = answers[i]
        BY <1>1, <2>2, <3>1, <4>1, AnswersTyped
      <4>2. CASE answers'[i].given = b
        BY <1>1, <2>2, <4>2
      <4> QED BY <3>0, <4>1, <4>2
    <3>3. AnswerUsedOnce'
      <4> SUFFICES ASSUME NEW i \in 1 .. Len(answers'), NEW j \in 1 .. Len(answers'),
                          answers'[i].given = answers'[j].given
                   PROVE  i = j
        BY DEF AnswerUsedOnce
      <4>1. CASE i \in 1 .. Len(answers) /\ j \in 1 .. Len(answers)
        BY <2>4, <4>1 DEF IInv, UsedUp, AnswerUsedOnce
      <4>2. CASE i = Len(answers) + 1 /\ answers'[i].given = b
        BY <3>0, <3>1, <4>2
      <4>3. CASE j = Len(answers) + 1 /\ answers'[j].given = b
        BY <3>0, <3>1, <4>3
      <4> QED BY <3>0, <4>1, <4>2, <4>3
    <3> QED BY <1>3, <3>2, <3>3 DEF UsedUp
  <2>7. TypeOK'
    BY <1>1, <2>1, <2>2, <2>4, <2>5 DEF IInv, TypeOK
  <2>8. InOrder' /\ Remembered'
    BY <1>1, <2>1 DEF IInv, InOrder, Increasing, Remembered, Stands
  <2> QED BY <2>2, <2>5, <2>6, <2>7, <2>8 DEF IInv
<1> QED BY <1>4, <1>5
-----------------------------------------------------------------------------
LEMMA StepHolds == IInv /\ [Next]_vars => IInv'
<1> SUFFICES ASSUME IInv, [Next]_vars PROVE IInv'
  OBVIOUS
<1>1. CASE UNCHANGED vars
  BY <1>1 DEF vars, boardVars, trackVars, historyVars, IInv, TypeOK, BlockedIsLast, InOrder,
    Increasing, Remembered, Stands, Tracked, OneCall, UsedUp, AnswerUsedOnce
<1>2. CASE WatcherStep
  BY <1>2, QuietStepsKeep, HandleEventKeeps, RegisterBlockKeeps, FlushVoiceKeeps DEF WatcherStep
<1>3. ASSUME NEW c \in Callers,
             (\E b \in 1 .. Len(log) : ResolvePermission(c, b)) \/ CallStep(c)
      PROVE  IInv'
  BY <1>3, ResolvePermissionKeeps, CheckStillBlockedKeeps, UnblockKeeps, CallReturnsKeeps DEF CallStep
<1> QED BY <1>1, <1>2, <1>3, BoardChangesKeeps, SessionEndsKeeps, QuietStepsKeep, ShutdownKeeps DEF Next

\* The invariant holds in every state of the relay.
THEOREM Inductive == Spec => []IInv
BY InitHolds, StepHolds, PTL DEF Spec

\* Every variable keeps its type, and the watcher never runs ahead of the board.
THEOREM TypeCorrect == Spec => []TypeOK
<1>1. IInv => TypeOK
  BY DEF IInv
<1> QED BY <1>1, Inductive, PTL

\* resolve_permission uses an approval or denial once, also when its command timed out
\* after it had changed the board.
THEOREM SafeAnswer == Spec => []AnswerUsedOnce
<1>1. IInv => AnswerUsedOnce
  BY DEF IInv, UsedUp
<1> QED BY <1>1, Inductive, PTL

\* The coordinator does not forget the block that stands and that the page was told of.
THEOREM SafeQuestion == Spec => []AnswerableWhileAsked
<1>1. IInv => AnswerableWhileAsked
  BY CurrentIsLast DEF IInv, Remembered, Stands, AnswerableWhileAsked
<1> QED BY <1>1, Inductive, PTL

\* _flush_voice publishes every event once and in the board's order.
THEOREM SafeOrder == Spec => []PublishedInOrder
<1>1. IInv => PublishedInOrder
  BY DEF IInv, InOrder, Increasing, PublishedInOrder
<1> QED BY <1>1, Inductive, PTL
=============================================================================
