----------------------------- MODULE WakeListener_proofs -----------------------------
(***************************************************************************)
(* The wake listener reads what was recorded, reports its failures and     *)
(* takes itself down in order: for any ring, any window that fits in it,   *)
(* any number of samples, and every interleaving of the main thread, the   *)
(* audio callback, the worker and the signal.  And what it records is the  *)
(* capture, at any rate and in any buffers.                                *)
(***************************************************************************)
EXTENDS MCWakeListener, SequenceTheorems, WellFoundedInduction, TLAPS

Late == Cleanup \cup Ended
Early == {"start", "armed", "marked", "loop", "stream", "connected"}

\* Samples the write index is past; it moves before the total does.
Indexed == IF writing = "stored" THEN stored - 1 ELSE stored

\* The ring holds the last Capacity samples, each in its slot, and no slot that was
\* reached is empty.
Ring ==
  /\ writing # "no" => stored > 0
  /\ total_written = IF writing = "no" THEN stored ELSE stored - 1
  /\ write_index = Indexed % Capacity
  /\ \A k \in 1 .. stored : stored - k < Capacity => samples[(k - 1) % Capacity] = k
  /\ \A s \in 0 .. Capacity - 1 : s < stored => samples[s] > 0

\* The copy so far is the recording before the index that was read, unless the callback
\* has lapped it.
Scan ==
  /\ window \in Seq(0 .. MaxSamples)
  /\ head <= stored
  /\ worker = "index" => total_written >= Window
  /\ worker \in {"copy", "score"} =>
       /\ head >= Window
       /\ \A i \in 1 .. Len(window) :
            /\ window[i] > 0
            /\ window[i] = head - Window + i \/ stored - head > Capacity - Window
  /\ worker = "copy" => Len(window) < Window
  /\ worker = "score" => Len(window) = Window

\* Enough hits in a row are an activation at once.
Detecting ==
  worker \notin Archiving \cup {"deliver", "handler"} => consecutive_hits < ConsecutiveWindows

\* data.model names what the runtime holds, all of it while the worker scores.
Holding ==
  /\ model = live
  /\ worker \notin {"none", "init", "done"} => model = Handles
  /\ main = "exited" => live = {}

\* What is in the archive between the calls of archive_activation.
Archived ==
  /\ worker = "publish_wav" => archive = {"wav.tmp"}
  /\ worker = "json" => archive = {"wav"}
  /\ worker = "publish_json" => archive = {"wav", "json.tmp"}
  /\ worker \notin {"publish_wav", "json", "publish_json"} => archive \in {{}, {"wav", "json"}}

\* What the main thread, the callbacks and the worker may count on of each other, and how
\* `running`, `failed` and the exit status remember the first stop and the failures.
Control ==
  /\ main \in {"start", "armed"} => stop = "none"
  /\ main \notin {"start", "armed", "joining"} \cup Late => (running <=> stop = "none")
  /\ main \notin Late => exit = 0 /\ (failed <=> faults # {})
  /\ main \in Late => worker \in {"none", "done"} /\ (exit = 1 <=> faults # {})
  /\ main \in Early => worker = "none"
  /\ main \in Early \ {"connected"} => stream = "off"
  /\ writing # "no" => stream \in {"streaming", "failed"}
  /\ main \in Late \ {"cleanup_stream"} => writing = "no" /\ stream \in {"off", "destroyed"}
  /\ loop = "destroyed" => main \in {"cleanup"} \cup Ended

IInv == TypeOK /\ Ring /\ Scan /\ Detecting /\ Holding /\ Archived /\ Control
-----------------------------------------------------------------------------
(* Positions in a ring.                                                     *)

LEMMA ModUnique ==
  ASSUME NEW c \in Nat \ {0}, NEW q \in Nat, NEW r \in 0 .. c - 1
  PROVE  (c * q + r) % c = r
OBVIOUS

LEMMA ModParts ==
  ASSUME NEW c \in Nat \ {0}, NEW a \in Nat
  PROVE  a \div c \in Nat /\ a % c \in 0 .. c - 1 /\ a = c * (a \div c) + (a % c)
OBVIOUS

LEMMA ModSmall == ASSUME NEW c \in Nat \ {0}, NEW a \in 0 .. c - 1 PROVE a % c = a
OBVIOUS

\* The next slot.
LEMMA ModNext ==
  ASSUME NEW c \in Nat \ {0}, NEW a \in Nat
  PROVE  ((a % c) + 1) % c = (a + 1) % c
<1> DEFINE q == a \div c
           r == a % c
<1>1. q \in Nat /\ r \in 0 .. c - 1 /\ a = c * q + r
  BY ModParts
<1> HIDE DEF q, r
<1>2. CASE r + 1 < c
  <2>1. r + 1 \in 0 .. c - 1 /\ a + 1 = c * q + (r + 1)
    BY <1>1, <1>2
  <2>2. (c * q + (r + 1)) % c = r + 1 /\ (r + 1) % c = r + 1
    BY <1>1, <2>1, ModUnique, ModSmall
  <2> QED BY <2>1, <2>2 DEF r
<1>3. CASE r + 1 = c
  <2>1. q + 1 \in Nat /\ 0 \in 0 .. c - 1 /\ a + 1 = c * (q + 1) + 0 /\ c = c * 1 + 0
    BY <1>1, <1>3
  <2>2. (c * (q + 1) + 0) % c = 0 /\ (c * 1 + 0) % c = 0
    BY <2>1, ModUnique
  <2> QED BY <1>3, <2>1, <2>2 DEF r
<1> QED BY <1>1, <1>2, <1>3

\* Samples less than a ring apart are in different slots.
LEMMA ModApart ==
  ASSUME NEW c \in Nat \ {0}, NEW a \in Nat, NEW b \in Nat, a < b, b < a + c
  PROVE  a % c # b % c
<1> SUFFICES ASSUME a % c = b % c PROVE FALSE
  OBVIOUS
<1> DEFINE p == a \div c
           q == b \div c
           r == a % c
<1>1. p \in Nat /\ q \in Nat /\ r \in 0 .. c - 1 /\ a = c * p + r /\ b = c * q + r
  <2>1. p \in Nat /\ r \in 0 .. c - 1 /\ a = c * p + r
    BY ModParts
  <2>2. q \in Nat /\ b = c * q + (b % c)
    BY ModParts
  <2> QED BY <2>1, <2>2
<1> HIDE DEF p, q, r
<1>2. CASE q <= p
  <2>1. c * q <= c * p
    BY <1>1, <1>2
  <2> QED BY <1>1, <2>1
<1>3. CASE q >= p + 1
  <2>1. c * q >= c * (p + 1) /\ c * (p + 1) = c * p + c
    BY <1>1, <1>3
  <2> QED BY <1>1, <2>1
<1> QED BY <1>1, <1>2, <1>3

\* ring_snapshot_latest counts back from the write index without going below zero.
LEMMA ModBack ==
  ASSUME NEW c \in Nat \ {0}, NEW a \in Nat, NEW m \in 0 .. c - 1, a + m >= c
  PROVE  ((a % c) + m) % c = (a + m - c) % c
<1> DEFINE q == a \div c
           r == a % c
<1>1. q \in Nat /\ r \in 0 .. c - 1 /\ a = c * q + r
  BY ModParts
<1> HIDE DEF q, r
<1>2. CASE r + m < c
  <2>1. q # 0
    BY <1>1, <1>2
  <2>2. q - 1 \in Nat /\ r + m \in 0 .. c - 1 /\ a + m - c = c * (q - 1) + (r + m)
    BY <1>1, <1>2, <2>1
  <2>3. (c * (q - 1) + (r + m)) % c = r + m /\ (r + m) % c = r + m
    BY <2>2, ModUnique, ModSmall
  <2> QED BY <2>2, <2>3 DEF r
<1>3. CASE r + m >= c
  <2>1. r + m - c \in 0 .. c - 1 /\ a + m - c = c * q + (r + m - c) /\ r + m = c * 1 + (r + m - c)
    BY <1>1, <1>3
  <2>2. (c * q + (r + m - c)) % c = r + m - c /\ (c * 1 + (r + m - c)) % c = r + m - c
    BY <1>1, <2>1, ModUnique
  <2> QED BY <2>1, <2>2 DEF r
<1> QED BY <1>1, <1>2, <1>3
-----------------------------------------------------------------------------
(* Who changes what.                                                        *)

\* The steps of the worker that do not end it: they leave main, the loop, the stream and
\* the ring alone.
WorkerWorks ==
  /\ worker \notin {"none", "done"} /\ worker' # "none"
  /\ UNCHANGED <<configVars, mainVars, flagVars, stream, ringVars>>

LEMMA WorkerFrame == ASSUME WorkerStep PROVE WorkerFails \/ WorkerWorks
<1> USE DEF WorkerWorks
<1>1. CASE WorkerStarts
  BY <1>1 DEF WorkerStarts
<1>2. CASE WorkerIterates
  BY <1>2 DEF WorkerIterates
<1>3. CASE WorkerWakes \/ WorkerLeaves
  BY <1>3 DEF WorkerWakes, WorkerLeaves
<1>4. CASE ReadTotal \/ ReadIndex \/ CopySample
  BY <1>4 DEF ReadTotal, ReadIndex, CopySample
<1>5. ASSUME NEW scored \in BOOLEAN, NEW hit \in BOOLEAN, Score(scored, hit) PROVE WorkerWorks
  BY <1>5 DEF Score
<1>6. CASE Archive
  BY <1>6 DEF Archive, ArchiveStep
<1>7. CASE ArchiveClipFails \/ ArchiveMetadataFails
  BY <1>7 DEF ArchiveClipFails, ArchiveMetadataFails, ArchiveStep
<1>8. ASSUME NEW worked \in BOOLEAN, PrintActivation(worked) \/ HandlerReturns(worked)
      PROVE  WorkerWorks
  BY <1>8 DEF PrintActivation, HandlerReturns, Delivered
<1>9. CASE HandlerFails \/ StartHandler
  BY <1>9 DEF HandlerFails, StartHandler, Delivered
<1> QED BY <1>1, <1>2, <1>3, <1>4, <1>5, <1>6, <1>7, <1>8, <1>9 DEF WorkerStep

\* A step of main or a signal touches neither the ring nor what the worker scans, and only
\* main's last step the model.
LEMMA MainFrame ==
  ASSUME RequestStop \/ MainStep
  PROVE  /\ UNCHANGED <<configVars, ringVars, scanVars, detectVars, timeVars, archive>>
         /\ StartWorker \/ worker' = worker
         /\ Exit \/ UNCHANGED <<model, live, statusVars>>
<1> USE DEF workerVars, modelVars, fileVars, configVars
<1>1. CASE RequestStop
  BY <1>1 DEF RequestStop
<1>2. CASE InstallSignalHandlers \/ MarkRunning \/ CreateLoop \/ CreateStream
  BY <1>2 DEF InstallSignalHandlers, MarkRunning, CreateLoop, CreateStream
<1>3. CASE ConnectStream \/ StartWorker \/ RunLoop
  BY <1>3 DEF ConnectStream, StartWorker, RunLoop
<1>4. CASE MainFails
  BY <1>4 DEF MainFails, SetupFails
<1>5. CASE LeaveLoop \/ ClearRunning \/ JoinWorker
  BY <1>5 DEF LeaveLoop, ClearRunning, JoinWorker
<1>6. CASE DestroyStream \/ DestroyRing \/ DestroyLoop \/ Exit
  BY <1>6 DEF DestroyStream, DestroyRing, DestroyLoop, Exit
<1> QED BY <1>1, <1>2, <1>3, <1>4, <1>5, <1>6 DEF MainStep
-----------------------------------------------------------------------------
(* The ring.                                                                *)

LEMMA RingFrame ==
  ASSUME [Next]_vars
  PROVE  StoreSample \/ PublishIndex \/ PublishTotal \/ UNCHANGED ringVars
<1>1. CASE UNCHANGED vars
  BY <1>1 DEF vars
<1>2. CASE WorkerFails
  BY <1>2 DEF WorkerFails
<1> QED BY <1>1, <1>2, MainFrame, WorkerFrame
  DEF Next, StreamStep, RingStep, WorkerWorks, StreamFails, NegotiateFormat, Tick

LEMMA StoreSampleRing == ASSUME IInv, StoreSample PROVE Ring'
<1> DEFINE slot == stored % Capacity
<1>1. /\ writing = "no" /\ writing' = "stored" /\ stored' = stored + 1
      /\ UNCHANGED <<write_index, total_written>> /\ samples' = [samples EXCEPT ![slot] = stored + 1]
      /\ write_index = slot /\ total_written = stored
  BY DEF StoreSample, IInv, Ring, Indexed
<1>2. stored \in Nat /\ Capacity \in Nat \ {0} /\ slot \in 0 .. Capacity - 1
      /\ samples \in [0 .. Capacity - 1 -> 0 .. MaxSamples]
  <2>1. stored \in Nat /\ Capacity \in Nat \ {0}
    BY RingAssumption, DetectorAssumption DEF IInv, TypeOK
  <2>2. stored % Capacity \in 0 .. Capacity - 1
    BY <2>1, ModParts
  <2>3. samples \in [0 .. Capacity - 1 -> 0 .. MaxSamples]
    BY DEF IInv, TypeOK
  <2> QED BY <2>1, <2>2, <2>3
<1>3. ASSUME NEW k \in 1 .. stored', stored' - k < Capacity
      PROVE  samples'[(k - 1) % Capacity] = k
  <2>1. CASE k = stored + 1
    BY <1>1, <1>2, <2>1
  <2>2. CASE k \in 1 .. stored
    <3>1. k - 1 \in Nat /\ k - 1 < stored /\ stored < k - 1 + Capacity /\ stored - k < Capacity
      BY <1>1, <1>2, <1>3, <2>2
    <3>2. (k - 1) % Capacity # slot /\ (k - 1) % Capacity \in 0 .. Capacity - 1
      BY <1>2, <3>1, ModApart, ModParts
    <3>3. samples[(k - 1) % Capacity] = k
      BY <2>2, <3>1 DEF IInv, Ring
    <3> QED BY <1>1, <1>2, <3>2, <3>3
  <2> QED BY <1>1, <1>2, <2>1, <2>2
<1>4. ASSUME NEW s \in 0 .. Capacity - 1, s < stored' PROVE samples'[s] > 0
  <2>1. CASE s = slot
    BY <1>1, <1>2, <2>1
  <2>2. CASE s # slot
    <3>1. s < stored
      <4>1. s # stored
        BY <1>2, <2>2, ModSmall
      <4> QED BY <1>1, <1>2, <1>4, <4>1
    <3>2. samples[s] > 0
      BY <3>1 DEF IInv, Ring
    <3> QED BY <1>1, <1>2, <2>2, <3>2
  <2> QED BY <2>1, <2>2
<1>5. Indexed' = stored /\ stored' > 0 /\ stored' - 1 = stored
  BY <1>1, <1>2 DEF Indexed
<1> QED BY <1>1, <1>2, <1>3, <1>4, <1>5 DEF Ring

LEMMA RingKeeps == ASSUME IInv, [Next]_vars PROVE Ring'
<1> USE RingAssumption
<1>1. Ring /\ stored \in Nat /\ total_written \in Nat /\ writing \in {"no", "stored", "indexed"}
      /\ Capacity \in Nat \ {0}
  BY DEF IInv, TypeOK
<1>2. CASE PublishIndex
  <2>1. /\ writing = "stored" /\ writing' = "indexed" /\ UNCHANGED <<samples, total_written, stored>>
        /\ write_index' = (write_index + 1) % Capacity
    BY <1>2 DEF PublishIndex
  <2>2. stored > 0 /\ write_index = (stored - 1) % Capacity /\ stored - 1 \in Nat
        /\ (stored - 1) + 1 = stored
    BY <1>1, <2>1 DEF Ring, Indexed
  <2>3. write_index' = stored % Capacity
    BY <1>1, <2>1, <2>2, ModNext
  <2> QED BY <1>1, <2>1, <2>2, <2>3 DEF Ring, Indexed
<1>3. CASE PublishTotal
  BY <1>1, <1>3 DEF PublishTotal, Ring, Indexed
<1>4. CASE UNCHANGED ringVars
  BY <1>1, <1>4 DEF ringVars, Ring, Indexed
<1> QED BY <1>2, <1>3, <1>4, RingFrame, StoreSampleRing
-----------------------------------------------------------------------------
(* The window.                                                              *)

\* The counters of the ring only grow.
LEMMA RingGrows ==
  ASSUME IInv, [Next]_vars
  PROVE  stored \in Nat /\ stored' \in Nat /\ stored <= stored'
         /\ total_written \in Nat /\ total_written' \in Nat /\ total_written <= total_written'
<1>1. stored \in Nat /\ total_written \in Nat
  BY DetectorAssumption DEF IInv, TypeOK
<1> QED BY <1>1, RingFrame DEF StoreSample, PublishIndex, PublishTotal, ringVars

\* What is lapped stays lapped.
LEMMA LappedStays ==
  ASSUME NEW a \in Nat, NEW b \in Nat, a <= b, NEW h \in Nat, NEW c \in Nat, NEW w \in Nat,
         a - h > c - w
  PROVE  b - h > c - w
OBVIOUS

\* Whoever is not at the window leaves the copy as good as it was.
LEMMA ScanStays ==
  ASSUME IInv, [Next]_vars, UNCHANGED scanVars,
         worker' = worker \/ worker' \notin {"index", "copy", "score"}
  PROVE  Scan'
<1>1. /\ stored \in Nat /\ stored' \in Nat /\ stored <= stored' /\ head \in Nat /\ window' = window
      /\ total_written \in Nat /\ total_written' \in Nat /\ total_written <= total_written'
      /\ head' = head /\ Scan
  BY RingGrows, DetectorAssumption DEF IInv, TypeOK, scanVars
<1>2. ASSUME worker' \in {"copy", "score"}, NEW i \in 1 .. Len(window)
      PROVE  /\ window[i] > 0
             /\ window[i] = head - Window + i \/ stored' - head > Capacity - Window
  <2>1. /\ window[i] > 0
        /\ window[i] = head - Window + i \/ stored - head > Capacity - Window
    BY <1>1, <1>2 DEF Scan
  <2>2. Window \in Nat /\ Capacity \in Nat
    BY RingAssumption
  <2>3. CASE stored - head > Capacity - Window
    <3>1. stored' - head > Capacity - Window
      BY <1>1, <2>2, <2>3, LappedStays
    <3> QED BY <2>1, <3>1
  <2>4. CASE window[i] = head - Window + i
    BY <2>1, <2>4
  <2> QED BY <2>1, <2>3, <2>4
<1>3. /\ window' \in Seq(0 .. MaxSamples) /\ head' <= stored'
      /\ worker' = "index" => total_written' >= Window
      /\ worker' \in {"copy", "score"} => head' >= Window
      /\ worker' = "copy" => Len(window') < Window
      /\ worker' = "score" => Len(window') = Window
  BY <1>1, RingAssumption DEF Scan
<1> QED BY <1>1, <1>2, <1>3 DEF Scan

LEMMA CopySampleScan == ASSUME IInv, CopySample PROVE Scan'
<1> DEFINE i == Len(window) + 1
           k == head - Window + i
           m == Capacity - Window + i - 1
<1>1. /\ worker = "copy" /\ Scan /\ Ring /\ window \in Seq(0 .. MaxSamples) /\ Len(window) \in Nat
      /\ stored \in Nat /\ head \in Nat /\ head <= stored /\ head >= Window /\ Len(window) < Window
      /\ Window \in Nat \ {0} /\ Capacity \in Nat \ {0} /\ Window <= Capacity
  BY RingAssumption, DetectorAssumption, LenProperties DEF CopySample, IInv, TypeOK, Scan
<1>2. /\ UNCHANGED <<head, stored, total_written>> /\ window' = Append(window, samples[Slot(i)])
      /\ worker' = IF Len(window') = Window THEN "score" ELSE "copy"
  BY DEF CopySample, ringVars
<1>3. i \in 1 .. Window /\ m \in 0 .. Capacity - 1 /\ head + m >= Capacity /\ k \in 1 .. head
      /\ head + m - Capacity = k - 1
  BY <1>1
<1>4. Slot(i) = (k - 1) % Capacity
  <2>1. (((head % Capacity) + m) % Capacity) = ((head + m - Capacity) % Capacity)
    BY <1>1, <1>3, ModBack
  <2>2. head % Capacity \in Nat
    BY <1>1, ModParts
  <2>3. (head % Capacity) + Capacity - Window + i - 1 = (head % Capacity) + m
    BY <1>1, <1>3, <2>2
  <2> QED BY <1>3, <2>1, <2>3 DEF Slot
<1>5. Slot(i) \in 0 .. Capacity - 1 /\ samples[Slot(i)] \in 0 .. MaxSamples
  <2>1. k - 1 \in Nat
    BY <1>3
  <2>2. (k - 1) % Capacity \in 0 .. Capacity - 1
    BY <1>1, <2>1, ModParts
  <2> QED BY <1>4, <2>2 DEF IInv, TypeOK
<1>6. samples[Slot(i)] > 0
  <2>1. CASE k - 1 < Capacity
    <3>1. Slot(i) = k - 1 /\ k - 1 < stored
      <4>1. k - 1 \in 0 .. Capacity - 1 /\ k - 1 < stored
        BY <1>1, <1>3, <2>1
      <4> QED BY <1>1, <1>4, <4>1, ModSmall
    <3> QED BY <1>1, <1>5, <3>1 DEF Ring
  <2>2. CASE k - 1 >= Capacity
    <3>1. Slot(i) < stored
      BY <1>1, <1>3, <1>5, <2>2
    <3> QED BY <1>1, <1>5, <3>1 DEF Ring
  <2> QED BY <1>1, <1>3, <2>1, <2>2
<1>7. samples[Slot(i)] = k \/ stored - head > Capacity - Window
  <2> SUFFICES ASSUME stored - head <= Capacity - Window PROVE samples[Slot(i)] = k
    BY <1>1
  <2>1. k \in 1 .. stored /\ stored - k < Capacity
    BY <1>1, <1>3
  <2> QED BY <1>1, <1>4, <2>1 DEF Ring
<1>8. /\ window' \in Seq(0 .. MaxSamples) /\ Len(window') = i
      /\ \A j \in 1 .. Len(window) : window'[j] = window[j]
      /\ window'[i] = samples[Slot(i)]
  BY <1>1, <1>2, <1>5, AppendProperties
<1>9. ASSUME NEW j \in 1 .. Len(window')
      PROVE  /\ window'[j] > 0
             /\ window'[j] = head - Window + j \/ stored - head > Capacity - Window
  <2>1. CASE j = i
    BY <1>6, <1>7, <1>8, <2>1
  <2>2. CASE j \in 1 .. Len(window)
    BY <1>1, <1>8, <2>2 DEF Scan
  <2> QED BY <1>1, <1>8, <2>1, <2>2
<1> HIDE DEF i, k, m
<1> QED BY <1>1, <1>2, <1>3, <1>8, <1>9 DEF Scan

LEMMA ScanKeeps == ASSUME IInv, [Next]_vars PROVE Scan'
<1>1. /\ stored \in Nat /\ head \in Nat /\ Scan /\ Ring /\ total_written \in Nat
      /\ writing \in {"no", "stored", "indexed"} /\ Window \in Nat \ {0} /\ MaxSamples \in Nat
  BY RingAssumption, DetectorAssumption DEF IInv, TypeOK
<1>2. <<>> \in Seq(0 .. MaxSamples) /\ Len(<<>>) = 0
  BY EmptySeq
<1>3. CASE ReadTotal
  BY <1>1, <1>3 DEF ReadTotal, Scan, ringVars, scanVars
<1>4. CASE ReadIndex
  <2>1. /\ total_written >= Window /\ head' = Indexed /\ UNCHANGED <<stored, total_written>>
        /\ worker' = "copy" /\ window' = <<>>
    BY <1>1, <1>4 DEF ReadIndex, Scan, Indexed, ringVars
  <2>2. Indexed >= Window /\ Indexed <= stored
    BY <1>1, <2>1 DEF Ring, Indexed
  <2> QED BY <1>1, <1>2, <2>1, <2>2 DEF Scan
<1>5. ASSUME NEW scored \in BOOLEAN, NEW hit \in BOOLEAN, Score(scored, hit) PROVE Scan'
  BY <1>1, <1>2, <1>5 DEF Score, Scan, ringVars
<1>6. CASE RequestStop \/ MainStep
  <2>1. UNCHANGED scanVars /\ (worker' = worker \/ worker' = "init")
    BY <1>6, MainFrame DEF StartWorker
  <2> QED BY <2>1, ScanStays
<1>7. CASE StreamStep \/ RingStep \/ Tick \/ UNCHANGED vars
  <2>1. UNCHANGED scanVars /\ worker' = worker
    BY <1>7 DEF StreamStep, RingStep, StreamFails, NegotiateFormat, StoreSample, PublishIndex,
      PublishTotal, Tick, vars, workerVars, scanVars
  <2> QED BY <2>1, ScanStays
<1>8. CASE WorkerFails \/ WorkerStarts \/ WorkerIterates \/ WorkerWakes \/ WorkerLeaves
  <2>1. UNCHANGED scanVars /\ worker' \notin {"index", "copy", "score"}
    BY <1>8 DEF WorkerFails, WorkerStarts, WorkerIterates, WorkerWakes, WorkerLeaves
  <2> QED BY <2>1, ScanStays
<1>9. CASE Archive \/ ArchiveClipFails \/ ArchiveMetadataFails \/ HandlerFails \/ StartHandler
           \/ \E worked \in BOOLEAN : PrintActivation(worked) \/ HandlerReturns(worked)
  <2>1. UNCHANGED scanVars /\ worker' \notin {"index", "copy", "score"}
    BY <1>9 DEF Archive, ArchiveClipFails, ArchiveMetadataFails, ArchiveStep, HandlerFails,
      StartHandler, PrintActivation, HandlerReturns, Delivered
  <2> QED BY <2>1, ScanStays
<1> QED BY <1>3, <1>4, <1>5, <1>6, <1>7, <1>8, <1>9, CopySampleScan DEF Next, WorkerStep
-----------------------------------------------------------------------------
(* The worker.                                                              *)

\* Steps of the others, which see the worker where it was or start it.
LEMMA OthersFrame ==
  ASSUME RequestStop \/ MainStep \/ StreamStep \/ RingStep \/ Tick \/ UNCHANGED vars
  PROVE  /\ worker' = worker \/ StartWorker
         /\ UNCHANGED <<scanVars, detectVars, archive>>
         /\ Exit \/ UNCHANGED <<model, live, statusVars>>
BY MainFrame DEF StreamStep, RingStep, StreamFails, NegotiateFormat, StoreSample, PublishIndex,
  PublishTotal, Tick, vars, workerVars, fileVars, modelVars

LEMMA StartsIdle == ASSUME IInv, StartWorker PROVE worker = "none" /\ worker' = "init"
BY DEF IInv, Control, Early, StartWorker

LEMMA DetectingKeeps == ASSUME IInv, [Next]_vars PROVE Detecting'
<1> USE DEF Detecting, Archiving
<1>1. Detecting /\ consecutive_hits \in Nat /\ ConsecutiveWindows \in Nat \ {0}
  BY DetectorAssumption DEF IInv, TypeOK
<1>2. CASE RequestStop \/ MainStep \/ StreamStep \/ RingStep \/ Tick \/ UNCHANGED vars
  BY <1>1, <1>2, OthersFrame, StartsIdle DEF detectVars
<1>3. CASE WorkerFails \/ WorkerStarts \/ WorkerIterates \/ WorkerWakes \/ WorkerLeaves
  BY <1>1, <1>3 DEF WorkerFails, WorkerStarts, WorkerIterates, WorkerWakes, WorkerLeaves, detectVars
<1>4. CASE ReadTotal \/ ReadIndex \/ CopySample
  BY <1>1, <1>4 DEF ReadTotal, ReadIndex, CopySample, detectVars
<1>5. ASSUME NEW scored \in BOOLEAN, NEW hit \in BOOLEAN, Score(scored, hit) PROVE Detecting'
  BY <1>1, <1>5 DEF Score
<1>6. CASE Archive \/ ArchiveClipFails \/ ArchiveMetadataFails
  BY <1>1, <1>6 DEF Archive, ArchiveClipFails, ArchiveMetadataFails, ArchiveStep, detectVars
<1>7. CASE HandlerFails \/ StartHandler
           \/ \E worked \in BOOLEAN : PrintActivation(worked) \/ HandlerReturns(worked)
  BY <1>1, <1>7 DEF HandlerFails, StartHandler, PrintActivation, HandlerReturns, Delivered, detectVars
<1> QED BY <1>2, <1>3, <1>4, <1>5, <1>6, <1>7 DEF Next, WorkerStep

LEMMA ArchivedKeeps == ASSUME IInv, [Next]_vars PROVE Archived'
<1> USE DEF Archived
<1>1. Archived
  BY DEF IInv
<1>2. CASE RequestStop \/ MainStep \/ StreamStep \/ RingStep \/ Tick \/ UNCHANGED vars
  BY <1>1, <1>2, OthersFrame, StartsIdle
<1>3. CASE WorkerFails \/ WorkerStarts \/ WorkerIterates \/ WorkerWakes \/ WorkerLeaves
  BY <1>1, <1>3 DEF WorkerFails, WorkerStarts, WorkerIterates, WorkerWakes, WorkerLeaves, fileVars
<1>4. CASE ReadTotal \/ ReadIndex \/ CopySample
  BY <1>1, <1>4 DEF ReadTotal, ReadIndex, CopySample, fileVars
<1>5. ASSUME NEW scored \in BOOLEAN, NEW hit \in BOOLEAN, Score(scored, hit) PROVE Archived'
  BY <1>1, <1>5 DEF Score, fileVars
<1>6. CASE Archive \/ ArchiveClipFails
  BY <1>1, <1>6 DEF Archive, ArchiveClipFails, ArchiveStep
<1>7. CASE ArchiveMetadataFails
  BY <1>1, <1>7 DEF ArchiveMetadataFails, ArchiveStep
<1>8. CASE HandlerFails \/ StartHandler
           \/ \E worked \in BOOLEAN : PrintActivation(worked) \/ HandlerReturns(worked)
  BY <1>1, <1>8 DEF HandlerFails, StartHandler, PrintActivation, HandlerReturns, Delivered, fileVars
<1> QED BY <1>2, <1>3, <1>4, <1>5, <1>6, <1>7, <1>8 DEF Next, WorkerStep

\* A worker that is not done finds main before its clean-up.
LEMMA HoldingKeeps == ASSUME IInv, [Next]_vars PROVE Holding'
<1> USE DEF Holding
<1>1. /\ Holding /\ (main = "exited" => worker \in {"none", "done"})
  BY DEF IInv, Control, Late, Ended
<1>2. CASE Exit
  BY <1>1, <1>2 DEF Exit, ReleaseModel, IInv, Control, Late, Cleanup
<1>3. CASE RequestStop \/ MainStep \/ StreamStep \/ RingStep \/ Tick \/ UNCHANGED vars
  <2>1. main' # "exited" \/ main = "exited" \/ Exit
    BY <1>3 DEF RequestStop, MainStep, InstallSignalHandlers, MarkRunning, CreateLoop, CreateStream,
      ConnectStream, StartWorker, RunLoop, MainFails, SetupFails, LeaveLoop, ClearRunning, JoinWorker,
      DestroyStream, DestroyRing, DestroyLoop, StreamStep, RingStep, StreamFails, NegotiateFormat,
      StoreSample, PublishIndex, PublishTotal, Tick, vars, mainVars
  <2> QED BY <1>1, <1>2, <1>3, <2>1, OthersFrame DEF StartWorker
<1>4. CASE WorkerFails
  BY <1>1, <1>4 DEF WorkerFails, mainVars
<1>5. CASE WorkerStarts \/ WorkerIterates \/ WorkerWakes \/ WorkerLeaves
  BY <1>1, <1>5 DEF WorkerStarts, WorkerIterates, WorkerWakes, WorkerLeaves, ReleaseModel, modelVars,
    mainVars
<1>6. CASE ReadTotal \/ ReadIndex \/ CopySample
  BY <1>1, <1>6 DEF ReadTotal, ReadIndex, CopySample, modelVars, mainVars
<1>7. ASSUME NEW scored \in BOOLEAN, NEW hit \in BOOLEAN, Score(scored, hit) PROVE Holding'
  BY <1>1, <1>7 DEF Score, modelVars, mainVars
<1>8. CASE Archive \/ ArchiveClipFails \/ ArchiveMetadataFails
  BY <1>1, <1>8 DEF Archive, ArchiveClipFails, ArchiveMetadataFails, ArchiveStep, modelVars, mainVars
<1>9. CASE HandlerFails \/ StartHandler
           \/ \E worked \in BOOLEAN : PrintActivation(worked) \/ HandlerReturns(worked)
  BY <1>1, <1>9 DEF HandlerFails, StartHandler, PrintActivation, HandlerReturns, Delivered, modelVars,
    mainVars
<1> QED BY <1>3, <1>4, <1>5, <1>6, <1>7, <1>8, <1>9 DEF Next, WorkerStep
-----------------------------------------------------------------------------
(* The main thread and those who stop it.                                   *)

LEMMA RequestStopControl == ASSUME IInv, RequestStop PROVE Control'
BY DEF IInv, TypeOK, Control, Late, Early, Cleanup, Ended, RequestStop, FirstStop, workerVars,
  ringVars, MainSteps, Setup

LEMMA MainStepControl == ASSUME IInv, MainStep PROVE Control'
<1> USE DEF Control, Late, Early, Cleanup, Ended, workerVars
<1>1. /\ writing' = writing
      /\ Control /\ running \in BOOLEAN /\ failed \in BOOLEAN
  BY MainFrame DEF ringVars, IInv, TypeOK
<1>2. CASE InstallSignalHandlers
  BY <1>1, <1>2 DEF InstallSignalHandlers, flagVars, historyVars
<1>3. CASE MarkRunning
  BY <1>1, <1>3 DEF MarkRunning, historyVars
<1>4. CASE CreateLoop
  BY <1>1, <1>4 DEF CreateLoop, flagVars, historyVars
<1>5. CASE CreateStream
  BY <1>1, <1>5 DEF CreateStream, flagVars, historyVars
<1>6. CASE ConnectStream
  BY <1>1, <1>6 DEF ConnectStream, flagVars, historyVars
<1>7. CASE StartWorker
  BY <1>1, <1>7 DEF StartWorker, flagVars, historyVars
<1>8. CASE RunLoop
  BY <1>1, <1>8 DEF RunLoop, flagVars, historyVars
<1>9. ASSUME NEW at \in {"start", "marked", "loop", "stream", "connected"}, NEW label \in Cleanup,
             SetupFails(at, label), at \in {"start", "marked"} => label = "cleanup",
             at = "loop" => label \in {"cleanup_loop", "cleanup_ring"},
             at \in {"stream", "connected"} => label = "cleanup_stream"
      PROVE  Control'
  BY <1>1, <1>9 DEF SetupFails
<1>10. CASE LeaveLoop
  BY <1>1, <1>10 DEF LeaveLoop, flagVars, historyVars
<1>11. CASE ClearRunning
  BY <1>1, <1>11 DEF ClearRunning, historyVars
<1>12. CASE JoinWorker
  BY <1>1, <1>12 DEF JoinWorker, flagVars, historyVars
<1>13. CASE DestroyStream
  BY <1>1, <1>13 DEF DestroyStream, historyVars
<1>14. CASE DestroyRing
  BY <1>1, <1>14 DEF DestroyRing, flagVars, historyVars
<1>15. CASE DestroyLoop
  BY <1>1, <1>15 DEF DestroyLoop, flagVars, historyVars
<1>16. CASE Exit
  BY <1>1, <1>16 DEF Exit, flagVars, historyVars
<1>17. CASE MainFails
  BY <1>9, <1>17 DEF MainFails
<1> QED BY <1>2, <1>3, <1>4, <1>5, <1>6, <1>7, <1>8, <1>10, <1>11, <1>12, <1>13, <1>14, <1>15, <1>16,
  <1>17 DEF MainStep

LEMMA StreamControl == ASSUME IInv, StreamStep \/ RingStep PROVE Control'
<1> USE DEF IInv, TypeOK, Control, Late, Early, Cleanup, Ended, workerVars
<1>1. CASE StreamFails
  BY <1>1 DEF StreamFails, StreamLost, FirstStop, mainVars, ringVars
<1>2. CASE NegotiateFormat
  BY <1>2 DEF NegotiateFormat, mainVars, flagVars, historyVars, ringVars
<1>3. CASE StoreSample
  BY <1>3 DEF StoreSample, mainVars, flagVars, historyVars
<1>4. CASE PublishIndex \/ PublishTotal
  BY <1>4 DEF PublishIndex, PublishTotal, mainVars, flagVars, historyVars
<1> QED BY <1>1, <1>2, <1>3, <1>4 DEF StreamStep, RingStep

LEMMA ControlKeeps == ASSUME IInv, [Next]_vars PROVE Control'
<1> USE DEF IInv, TypeOK, Control, Late, Early, Cleanup, Ended
<1>1. CASE WorkerFails
  BY <1>1 DEF WorkerFails, FirstStop, mainVars, ringVars, WorkerSteps
<1>2. CASE WorkerWorks
  BY <1>2 DEF WorkerWorks, mainVars, flagVars, historyVars, ringVars
<1>3. CASE Tick \/ UNCHANGED vars
  BY <1>3 DEF Tick, vars, workerVars, mainVars, flagVars, historyVars, ringVars
<1> QED BY <1>1, <1>2, <1>3, WorkerFrame, RequestStopControl, MainStepControl, StreamControl DEF Next
-----------------------------------------------------------------------------
(* Types, by who owns the variables.                                        *)

FlagTypes ==
  /\ handler \in BOOLEAN
  /\ quit \in BOOLEAN /\ running \in BOOLEAN /\ failed \in BOOLEAN /\ heard \in BOOLEAN

MainTypes ==
  /\ main \in MainSteps /\ exit \in {0, 1}
  /\ loop \in {"null", "idle", "running", "destroyed"}
  /\ stream \in {"off", "connected", "streaming", "failed", "destroyed"}
  /\ stop \in {"none", "signal", "stream", "worker"}
  /\ faults \subseteq {"setup", "stream", "worker"}

RingTypes ==
  /\ samples \in [0 .. Capacity - 1 -> 0 .. MaxSamples]
  /\ write_index \in 0 .. Capacity - 1 /\ total_written \in 0 .. MaxSamples
  /\ stored \in 0 .. MaxSamples /\ writing \in {"no", "stored", "indexed"}

ScanTypes ==
  /\ head \in 0 .. MaxSamples
  /\ Len(window) <= Window /\ \A i \in 1 .. Len(window) : window[i] \in 0 .. MaxSamples

DetectTypes ==
  /\ consecutive_hits \in 0 .. ConsecutiveWindows
  /\ last_health_total \in 0 .. MaxSamples
  /\ age \in 0 .. HealthTimeout

NoticeTypes == wrote_unhealthy \in BOOLEAN /\ due \in BOOLEAN

FileTypes ==
  /\ worker \in WorkerSteps
  /\ model \subseteq Handles /\ live \subseteq Handles
  /\ statusFile \in Statuses /\ unsaid \in BOOLEAN
  /\ archive \subseteq {"wav.tmp", "wav", "json.tmp", "json"}

LEMMA TypeParts ==
  TypeOK <=> /\ FlagTypes /\ MainTypes /\ RingTypes /\ ScanTypes
             /\ DetectTypes /\ NoticeTypes /\ FileTypes
BY DEF TypeOK, FlagTypes, MainTypes, RingTypes, ScanTypes, DetectTypes, NoticeTypes, FileTypes

LEMMA FlagTypesKeep == ASSUME IInv, [Next]_vars PROVE FlagTypes'
<1> USE DEF FlagTypes
<1>1. FlagTypes
  BY TypeParts DEF IInv
<1>2. CASE RequestStop
  BY <1>1, <1>2 DEF RequestStop, QuitLoop, FirstStop, configVars
<1>3. CASE InstallSignalHandlers \/ MarkRunning \/ CreateLoop \/ CreateStream
  BY <1>1, <1>3 DEF InstallSignalHandlers, MarkRunning, CreateLoop, CreateStream, configVars, flagVars,
    historyVars
<1>4. CASE ConnectStream \/ StartWorker \/ RunLoop
  BY <1>1, <1>4 DEF ConnectStream, StartWorker, RunLoop, configVars, flagVars, historyVars
<1>5. CASE MainFails
  BY <1>1, <1>5 DEF MainFails, SetupFails, configVars
<1>6. CASE LeaveLoop \/ ClearRunning \/ JoinWorker
  BY <1>1, <1>6 DEF LeaveLoop, ClearRunning, JoinWorker, configVars, flagVars, historyVars
<1>7. CASE DestroyStream
  BY <1>1, <1>7 DEF DestroyStream, StreamLost, QuitLoop, configVars, historyVars
<1>8. CASE DestroyRing \/ DestroyLoop \/ Exit
  BY <1>1, <1>8 DEF DestroyRing, DestroyLoop, Exit, configVars, flagVars, historyVars
<1>9. CASE StreamFails
  BY <1>1, <1>9 DEF StreamFails, StreamLost, QuitLoop, FirstStop, configVars, mainVars
<1>10. CASE NegotiateFormat \/ StoreSample \/ RingStep \/ Tick \/ UNCHANGED vars
  BY <1>1, <1>10 DEF NegotiateFormat, StoreSample, RingStep, PublishIndex, PublishTotal, Tick, vars,
    configVars, mainVars, flagVars, historyVars
<1>11. CASE WorkerFails
  BY <1>1, <1>11 DEF WorkerFails, QuitLoop, FirstStop, configVars, mainVars
<1>12. CASE WorkerWorks
  BY <1>1, <1>12 DEF WorkerWorks, configVars, mainVars, flagVars, historyVars
<1> QED BY <1>2, <1>3, <1>4, <1>5, <1>6, <1>7, <1>8, <1>9, <1>10, <1>11, <1>12, WorkerFrame
  DEF Next, MainStep, StreamStep

LEMMA MainTypesKeep == ASSUME IInv, [Next]_vars PROVE MainTypes'
<1> USE DEF MainTypes, MainSteps, Setup, Cleanup, Ended
<1>1. MainTypes
  BY TypeParts DEF IInv
<1>2. CASE RequestStop
  BY <1>1, <1>2 DEF RequestStop, FirstStop
<1>3. CASE InstallSignalHandlers \/ MarkRunning \/ CreateLoop \/ CreateStream
  BY <1>1, <1>3 DEF InstallSignalHandlers, MarkRunning, CreateLoop, CreateStream, flagVars,
    historyVars
<1>4. CASE ConnectStream \/ StartWorker \/ RunLoop
  BY <1>1, <1>4 DEF ConnectStream, StartWorker, RunLoop, flagVars, historyVars
<1>5. CASE MainFails
  BY <1>1, <1>5 DEF MainFails, SetupFails
<1>6. CASE LeaveLoop \/ ClearRunning \/ JoinWorker
  BY <1>1, <1>6 DEF LeaveLoop, ClearRunning, JoinWorker, flagVars, historyVars
<1>7. CASE DestroyStream
  BY <1>1, <1>7 DEF DestroyStream, StreamLost, historyVars
<1>8. CASE DestroyRing \/ DestroyLoop \/ Exit
  BY <1>1, <1>8 DEF DestroyRing, DestroyLoop, Exit, flagVars, historyVars
<1>9. CASE StreamFails
  BY <1>1, <1>9 DEF StreamFails, StreamLost, FirstStop, mainVars
<1>10. CASE NegotiateFormat \/ StoreSample \/ RingStep \/ Tick \/ UNCHANGED vars
  BY <1>1, <1>10 DEF NegotiateFormat, StoreSample, RingStep, PublishIndex, PublishTotal, Tick, vars,
    mainVars, flagVars, historyVars
<1>11. CASE WorkerFails
  BY <1>1, <1>11 DEF WorkerFails, FirstStop, mainVars
<1>12. CASE WorkerWorks
  BY <1>1, <1>12 DEF WorkerWorks, mainVars, flagVars, historyVars
<1> QED BY <1>2, <1>3, <1>4, <1>5, <1>6, <1>7, <1>8, <1>9, <1>10, <1>11, <1>12, WorkerFrame
  DEF Next, MainStep, StreamStep

LEMMA RingTypesKeep == ASSUME IInv, [Next]_vars PROVE RingTypes'
<1> USE DEF RingTypes
<1>1. RingTypes /\ Ring /\ Capacity \in Nat \ {0} /\ MaxSamples \in Nat
  BY TypeParts, RingAssumption, DetectorAssumption DEF IInv
<1>2. CASE StoreSample
  <2>1. stored + 1 \in 0 .. MaxSamples
    BY <1>1, <1>2 DEF StoreSample
  <2> QED BY <1>1, <1>2, <2>1 DEF StoreSample
<1>3. CASE PublishIndex
  <2>1. write_index + 1 \in Nat
    BY <1>1
  <2>2. (write_index + 1) % Capacity \in 0 .. Capacity - 1
    BY <1>1, <2>1, ModParts
  <2> QED BY <1>1, <1>3, <2>2 DEF PublishIndex
<1>4. CASE PublishTotal
  <2>1. total_written + 1 \in 0 .. MaxSamples
    BY <1>1, <1>4 DEF PublishTotal, Ring
  <2> QED BY <1>1, <1>4, <2>1 DEF PublishTotal
<1>5. CASE UNCHANGED ringVars
  BY <1>1, <1>5 DEF ringVars
<1> QED BY <1>2, <1>3, <1>4, <1>5, RingFrame

LEMMA ScanTypesKeep == ASSUME IInv, [Next]_vars PROVE ScanTypes'
<1> USE DEF ScanTypes
<1>1. /\ ScanTypes /\ Scan /\ Ring /\ stored \in 0 .. MaxSamples /\ MaxSamples \in Nat
      /\ Window \in Nat \ {0} /\ writing \in {"no", "stored", "indexed"}
  BY TypeParts, RingAssumption, DetectorAssumption DEF IInv, RingTypes
<1>2. Scan' /\ window' \in Seq(0 .. MaxSamples)
  BY ScanKeeps DEF Scan
<1>3. \A i \in 1 .. Len(window') : window'[i] \in 0 .. MaxSamples
  BY <1>2, ElementOfSeq
<1>4. CASE ReadIndex
  BY <1>1, <1>3, <1>4, EmptySeq DEF ReadIndex, Ring
<1>5. CASE CopySample
  <2>1. Len(window') <= Window
    BY <1>1, <1>2, <1>5 DEF CopySample, Scan
  <2> QED BY <1>1, <1>3, <1>5, <2>1 DEF CopySample
<1>6. ASSUME NEW scored \in BOOLEAN, NEW hit \in BOOLEAN, Score(scored, hit) PROVE ScanTypes'
  BY <1>1, <1>3, <1>6, EmptySeq DEF Score
<1>7. CASE UNCHANGED scanVars
  BY <1>1, <1>7 DEF scanVars
<1>8. CASE WorkerFails \/ WorkerStarts \/ WorkerIterates \/ WorkerWakes \/ WorkerLeaves \/ ReadTotal
  BY <1>7, <1>8 DEF WorkerFails, WorkerStarts, WorkerIterates, WorkerWakes, WorkerLeaves, ReadTotal
<1>9. CASE Archive \/ ArchiveClipFails \/ ArchiveMetadataFails \/ HandlerFails \/ StartHandler
           \/ \E worked \in BOOLEAN : PrintActivation(worked) \/ HandlerReturns(worked)
  BY <1>7, <1>9 DEF Archive, ArchiveClipFails, ArchiveMetadataFails, ArchiveStep, HandlerFails,
      StartHandler, PrintActivation, HandlerReturns, Delivered
<1> QED BY <1>4, <1>5, <1>6, <1>7, <1>8, <1>9, OthersFrame DEF Next, WorkerStep

LEMMA NoticeTypesKeep == ASSUME IInv, [Next]_vars PROVE NoticeTypes'
<1> USE DEF NoticeTypes
<1>1. NoticeTypes
  BY TypeParts DEF IInv
<1>2. CASE RequestStop \/ MainStep
  BY <1>1, <1>2, MainFrame DEF detectVars, timeVars
<1>3. CASE StreamStep \/ RingStep \/ Tick \/ UNCHANGED vars
  BY <1>1, <1>3 DEF StreamStep, RingStep, StreamFails, NegotiateFormat, StoreSample, PublishIndex,
    PublishTotal, Tick, vars, workerVars, detectVars, timeVars
<1>4. CASE WorkerFails \/ WorkerStarts \/ WorkerWakes \/ WorkerLeaves
  BY <1>1, <1>4 DEF WorkerFails, WorkerStarts, WorkerWakes, WorkerLeaves, detectVars, timeVars
<1>5. CASE WorkerIterates
  BY <1>1, <1>5 DEF WorkerIterates, ReportHealth
<1>6. CASE ReadTotal \/ ReadIndex \/ CopySample
  BY <1>1, <1>6 DEF ReadTotal, ReadIndex, CopySample, detectVars, timeVars
<1>7. ASSUME NEW scored \in BOOLEAN, NEW hit \in BOOLEAN, Score(scored, hit) PROVE NoticeTypes'
  BY <1>1, <1>7 DEF Score, timeVars
<1>8. CASE Archive \/ ArchiveClipFails \/ ArchiveMetadataFails
  BY <1>1, <1>8 DEF Archive, ArchiveClipFails, ArchiveMetadataFails, ArchiveStep, detectVars, timeVars
<1>9. CASE HandlerFails \/ StartHandler
           \/ \E worked \in BOOLEAN : PrintActivation(worked) \/ HandlerReturns(worked)
  BY <1>1, <1>9 DEF HandlerFails, StartHandler, PrintActivation, HandlerReturns, Delivered, detectVars,
    timeVars
<1> QED BY <1>2, <1>3, <1>4, <1>5, <1>6, <1>7, <1>8, <1>9 DEF Next, WorkerStep

LEMMA DetectTypesKeep == ASSUME IInv, [Next]_vars PROVE DetectTypes'
<1> USE DEF DetectTypes
<1>1. /\ DetectTypes /\ Detecting /\ total_written \in 0 .. MaxSamples
      /\ ConsecutiveWindows \in Nat \ {0} /\ HealthTimeout \in Nat \ {0} /\ MaxSamples \in Nat
  BY TypeParts, DetectorAssumption DEF IInv, RingTypes
<1>2. CASE RequestStop \/ MainStep
  BY <1>1, <1>2, MainFrame DEF detectVars, timeVars
<1>3. CASE StreamStep \/ RingStep \/ UNCHANGED vars
  BY <1>1, <1>3 DEF StreamStep, RingStep, StreamFails, NegotiateFormat, StoreSample, PublishIndex,
    PublishTotal, vars, workerVars, detectVars, timeVars
<1>4. CASE Tick
  <2>1. age' \in 0 .. HealthTimeout
    BY <1>1, <1>4 DEF Tick
  <2> QED BY <1>1, <1>4, <2>1 DEF Tick, workerVars, detectVars
<1>5. CASE WorkerFails \/ WorkerStarts \/ WorkerWakes \/ WorkerLeaves
  BY <1>1, <1>5 DEF WorkerFails, WorkerStarts, WorkerWakes, WorkerLeaves, detectVars, timeVars
<1>6. CASE WorkerIterates
  BY <1>1, <1>6 DEF WorkerIterates, ReportHealth
<1>7. CASE ReadTotal \/ ReadIndex \/ CopySample
  BY <1>1, <1>7 DEF ReadTotal, ReadIndex, CopySample, detectVars, timeVars
<1>8. ASSUME NEW scored \in BOOLEAN, NEW hit \in BOOLEAN, Score(scored, hit) PROVE DetectTypes'
  <2>1. consecutive_hits < ConsecutiveWindows /\ consecutive_hits \in Nat
    BY <1>1, <1>8 DEF Score, Detecting, Archiving
  <2> QED BY <1>1, <1>8, <2>1 DEF Score, timeVars
<1>9. CASE Archive \/ ArchiveClipFails \/ ArchiveMetadataFails
  BY <1>1, <1>9 DEF Archive, ArchiveClipFails, ArchiveMetadataFails, ArchiveStep, detectVars, timeVars
<1>10. CASE HandlerFails \/ StartHandler
            \/ \E worked \in BOOLEAN : PrintActivation(worked) \/ HandlerReturns(worked)
  BY <1>1, <1>10 DEF HandlerFails, StartHandler, PrintActivation, HandlerReturns, Delivered, detectVars,
    timeVars
<1> QED BY <1>2, <1>3, <1>4, <1>5, <1>6, <1>7, <1>8, <1>9, <1>10 DEF Next, WorkerStep

LEMMA FileTypesKeep == ASSUME IInv, [Next]_vars PROVE FileTypes'
<1> USE DEF FileTypes, WorkerSteps, Scanning, Archiving, Statuses, WriteStatus, Once, statusVars
<1>1. FileTypes /\ Acquired \subseteq SUBSET Handles
  BY TypeParts DEF IInv, Acquired, Handles, Acquiring
<1>2. CASE RequestStop \/ MainStep
  BY <1>1, <1>2, MainFrame DEF StartWorker, Exit, ReleaseModel
<1>3. CASE StreamStep \/ RingStep \/ Tick \/ UNCHANGED vars
  BY <1>1, <1>3 DEF StreamStep, RingStep, StreamFails, NegotiateFormat, StoreSample, PublishIndex,
    PublishTotal, Tick, vars, workerVars, modelVars, fileVars
<1>4. CASE WorkerFails
  BY <1>1, <1>4 DEF WorkerFails, fileVars
<1>5. CASE WorkerStarts \/ WorkerWakes \/ WorkerLeaves
  BY <1>1, <1>5 DEF WorkerStarts, WorkerWakes, WorkerLeaves, ReleaseModel, modelVars, fileVars
<1>6. CASE WorkerIterates
  BY <1>1, <1>6 DEF WorkerIterates, ReportHealth, modelVars
<1>7. CASE ReadTotal \/ ReadIndex \/ CopySample
  BY <1>1, <1>7 DEF ReadTotal, ReadIndex, CopySample, modelVars, fileVars
<1>8. ASSUME NEW scored \in BOOLEAN, NEW hit \in BOOLEAN, Score(scored, hit) PROVE FileTypes'
  BY <1>1, <1>8 DEF Score, modelVars, fileVars
<1>9. CASE Archive \/ ArchiveClipFails \/ ArchiveMetadataFails
  BY <1>1, <1>9 DEF Archive, ArchiveClipFails, ArchiveMetadataFails, ArchiveStep, modelVars
<1>10. CASE HandlerFails \/ StartHandler
            \/ \E worked \in BOOLEAN : PrintActivation(worked) \/ HandlerReturns(worked)
  BY <1>1, <1>10 DEF HandlerFails, StartHandler, PrintActivation, HandlerReturns, Delivered, modelVars,
    fileVars
<1> QED BY <1>2, <1>3, <1>4, <1>5, <1>6, <1>7, <1>8, <1>9, <1>10 DEF Next, WorkerStep

LEMMA TypeKeeps == ASSUME IInv, [Next]_vars PROVE TypeOK'
<1>1. FlagTypes' /\ MainTypes' /\ RingTypes' /\ ScanTypes' /\ DetectTypes' /\ NoticeTypes' /\ FileTypes'
  BY FlagTypesKeep, MainTypesKeep, RingTypesKeep, ScanTypesKeep, DetectTypesKeep, NoticeTypesKeep,
    FileTypesKeep
<1> QED BY <1>1 DEF TypeOK, FlagTypes, MainTypes, RingTypes, ScanTypes, DetectTypes, NoticeTypes,
  FileTypes
-----------------------------------------------------------------------------
(* The listener.                                                            *)

LEMMA InitHolds == ASSUME Init PROVE IInv
<1> USE DEF Init
<1>1. Window \in Nat \ {0} /\ Capacity \in Nat \ {0} /\ MaxSamples \in Nat
      /\ HealthTimeout \in Nat \ {0} /\ ConsecutiveWindows \in Nat \ {0}
  BY RingAssumption, DetectorAssumption
<1>2. <<>> \in Seq(0 .. MaxSamples) /\ Len(<<>>) = 0 /\ 0 \in 0 .. Capacity - 1 /\ 0 % Capacity = 0
  <2>1. 0 \in 0 .. Capacity - 1
    BY <1>1
  <2> QED BY <1>1, <2>1, ModSmall, EmptySeq
<1>3. FlagTypes /\ NoticeTypes
  BY DEF FlagTypes, NoticeTypes
<1>4. MainTypes /\ FileTypes
  BY DEF MainTypes, FileTypes, MainSteps, Setup, WorkerSteps, Statuses
<1>5. RingTypes /\ ScanTypes /\ DetectTypes
  BY <1>1, <1>2 DEF RingTypes, ScanTypes, DetectTypes
<1>6. Ring /\ Scan
  BY <1>1, <1>2 DEF Ring, Indexed, Scan
<1>7. Detecting /\ Holding /\ Archived /\ Control
  BY <1>1 DEF Detecting, Holding, Archived, Control, Late, Early, Cleanup, Ended
<1> QED BY <1>3, <1>4, <1>5, <1>6, <1>7, TypeParts DEF IInv

\* The listener stays in the states described above, whatever thread moves next.
THEOREM Inductive == Spec => []IInv
<1>1. ASSUME IInv, [Next]_vars PROVE IInv'
  <2>1. TypeOK' /\ Ring' /\ Scan' /\ Detecting' /\ Holding' /\ Archived' /\ Control'
    BY <1>1, TypeKeeps, RingKeeps, ScanKeeps, DetectingKeeps, HoldingKeeps, ArchivedKeeps, ControlKeeps
  <2> QED BY <2>1 DEF IInv
<1> QED BY <1>1, InitHolds, PTL DEF Spec

\* Indices stay inside the ring, counters inside their ranges, and every thread at a place
\* it has: for any ring, window and number of samples.
THEOREM TypeCorrect == Spec => []TypeOK
<1>1. IInv => TypeOK
  BY DEF IInv
<1> QED BY <1>1, Inductive, PTL

\* The lock-free copy of ring_snapshot_latest: the window that is scored is the recording,
\* in order and without a gap, unless the callback overran the spare samples meanwhile.
THEOREM SafeWindow == Spec => []WindowIsRecording
<1>1. ASSUME IInv PROVE WindowIsRecording
  <2>1. Scan
    BY <1>1 DEF IInv
  <2> QED BY <2>1, RingAssumption DEF Scan, WindowIsRecording
<1> QED BY <1>1, Inductive, PTL

\* The exit status tells a failure from a stop in every race of the signal, the stream and
\* the worker for `running`.
THEOREM SafeExit == Spec => []ExitTellsFailure
<1>1. ASSUME IInv PROVE ExitTellsFailure
  <2>1. Control
    BY <1>1 DEF IInv
  <2> QED BY <2>1 DEF Control, ExitTellsFailure, Late, Ended
<1> QED BY <1>1, Inductive, PTL

\* main takes down nothing that the worker or the audio callback still uses, and every
\* handle of the model goes back to the runtime exactly once.
THEOREM SafeTeardown == Spec => []TornDownInOrder
<1>1. ASSUME IInv PROVE TornDownInOrder
  <2>1. Control /\ Holding
    BY <1>1 DEF IInv
  <2> QED BY <2>1 DEF Control, Holding, TornDownInOrder, Late, Cleanup, Ended
<1> QED BY <1>1, Inductive, PTL

\* Whichever call of archive_activation fails, no metadata is left without its clip and no
\* clip without its metadata.
THEOREM SafeArchive == Spec => []NoHalfArchive
<1>1. ASSUME IInv PROVE NoHalfArchive
  <2>1. Archived
    BY <1>1 DEF IInv
  <2> QED BY <2>1 DEF Archived, NoHalfArchive
<1> QED BY <1>1, Inductive, PTL
-----------------------------------------------------------------------------
(* Resampling: no frame is lost or repeated, however a capture is cut.      *)

\* Induction over the naturals, for a set: its least gap would have to follow a member.
LEMMA SetInduction ==
  ASSUME NEW T, 0 \in T, \A n \in Nat : n \in T => n + 1 \in T
  PROVE  \A n \in Nat : n \in T
<1> SUFFICES ASSUME Nat \ T # {} PROVE FALSE
  OBVIOUS
<1> DEFINE R == OpToRel(<, Nat)
<1>1. IsWellFoundedOn(R, Nat)
  BY NatLessThanWellFounded
<1>2. \A x, y \in Nat : x < y => <<x, y>> \in R
  BY DEF OpToRel
<1> HIDE DEF R
<1>3. PICK m \in Nat \ T : \A y \in Nat \ T : ~(<<y, m>> \in R)
  BY <1>1, WFMin
<1>4. m # 0 /\ m - 1 \in Nat /\ m - 1 < m /\ m = (m - 1) + 1
  BY <1>3
<1>5. m - 1 \in T
  BY <1>2, <1>3, <1>4
<1> QED
  BY <1>3, <1>4, <1>5

LEMMA DivUnique ==
  ASSUME NEW c \in Nat \ {0}, NEW q \in Nat, NEW r \in 0 .. c - 1
  PROVE  (c * q + r) \div c = q
OBVIOUS

\* The listener after the first n frames of a capture.
After(rate, n) == [accumulator |-> (n * ModelRate) % rate, ring |-> Sampled(rate, n)]

LEMMA AfterNothing == ASSUME NEW rate \in Rates PROVE NewFormat = After(rate, 0)
<1>1. rate \in Nat \ {0} /\ ModelRate \in Nat /\ 0 * ModelRate = 0
  BY RatesAssumption
<1>2. 0 % rate = 0 /\ 0 \div rate = 0
  BY <1>1
<1>3. Sampled(rate, 0) = <<>>
  BY <1>1, <1>2 DEF Sampled
<1> QED
  BY <1>1, <1>2, <1>3 DEF NewFormat, After

\* One frame more: it is written for the samples whose time it covers, and no other.
LEMMA AfterFrame ==
  ASSUME NEW rate \in Rates, NEW n \in Nat
  PROVE  TakeFrame(rate, After(rate, n), n + 1) = After(rate, n + 1)
<1> DEFINE M == ModelRate
           p == n * M
           l == p \div rate
           t == p % rate
           owed == t + M
           d == owed \div rate
           u == owed % rate
<1>1. rate \in Nat \ {0} /\ M \in Nat \ {0} /\ p \in Nat
  BY RatesAssumption
<1>2. (n + 1) * M = p + M /\ M * (n + 1) = p + M
  BY <1>1
<1> HIDE DEF M, p
<1>3. l \in Nat /\ t \in 0 .. rate - 1 /\ p = rate * l + t
  BY <1>1, ModParts
<1> HIDE DEF l, t
<1>4. d \in Nat /\ u \in 0 .. rate - 1 /\ t + M = rate * d + u
  <2>1. owed \in Nat
    BY <1>1, <1>3
  <2> QED
    BY <1>1, <2>1, ModParts
<1> HIDE DEF d, u
<1>5. rate * (l + d) = rate * l + rate * d
  BY <1>1, <1>3, <1>4
<1>6. p + M = rate * (l + d) + u
  BY <1>1, <1>3, <1>4, <1>5
<1>7. (p + M) % rate = u /\ (p + M) \div rate = l + d
  BY <1>1, <1>3, <1>4, <1>6, ModUnique, DivUnique
<1>8. ASSUME NEW j \in (l + 1) .. (l + d) PROVE FrameAt(rate, j) = n + 1
  <2> DEFINE w == j * rate - 1 - p
  <2>1. j \in Nat /\ j * rate \in Nat /\ j * rate = rate * j
    BY <1>1, <1>3, <1>4
  <2>2. rate * (l + 1) <= rate * j /\ rate * j <= rate * (l + d)
    BY <1>1, <1>3, <1>4
  <2>3. rate * (l + 1) = rate * l + rate
    BY <1>1, <1>3
  <2>4. w \in 0 .. M - 1
    BY <1>1, <1>3, <1>4, <1>6, <2>1, <2>2, <2>3
  <2>5. j * rate + M - 1 = M * (n + 1) + w
    BY <1>1, <1>2, <2>1
  <2> HIDE DEF w
  <2>6. (M * (n + 1) + w) \div M = n + 1
    BY <1>1, <2>4, DivUnique
  <2> QED
    BY <2>5, <2>6 DEF FrameAt, M
<1>9. Sampled(rate, n) \o [i \in 1 .. d |-> n + 1] = Sampled(rate, n + 1)
  <2>1. Sampled(rate, n) = [j \in 1 .. l |-> FrameAt(rate, j)]
    BY DEF Sampled, l, p, M
  <2>2. Sampled(rate, n + 1) = [j \in 1 .. l + d |-> FrameAt(rate, j)]
    BY <1>2, <1>7 DEF Sampled, M
  <2> DEFINE a == [j \in 1 .. l |-> FrameAt(rate, j)]
             b == [i \in 1 .. d |-> n + 1]
  <2>3. Len(a) = l /\ Len(b) = d
    BY <1>3, <1>4
  <2>4. a \o b = [j \in 1 .. l + d |-> IF j <= l THEN a[j] ELSE b[j - l]]
    BY <1>3, <1>4, <2>3
  <2>5. \A j \in 1 .. l + d : (IF j <= l THEN a[j] ELSE b[j - l]) = FrameAt(rate, j)
    BY <1>3, <1>4, <1>8
  <2> QED
    BY <2>1, <2>2, <2>4, <2>5
<1>10. TakeFrame(rate, After(rate, n), n + 1)
         = [accumulator |-> u, ring |-> Sampled(rate, n) \o [i \in 1 .. d |-> n + 1]]
  BY DEF TakeFrame, After, u, d, t, p, M
<1>11. After(rate, n + 1) = [accumulator |-> u, ring |-> Sampled(rate, n + 1)]
  BY <1>2, <1>7 DEF After, M
<1> QED
  BY <1>9, <1>10, <1>11

\* The largest of the first n numbers, and of any set of them that has n.
LEMMA MaxIsLast ==
  ASSUME NEW n \in Nat, NEW x \in SUBSET (1 .. n), n \in x PROVE Max(x) = n
<1>1. \A y \in x : n >= y
  OBVIOUS
<1>2. \A z \in x : (\A y \in x : z >= y) => z = n
  OBVIOUS
<1> QED
  BY <1>1, <1>2 DEF Max

\* Every nonempty set of the first n numbers has a largest.
LEMMA MaxIsMember ==
  ASSUME NEW n \in Nat PROVE \A x \in SUBSET (1 .. n) : x # {} => Max(x) \in x
<1> DEFINE T == {k \in Nat : \A x \in SUBSET (1 .. k) : x # {} => Max(x) \in x}
<1>1. 0 \in T
  <2>1. \A x \in SUBSET (1 .. 0) : x = {}
    OBVIOUS
  <2> QED
    BY <2>1
<1>2. ASSUME NEW k \in Nat, k \in T PROVE k + 1 \in T
  <2> SUFFICES ASSUME NEW x \in SUBSET (1 .. k + 1), x # {} PROVE Max(x) \in x
    OBVIOUS
  <2>1. CASE k + 1 \in x
    BY <2>1, MaxIsLast
  <2>2. CASE k + 1 \notin x
    <3>1. x \in SUBSET (1 .. k)
      BY <2>2
    <3> QED
      BY <1>2, <3>1
  <2> QED
    BY <2>1, <2>2
<1> HIDE DEF T
<1>3. n \in T
  BY <1>1, <1>2, SetInduction
<1> QED
  BY <1>3 DEF T

\* The folds, as functions on the sets of positions that were taken.
FramesFold(g, rate, s, frames, n) ==
  g = [x \in SUBSET (1 .. n) |->
         IF x = {} THEN s ELSE TakeFrame(rate, g[x \ {Max(x)}], frames[Max(x)])]

BuffersFold(g, rate, buffers, n) ==
  g = [x \in SUBSET (1 .. n) |->
         IF x = {} THEN NewFormat ELSE OnProcess(rate, g[x \ {Max(x)}], buffers[Max(x)])]

LEMMA FramesFoldExists ==
  ASSUME NEW rate, NEW s, NEW frames, NEW n \in Nat
  PROVE  \E g : FramesFold(g, rate, s, frames, n)
<1> DEFINE T == {k \in Nat : \E g : FramesFold(g, rate, s, frames, k)}
<1>1. 0 \in T
  <2> DEFINE g == [x \in SUBSET (1 .. 0) |-> s]
  <2>1. \A x \in SUBSET (1 .. 0) : x = {}
    OBVIOUS
  <2>2. FramesFold(g, rate, s, frames, 0)
    BY <2>1 DEF FramesFold
  <2> QED
    BY <2>2
<1>2. ASSUME NEW k \in Nat, k \in T PROVE k + 1 \in T
  <2>1. PICK g : FramesFold(g, rate, s, frames, k)
    BY <1>2
  <2> DEFINE h == [x \in SUBSET (1 .. k + 1) |->
                     IF k + 1 \in x THEN TakeFrame(rate, g[x \ {k + 1}], frames[k + 1]) ELSE g[x]]
  <2>2. ASSUME NEW x \in SUBSET (1 .. k + 1)
        PROVE  h[x] = IF x = {} THEN s ELSE TakeFrame(rate, h[x \ {Max(x)}], frames[Max(x)])
    <3>1. CASE k + 1 \in x
      <4>1. Max(x) = k + 1 /\ x # {}
        BY <3>1, MaxIsLast
      <4>2. x \ {k + 1} \in SUBSET (1 .. k + 1) /\ k + 1 \notin x \ {k + 1}
        OBVIOUS
      <4>3. h[x \ {k + 1}] = g[x \ {k + 1}]
        BY <4>2
      <4>4. h[x] = TakeFrame(rate, g[x \ {k + 1}], frames[k + 1])
        BY <3>1
      <4> HIDE DEF h
      <4> QED
        BY <4>1, <4>3, <4>4
    <3>2. CASE k + 1 \notin x
      <4>1. x \in SUBSET (1 .. k) /\ h[x] = g[x]
        BY <3>2
      <4>2. g[x] = IF x = {} THEN s ELSE TakeFrame(rate, g[x \ {Max(x)}], frames[Max(x)])
        BY <2>1, <4>1 DEF FramesFold
      <4>3. x \ {Max(x)} \in SUBSET (1 .. k + 1) /\ k + 1 \notin x \ {Max(x)}
        BY <3>2
      <4>4. h[x \ {Max(x)}] = g[x \ {Max(x)}]
        BY <4>3
      <4> HIDE DEF h
      <4> QED
        BY <4>1, <4>2, <4>4
    <3> QED
      BY <3>1, <3>2
  <2>3. h = [x \in SUBSET (1 .. k + 1) |-> h[x]]
    OBVIOUS
  <2> HIDE DEF h
  <2>4. FramesFold(h, rate, s, frames, k + 1)
    BY <2>2, <2>3 DEF FramesFold
  <2> QED
    BY <2>4
<1> HIDE DEF T
<1>3. n \in T
  BY <1>1, <1>2, SetInduction
<1> QED
  BY <1>3 DEF T

LEMMA BuffersFoldExists ==
  ASSUME NEW rate, NEW buffers, NEW n \in Nat
  PROVE  \E g : BuffersFold(g, rate, buffers, n)
<1> DEFINE T == {k \in Nat : \E g : BuffersFold(g, rate, buffers, k)}
<1>1. 0 \in T
  <2> DEFINE g == [x \in SUBSET (1 .. 0) |-> NewFormat]
  <2>1. \A x \in SUBSET (1 .. 0) : x = {}
    OBVIOUS
  <2>2. BuffersFold(g, rate, buffers, 0)
    BY <2>1 DEF BuffersFold
  <2> QED
    BY <2>2
<1>2. ASSUME NEW k \in Nat, k \in T PROVE k + 1 \in T
  <2>1. PICK g : BuffersFold(g, rate, buffers, k)
    BY <1>2
  <2> DEFINE h == [x \in SUBSET (1 .. k + 1) |->
                     IF k + 1 \in x THEN OnProcess(rate, g[x \ {k + 1}], buffers[k + 1]) ELSE g[x]]
  <2>2. ASSUME NEW x \in SUBSET (1 .. k + 1)
        PROVE  h[x] = IF x = {} THEN NewFormat ELSE OnProcess(rate, h[x \ {Max(x)}], buffers[Max(x)])
    <3>1. CASE k + 1 \in x
      <4>1. Max(x) = k + 1 /\ x # {}
        BY <3>1, MaxIsLast
      <4>2. x \ {k + 1} \in SUBSET (1 .. k + 1) /\ k + 1 \notin x \ {k + 1}
        OBVIOUS
      <4>3. h[x \ {k + 1}] = g[x \ {k + 1}]
        BY <4>2
      <4>4. h[x] = OnProcess(rate, g[x \ {k + 1}], buffers[k + 1])
        BY <3>1
      <4> HIDE DEF h
      <4> QED
        BY <4>1, <4>3, <4>4
    <3>2. CASE k + 1 \notin x
      <4>1. x \in SUBSET (1 .. k) /\ h[x] = g[x]
        BY <3>2
      <4>2. g[x] = IF x = {} THEN NewFormat ELSE OnProcess(rate, g[x \ {Max(x)}], buffers[Max(x)])
        BY <2>1, <4>1 DEF BuffersFold
      <4>3. x \ {Max(x)} \in SUBSET (1 .. k + 1) /\ k + 1 \notin x \ {Max(x)}
        BY <3>2
      <4>4. h[x \ {Max(x)}] = g[x \ {Max(x)}]
        BY <4>3
      <4> HIDE DEF h
      <4> QED
        BY <4>1, <4>2, <4>4
    <3> QED
      BY <3>1, <3>2
  <2>3. h = [x \in SUBSET (1 .. k + 1) |-> h[x]]
    OBVIOUS
  <2> HIDE DEF h
  <2>4. BuffersFold(h, rate, buffers, k + 1)
    BY <2>2, <2>3 DEF BuffersFold
  <2> QED
    BY <2>4
<1> HIDE DEF T
<1>3. n \in T
  BY <1>1, <1>2, SetInduction
<1> QED
  BY <1>3 DEF T

\* The first numbers, and the last of them.
LEMMA FirstNumbers ==
  ASSUME NEW k \in Nat
  PROVE  /\ 1 .. k + 1 # {} /\ Max(1 .. k + 1) = k + 1
         /\ (1 .. k + 1) \ {k + 1} = 1 .. k
<1>1. k + 1 \in 1 .. k + 1 /\ 1 .. k + 1 \in SUBSET (1 .. k + 1)
  OBVIOUS
<1>2. Max(1 .. k + 1) = k + 1
  BY <1>1, MaxIsLast
<1>3. (1 .. k + 1) \ {k + 1} = 1 .. k
  <2>1. \A y : y \in 1 .. k + 1 /\ y # k + 1 <=> y \in 1 .. k
    OBVIOUS
  <2> QED
    BY <2>1
<1>4. 1 .. k + 1 # {}
  BY <1>1
<1> QED
  BY <1>2, <1>3, <1>4

\* A buffer of the next b frames.
LEMMA AfterBuffer ==
  ASSUME NEW rate \in Rates, NEW a \in Nat, NEW b \in Nat,
         NEW frames, frames = [k \in 1 .. b |-> a + k]
  PROVE  OnProcess(rate, After(rate, a), frames) = After(rate, a + b)
<1> DEFINE s == After(rate, a)
<1> HIDE DEF s
<1>1. PICK f : /\ FramesFold(f, rate, s, frames, b)
               /\ OnProcess(rate, s, frames) = f[1 .. b]
  <2>1. DOMAIN frames = 1 .. b
    OBVIOUS
  <2>2. \E g : FramesFold(g, rate, s, frames, b)
    BY FramesFoldExists
  <2> QED
    BY <2>1, <2>2 DEF FramesFold, OnProcess, FoldLeft, MapThenFoldSet
<1> DEFINE T == {k \in Nat : k <= b => f[1 .. k] = After(rate, a + k)}
<1>2. 0 \in T
  <2>1. 1 .. 0 = {} /\ 1 .. 0 \in SUBSET (1 .. b) /\ a + 0 = a
    OBVIOUS
  <2>2. f[1 .. 0] = s
    BY <1>1, <2>1 DEF FramesFold
  <2> QED
    BY <2>1, <2>2 DEF s
<1>3. ASSUME NEW k \in Nat, k \in T PROVE k + 1 \in T
  <2> SUFFICES ASSUME k + 1 <= b PROVE f[1 .. k + 1] = After(rate, a + (k + 1))
    OBVIOUS
  <2>1. f[1 .. k] = After(rate, a + k)
    BY <1>3
  <2>2. 1 .. k + 1 \in SUBSET (1 .. b) /\ frames[k + 1] = (a + k) + 1 /\ a + k \in Nat
        /\ a + (k + 1) = (a + k) + 1
    OBVIOUS
  <2>3. f[1 .. k + 1] = TakeFrame(rate, f[1 .. k], frames[k + 1])
    <3> DEFINE x == 1 .. k + 1
    <3>1. x # {} /\ Max(x) = k + 1 /\ x \ {k + 1} = 1 .. k
      BY FirstNumbers
    <3>2. x \in SUBSET (1 .. b)
      BY <2>2
    <3> HIDE DEF x
    <3>3. f[x] = TakeFrame(rate, f[x \ {Max(x)}], frames[Max(x)])
      BY <1>1, <3>1, <3>2 DEF FramesFold
    <3> QED
      BY <3>1, <3>3 DEF x
  <2> QED
    BY <2>1, <2>2, <2>3, AfterFrame
<1> HIDE DEF T
<1>4. b \in T
  BY <1>2, <1>3, SetInduction
<1> QED
  BY <1>1, <1>4 DEF T, s

\* A capture in m buffers.
LEMMA AfterBuffers ==
  ASSUME NEW rate \in Rates, NEW m \in Nat, NEW ends \in [0 .. m -> Nat], ends[0] = 0,
         \A i \in 1 .. m : ends[i - 1] <= ends[i]
  PROVE  Captured(rate, Buffers(m, ends)) = After(rate, ends[m])
<1> DEFINE buffers == Buffers(m, ends)
<1>1. /\ DOMAIN buffers = 1 .. m
      /\ \A i \in 1 .. m :
           buffers[i] = [k \in 1 .. ends[i] - ends[i - 1] |-> ends[i - 1] + k]
  BY DEF Buffers
<1> HIDE DEF buffers
<1>2. PICK f : BuffersFold(f, rate, buffers, m) /\ Captured(rate, buffers) = f[1 .. m]
  <2>1. \E g : BuffersFold(g, rate, buffers, m)
    BY BuffersFoldExists
  <2> QED
    BY <1>1, <2>1 DEF BuffersFold, Captured, FoldLeft, MapThenFoldSet
<1> DEFINE T == {i \in Nat : i <= m => f[1 .. i] = After(rate, ends[i])}
<1>3. 0 \in T
  <2>1. 1 .. 0 = {} /\ 1 .. 0 \in SUBSET (1 .. m)
    OBVIOUS
  <2>2. f[1 .. 0] = NewFormat
    BY <1>2, <2>1 DEF BuffersFold
  <2> QED
    BY <2>2, AfterNothing
<1>4. ASSUME NEW i \in Nat, i \in T PROVE i + 1 \in T
  <2> SUFFICES ASSUME i + 1 <= m PROVE f[1 .. i + 1] = After(rate, ends[i + 1])
    OBVIOUS
  <2>1. f[1 .. i] = After(rate, ends[i])
    BY <1>4
  <2>2. i + 1 \in 1 .. m /\ (i + 1) - 1 = i /\ 1 .. i + 1 \in SUBSET (1 .. m)
    OBVIOUS
  <2>3. /\ ends[i] \in Nat /\ ends[i + 1] \in Nat /\ ends[i + 1] - ends[i] \in Nat
        /\ ends[i] + (ends[i + 1] - ends[i]) = ends[i + 1]
    BY <2>2
  <2>4. buffers[i + 1] = [k \in 1 .. ends[i + 1] - ends[i] |-> ends[i] + k]
    BY <1>1, <2>2
  <2>5. f[1 .. i + 1] = OnProcess(rate, f[1 .. i], buffers[i + 1])
    <3> DEFINE x == 1 .. i + 1
    <3>1. x # {} /\ Max(x) = i + 1 /\ x \ {i + 1} = 1 .. i
      BY FirstNumbers
    <3>2. x \in SUBSET (1 .. m)
      BY <2>2
    <3> HIDE DEF x
    <3>3. f[x] = OnProcess(rate, f[x \ {Max(x)}], buffers[Max(x)])
      BY <1>2, <3>1, <3>2 DEF BuffersFold
    <3> QED
      BY <3>1, <3>3 DEF x
  <2> DEFINE a == ends[i]
             b == ends[i + 1] - ends[i]
  <2>6. a \in Nat /\ b \in Nat /\ a + b = ends[i + 1]
        /\ buffers[i + 1] = [k \in 1 .. b |-> a + k]
    BY <2>3, <2>4
  <2> HIDE DEF a, b
  <2>7. OnProcess(rate, After(rate, a), buffers[i + 1]) = After(rate, a + b)
    BY <2>6, AfterBuffer
  <2> QED
    BY <2>1, <2>5, <2>6, <2>7 DEF a
<1> HIDE DEF T
<1>5. m \in T
  BY <1>3, <1>4, SetInduction
<1> QED
  BY <1>2, <1>5 DEF T, buffers

\* What a capture leaves in the ring, at any rate and however PipeWire cuts it, is the
\* source at the model's pace: on_process drops and repeats no sample at the edge of a
\* buffer.
THEOREM ResamplingJoins ==
  ASSUME NEW rate \in Rates, NEW m \in Nat, NEW ends \in [0 .. m -> Nat], ends[0] = 0,
         \A i \in 1 .. m : ends[i - 1] <= ends[i]
  PROVE  Captured(rate, Buffers(m, ends)).ring = Sampled(rate, ends[m])
BY AfterBuffers DEF After

\* The property of the run is its instance for captures of MaxFrames frames.
THEOREM RecordsWhole == Spec => []RecordingIsWhole
<1>1. BuffersJoin
  <2> SUFFICES ASSUME NEW rate \in Rates, NEW m \in 0 .. MaxBuffers, NEW ends \in Cuts(m)
               PROVE  Captured(rate, Buffers(m, ends)).ring = Sampled(rate, ends[m])
    BY DEF BuffersJoin
  <2>1. /\ m \in Nat /\ ends \in [0 .. m -> Nat] /\ ends[0] = 0
        /\ \A i \in 1 .. m : ends[i - 1] <= ends[i]
    BY RatesAssumption DEF Cuts
  <2> QED
    BY <2>1, ResamplingJoins
<1>2. RecordingIsWhole
  BY <1>1 DEF RecordingIsWhole
<1> QED
  BY <1>2, PTL
=============================================================================
