---------------------------- MODULE AudioTapProofs ----------------------------
(***************************************************************************)
(* The safety of AudioTap for calls of any length, any range of sequence   *)
(* numbers, and with or without failures.                                  *)
(***************************************************************************)
EXTENDS AudioTap, TLAPS

THEOREM InitIInv == Init => IInv
<1> SUFFICES ASSUME Init PROVE IInv
  OBVIOUS
<1>1. TypeOK
  <2>1. NoChunk \in Chunks
    BY DEF NoChunk, Chunks
  <2>2. Unscored \in Scores
    BY DEF Unscored, Scores
  <2>3. ended \in BOOLEAN
    BY Zenon DEF Init
  <2>4. sent \in 0..MaxPackets /\ wire \subseteq 1..sent /\ next \in Nat
    BY TapAssumption, SMT DEF Init
  <2> QED
    BY <2>1, <2>2, <2>3, <2>4 DEF Init, TypeOK
<1>2. AudioHeardOnce /\ OneRowPerIndex /\ NudgeHasTranscript
  BY SMT DEF Init, AudioHeardOnce, OneRowPerIndex, NudgeHasTranscript
<1>3. IndicesAreFresh /\ PacketsAreInOnePlace
  BY SMT DEF Init, IndicesAreFresh, PacketsAreInOnePlace
<1>4. HeardIsFlushed /\ ChunksHaveAFate
  BY SMT DEF Init, HeardIsFlushed, ChunksHaveAFate
<1> QED
  BY <1>1, <1>2, <1>3, <1>4 DEF IInv

\* The buffer becomes a chunk, one that is handed over or one that is skipped.
LEMMA HandOverCases ==
  ASSUME IInv, NEW back, HandOver(back)
  PROVE  /\ Buffered \in Chunks /\ Buffered.index = next /\ Buffered.audio = buffer
         /\ \/ /\ buffer = {} /\ pc' = back /\ chunk' = NoChunk
               /\ UNCHANGED <<buffer, next, handed, refused>>
            \/ /\ buffer' = {} /\ next' = next + 1
               /\ pc' = "transcribing" /\ chunk' = Buffered
               /\ handed' = handed \cup {Buffered} /\ UNCHANGED refused
            \/ /\ buffer' = {} /\ next' = next + 1
               /\ pc' = back /\ chunk' = NoChunk
               /\ refused' = refused \cup {Buffered} /\ UNCHANGED handed
<1>1. buffer \subseteq Packets /\ next \in Nat
  BY DEF IInv, TypeOK
<1>2. Buffered \in Chunks /\ Buffered.index = next /\ Buffered.audio = buffer
  BY <1>1 DEF Buffered, Chunks
<1> QED
  BY <1>2 DEF HandOver, Nothing, bufferVars

\* The one place where chunks are made.
LEMMA HandOverIInv ==
  ASSUME IInv, NEW back \in {"sleeping", "done"}, HandOver(back),
         UNCHANGED <<networkVars, heard, threads, rows, ended, unmarked, score>>,
         prompts' \in {prompts, IF pc = "advising" THEN prompts \cup {chunk.index} ELSE prompts},
         \/ UNCHANGED <<tap, cut>> /\ pc = "sleeping" /\ back = "sleeping"
         \/ /\ tap = "open" /\ tap' = "stopping" /\ back = "done"
            /\ cut' = IF pc = "transcribing" THEN cut \cup {chunk} ELSE cut
  PROVE  IInv'
<1> USE DEF networkVars, tableVars
<1> DEFINE d == Buffered
<1>1. /\ d \in Chunks /\ d.index = next /\ d.audio = buffer
      /\ \/ /\ buffer = {} /\ pc' = back /\ chunk' = NoChunk
            /\ UNCHANGED <<buffer, next, handed, refused>>
         \/ /\ buffer' = {} /\ next' = next + 1
            /\ pc' = "transcribing" /\ chunk' = d
            /\ handed' = handed \cup {d} /\ UNCHANGED refused
         \/ /\ buffer' = {} /\ next' = next + 1
            /\ pc' = back /\ chunk' = NoChunk
            /\ refused' = refused \cup {d} /\ UNCHANGED handed
  BY HandOverCases
<1> HIDE DEF d
<1>2. /\ next \in Nat /\ handed \subseteq Chunks /\ buffer \subseteq Packets /\ chunk \in Chunks
      /\ \A c \in handed : c.index \in Nat
  BY DEF IInv, TypeOK, Chunks
<1>3. TypeOK'
  <2>1. NoChunk \in Chunks
    BY DEF NoChunk, Chunks
  <2>2. prompts' \subseteq Nat
    BY <1>2, SMT DEF IInv, TypeOK, Chunks
  <2>3. cut' \subseteq Chunks /\ handed' \subseteq Chunks /\ refused' \subseteq Chunks
    BY <1>1, <1>2 DEF IInv, TypeOK
  <2>4. pc' \in {"sleeping", "transcribing", "inserting", "advising", "done"} /\ chunk' \in Chunks
    BY <1>1, <1>2, <2>1
  <2>5. buffer' \subseteq Packets /\ next' \in Nat
    BY <1>1, <1>2, SMT
  <2> QED
    BY <2>2, <2>3, <2>4, <2>5, SMT DEF IInv, TypeOK
<1>4. AudioHeardOnce'
  BY <1>1, SMT DEF IInv, AudioHeardOnce
<1>5. IndicesAreFresh'
  BY <1>1, <1>2, SMT DEF IInv, IndicesAreFresh
<1>6. OneRowPerIndex'
  BY <1>1, SMT DEF IInv, OneRowPerIndex
<1>7. NudgeHasTranscript'
  BY SMT DEF IInv, NudgeHasTranscript, IndicesAreFresh
<1>8. PacketsAreInOnePlace'
  <2>1. UNCHANGED <<wire, sent>>
    OBVIOUS
  <2>2. \A c \in handed' : c \in handed \/ c.audio = buffer
    BY <1>1
  <2>3. buffer' \subseteq buffer
    BY <1>1
  <2> QED
    BY <2>1, <2>2, <2>3 DEF IInv, PacketsAreInOnePlace
<1>9. HeardIsFlushed'
  <2>1. ASSUME NEW p \in heard
        PROVE  \E c \in handed' \cup refused' : p \in c.audio
    <3>1. p \in buffer \/ \E c \in handed \cup refused : p \in c.audio
      BY DEF IInv, HeardIsFlushed
    <3>2. (buffer = {} \/ d \in handed' \cup refused') /\ handed \cup refused \subseteq handed' \cup refused'
      BY <1>1
    <3>3. CASE p \in buffer
      BY <1>1, <3>2, <3>3
    <3>4. CASE \E c \in handed \cup refused : p \in c.audio
      BY <3>2, <3>4
    <3> QED
      BY <3>1, <3>3, <3>4
  <2>2. heard' = heard
    OBVIOUS
  <2> QED
    BY <2>1, <2>2 DEF HeardIsFlushed
<1>10. ChunksHaveAFate'
  <2>1. CASE UNCHANGED <<tap, cut>> /\ pc = "sleeping" /\ back = "sleeping"
    <3>1. tap = "open" /\ ~ended /\ cut = {}
      BY <2>1, SMT DEF IInv, TypeOK, ChunksHaveAFate
    <3> QED
      BY <1>1, <1>2, <2>1, <3>1, SMT DEF IInv, ChunksHaveAFate
  <2>2. CASE /\ tap = "open" /\ tap' = "stopping" /\ back = "done"
             /\ cut' = IF pc = "transcribing" THEN cut \cup {chunk} ELSE cut
    <3>1. cut = {} /\ ~ended
      BY <2>2 DEF IInv, ChunksHaveAFate
    <3>2. \A c, e \in cut' : c = e /\ c.index + 2 >= next'
      <4>1. \A c \in cut' : pc = "transcribing" /\ c = chunk
        BY <2>2, <3>1
      <4>2. pc = "transcribing" => chunk.index + 1 = next
        BY DEF IInv, ChunksHaveAFate
      <4>3. chunk.index \in Nat /\ next' \in {next, next + 1}
        BY <1>1, <1>2 DEF Chunks
      <4>4. pc = "transcribing" => chunk.index + 2 >= next'
        BY <1>2, <4>2, <4>3, SMT
      <4> QED
        BY <4>1, <4>4, Zenon
    <3>3. handed' \subseteq rows' \cup threads' \cup refused' \cup cut'
                            \cup IF pc' = "transcribing" THEN {chunk'} ELSE {}
      BY <1>1, <2>2, SMT DEF IInv, ChunksHaveAFate
    <3> QED
      BY <1>1, <2>2, <3>1, <3>2, <3>3, SMT DEF IInv, ChunksHaveAFate
  <2> QED
    BY <2>1, <2>2
<1> QED
  BY <1>3, <1>4, <1>5, <1>6, <1>7, <1>8, <1>9, <1>10 DEF IInv

\* A packet goes from the network to the buffer, or to a closed port.
LEMMA OnPacketIInv ==
  ASSUME IInv, NEW p \in Packets, OnPacket(p)
  PROVE  IInv'
<1>1. /\ p \in wire /\ wire' = wire \ {p}
      /\ buffer' \in {buffer, buffer \cup {p}} /\ (tap = "open" => buffer' = buffer \cup {p})
      /\ heard' = IF tap = "open" THEN heard \cup {p} ELSE heard
      /\ UNCHANGED <<base, sent, next, handed, tap, pc, chunk, threads, refused, cut,
                     rows, prompts, ended, unmarked, score>>
  BY DEF OnPacket, taskVars, fateVars, tableVars
<1>2. TypeOK'
  <2>1. wire' \subseteq 1..sent' /\ buffer' \subseteq Packets /\ heard' \subseteq Packets
    BY <1>1 DEF IInv, TypeOK
  <2> QED
    BY <1>1, <2>1 DEF IInv, TypeOK
<1>3. AudioHeardOnce' /\ PacketsAreInOnePlace'
  BY <1>1 DEF IInv, TypeOK, AudioHeardOnce, PacketsAreInOnePlace
<1>4. OneRowPerIndex' /\ NudgeHasTranscript' /\ IndicesAreFresh' /\ ChunksHaveAFate'
  <2>1. OneRowPerIndex' /\ NudgeHasTranscript'
    BY <1>1 DEF IInv, OneRowPerIndex, NudgeHasTranscript
  <2>2. IndicesAreFresh'
    BY <1>1 DEF IInv, IndicesAreFresh
  <2>3. ChunksHaveAFate'
    BY <1>1 DEF IInv, ChunksHaveAFate
  <2> QED
    BY <2>1, <2>2, <2>3
<1>5. HeardIsFlushed'
  BY <1>1 DEF IInv, HeardIsFlushed
<1> QED
  BY <1>2, <1>3, <1>4, <1>5 DEF IInv

THEOREM NextIInv == IInv /\ [Next]_vars => IInv'
<1> SUFFICES ASSUME IInv, [Next]_vars PROVE IInv'
  OBVIOUS
<1> USE DEF IInv, TypeOK, AudioHeardOnce, OneRowPerIndex, NudgeHasTranscript,
            IndicesAreFresh, PacketsAreInOnePlace, HeardIsFlushed, ChunksHaveAFate, Chunks, NoChunk, Scores, Packets,
            networkVars, bufferVars, taskVars, fateVars, tableVars
<1>1. CASE Send
  BY <1>1, TapAssumption, SMT DEF Send
<1>2. CASE \E p \in Packets : Lose(p)
  BY <1>2, SMT DEF Lose
<1>3. CASE \E p \in Packets : OnPacket(p)
  BY <1>3, OnPacketIInv
<1>4. CASE Flush
  BY <1>4, HandOverIInv DEF Flush
<1>5. CASE Silence
  BY <1>5, SMT DEF Silence, CallbackEnds
<1>6. CASE Transcribed
  BY <1>6, SMT DEF Transcribed
<1>7. CASE Inserted
  BY <1>7, SMT DEF Inserted
<1>8. CASE InsertFailed
  BY <1>8, SMT DEF InsertFailed, CallbackEnds
<1>9. CASE Advise
  BY <1>9, SMT DEF Advise, CallbackEnds
<1>10. CASE \E t \in threads : ThreadEnds(t)
  BY <1>10, SMT DEF ThreadEnds
<1>11. CASE Stop
  BY <1>11, HandOverIInv DEF Stop
<1>12. CASE Close
  BY <1>12, SMT DEF Close
<1>13. CASE MarkEnded
  <2>1. ended' \in BOOLEAN /\ unmarked' \in BOOLEAN
    BY <1>13, Zenon DEF MarkEnded
  <2>2. /\ tap = "closed"
        /\ UNCHANGED <<networkVars, bufferVars, tap, heard, taskVars, fateVars, rows, prompts, score>>
    BY <1>13 DEF MarkEnded
  <2> QED
    BY <2>1, <2>2, SMT
<1>14. CASE ProcessCall
  BY <1>14, SMT DEF ProcessCall
<1>15. CASE UNCHANGED vars
  BY <1>15, SMT DEF vars
<1> QED
  BY <1>1, <1>2, <1>3, <1>4, <1>5, <1>6, <1>7, <1>8, <1>9, <1>10, <1>11, <1>12, <1>13, <1>14,
     <1>15 DEF Next, TaskStep

\* The inductive invariant of AudioTap, type correctness included.
THEOREM IInvHolds == Spec => []IInv
  BY InitIInv, NextIInv, PTL DEF Spec

\* No packet is transcribed twice (chunker.py replaces the buffer before it
\* awaits the callback).
THEOREM NoPacketTwice == Spec => []AudioHeardOnce
  BY IInvHolds, PTL DEF IInv

\* One transcript row per chunk index, cancelled callbacks and late threads
\* included.
THEOREM ChunkRowsAreUnique == Spec => []OneRowPerIndex
  BY IInvHolds, PTL DEF IInv

\* Every nudge has its transcript row.
THEOREM NudgesAreBacked == Spec => []NudgeHasTranscript
  BY IInvHolds, PTL DEF IInv

\* All audio that came before the hang-up is in a row, on its way to one, refused,
\* or in the one chunk whose transcription the hang-up abandoned.
THEOREM AudioHasAFate == Spec => []AudioIsAccountedFor
<1>1. IInv => AudioIsAccountedFor
  BY SMT DEF IInv, HeardIsFlushed, ChunksHaveAFate, AudioIsAccountedFor
<1> QED
  BY <1>1, IInvHolds, PTL
=============================================================================
