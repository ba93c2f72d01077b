------------------------------- MODULE AudioTap -------------------------------
(***************************************************************************)
(* The audio of one call on its way into its QA score: the packets a tap   *)
(* buffers (services/realtime-assist/chunker.py), the chunks its flush     *)
(* task hands to _on_chunk_ready (ari_listener.py), the transcript and     *)
(* prompt rows that writes, the stop of the tap at hang-up, and the read   *)
(* of the qa-scoring worker (services/qa-scoring/worker.py).               *)
(*                                                                         *)
(* Everything in the listener runs on one event loop: an action ends where *)
(* the flush task awaits, and packets arrive and inserts commit meanwhile. *)
(* Database calls run in threads of an executor, which a cancelled await   *)
(* leaves running.  A packet is named by the order in which Asterisk sent  *)
(* it; the network loses and reorders packets and does not duplicate them. *)
(***************************************************************************)
EXTENDS Naturals, FiniteSets

CONSTANTS MaxPackets,  \* packets of the call (bounds a run)
          SeqModulus,  \* RTP sequence numbers, 65536 on the wire
          MayFail      \* audio of half a sample, Groq or Postgres may fail a step

ASSUME TapAssumption ==
    /\ MaxPackets \in Nat
    /\ SeqModulus \in Nat /\ SeqModulus >= MaxPackets  \* a call within one cycle
    /\ MayFail \in BOOLEAN

VARIABLES
    base,     \* the sequence number Asterisk starts from
    sent,     \* packets sent so far: 1..sent
    wire,     \* packets on the network
    buffer,   \* _buf.packets
    next,     \* _buf.chunk_index
    handed,   \* chunks given to on_chunk_ready
    tap,      \* "open", "stopping" (its stop is awaited), "closed"
    heard,    \* history: the packets that arrived before the stop
    pc,       \* what the flush task awaits
    chunk,    \* the chunk it is in the callback with
    threads,  \* transcript inserts running in the executor
    refused,  \* history: chunks skipped, found silent, or lost to a failure
    cut,      \* history: chunks whose transcription the stop abandoned
    rows,     \* the transcripts rows
    prompts,  \* chunk indices of the realtime_prompts rows
    ended,    \* calls.ended_at is set
    unmarked, \* the one attempt to set it raised
    score     \* the qa_scores row, with the transcript rows it was given

networkVars == <<base, sent, wire>>
bufferVars == <<buffer, next, handed>>
taskVars == <<pc, chunk, threads>>
fateVars == <<refused, cut>>
tableVars == <<rows, prompts, ended, unmarked, score>>
vars == <<networkVars, bufferVars, tap, heard, taskVars, fateVars, tableVars>>

Packets == 1..MaxPackets
SeqNo(p) == (base + p) % SeqModulus

Chunks == [index : Nat, audio : SUBSET Packets]
NoChunk == [index |-> 0, audio |-> {}]
Scores == [verdict : {"none", "no_audio", "failed", "scored"}, read : SUBSET Chunks]
Unscored == [verdict |-> "none", read |-> {}]

TypeOK ==
    /\ base \in 0..(SeqModulus - 1)
    /\ sent \in 0..MaxPackets
    /\ wire \subseteq 1..sent
    /\ buffer \subseteq Packets
    /\ next \in Nat
    /\ handed \subseteq Chunks
    /\ tap \in {"open", "stopping", "closed"}
    /\ heard \subseteq Packets
    /\ pc \in {"sleeping", "transcribing", "inserting", "advising", "done"}
    /\ chunk \in Chunks
    /\ threads \subseteq Chunks
    /\ refused \subseteq Chunks /\ cut \subseteq Chunks
    /\ rows \subseteq Chunks
    /\ prompts \subseteq Nat
    /\ ended \in BOOLEAN /\ unmarked \in BOOLEAN
    /\ score \in Scores

Init ==
    /\ base \in 0..(SeqModulus - 1)
    /\ sent = 0
    /\ wire = {}
    /\ buffer = {} /\ next = 0 /\ handed = {}
    /\ tap = "open" /\ heard = {}
    /\ pc = "sleeping" /\ chunk = NoChunk /\ threads = {}
    /\ refused = {} /\ cut = {}
    /\ rows = {} /\ prompts = {}
    /\ ended = FALSE /\ unmarked = FALSE
    /\ score = Unscored

-----------------------------------------------------------------------------
(* The network. *)

Send ==
    /\ sent < MaxPackets
    /\ sent' = sent + 1
    /\ wire' = wire \cup {sent + 1}
    /\ UNCHANGED <<base, bufferVars, tap, heard, taskVars, fateVars, tableVars>>

Lose(p) ==
    /\ p \in wire
    /\ wire' = wire \ {p}
    /\ UNCHANGED <<base, sent, bufferVars, tap, heard, taskVars, fateVars, tableVars>>

\* _on_packet; nobody listens on the port of a closed tap.
OnPacket(p) ==
    /\ p \in wire
    /\ wire' = wire \ {p}
    /\ buffer' = IF tap = "closed" THEN buffer ELSE buffer \cup {p}
    /\ heard' = IF tap = "open" THEN heard \cup {p} ELSE heard
    /\ UNCHANGED <<base, sent, next, handed, tap, taskVars, fateVars, tableVars>>

-----------------------------------------------------------------------------
(* The flush task, until the tap is stopped. *)

Buffered == [index |-> next, audio |-> buffer]

Nothing(back) ==
    /\ buffer = {}
    /\ pc' = back /\ chunk' = NoChunk
    /\ UNCHANGED <<bufferVars, refused>>

\* Mutant: the buffer is cleared when the callback is through.
HandOverKeeping(back) ==
    \/ Nothing(back)
    \/ /\ buffer # {}
       /\ pc' = "transcribing" /\ chunk' = Buffered
       /\ handed' = handed \cup {Buffered}
       /\ next' = next + 1
       /\ UNCHANGED <<buffer, refused>>

\* Mutant: the index is advanced when the callback is through.
HandOverSameIndex(back) ==
    \/ Nothing(back)
    \/ /\ buffer # {}
       /\ pc' = "transcribing" /\ chunk' = Buffered
       /\ handed' = handed \cup {Buffered}
       /\ buffer' = {}
       /\ next' = IF tap = "open" THEN next ELSE next + 1
       /\ UNCHANGED refused

\* _flush: nothing buffered, or the buffer becomes the next chunk and is
\* replaced by an empty one; then the callback begins, or byteswap raises and
\* the chunk is skipped.
HandOver(back) ==
    \/ Nothing(back)
    \/ /\ buffer # {}
       /\ buffer' = {}
       /\ next' = next + 1
       /\ \/ pc' = "transcribing" /\ chunk' = Buffered
             /\ handed' = handed \cup {Buffered} /\ UNCHANGED refused
          \/ MayFail /\ pc' = back /\ chunk' = NoChunk
             /\ refused' = refused \cup {Buffered} /\ UNCHANGED handed

\* CHUNK_SECONDS have passed.
Flush ==
    /\ pc = "sleeping"
    /\ HandOver("sleeping")
    /\ UNCHANGED <<networkVars, tap, heard, threads, cut, tableVars>>

-----------------------------------------------------------------------------
(* _on_chunk_ready. *)

\* Mutant: the flush task swallows its cancellation.
CallbackEndsAsleep == pc' = "sleeping" /\ chunk' = NoChunk

\* The callback returns or raises (_flush logs that): the task sleeps again, or
\* has made its last flush.
CallbackEnds == pc' = (IF tap = "open" THEN "sleeping" ELSE "done") /\ chunk' = NoChunk

\* transcribe_chunk found no speech, or failed.
Silence ==
    /\ pc = "transcribing"
    /\ MayFail
    /\ refused' = refused \cup {chunk}
    /\ CallbackEnds
    /\ UNCHANGED <<networkVars, bufferVars, tap, heard, threads, cut, tableVars>>

\* It returned a text; the insert of the row starts in a thread.
Transcribed ==
    /\ pc = "transcribing"
    /\ pc' = "inserting"
    /\ threads' = threads \cup {chunk}
    /\ UNCHANGED <<networkVars, bufferVars, tap, heard, chunk, fateVars, tableVars>>

\* A thread commits its row or fails, whether or not the task still waits for it.
ThreadEnds(t) ==
    /\ t \in threads
    /\ threads' = threads \ {t}
    /\ \/ rows' = rows \cup {t} /\ UNCHANGED refused
       \/ MayFail /\ refused' = refused \cup {t} /\ UNCHANGED rows
    /\ UNCHANGED <<networkVars, bufferVars, tap, heard, pc, chunk, cut, prompts, ended, unmarked, score>>

Inserted ==
    /\ pc = "inserting" /\ chunk \in rows
    /\ pc' = "advising"
    /\ UNCHANGED <<networkVars, bufferVars, tap, heard, chunk, threads, fateVars, tableVars>>

InsertFailed ==
    /\ pc = "inserting" /\ chunk \notin threads \cup rows
    /\ CallbackEnds
    /\ UNCHANGED <<networkVars, bufferVars, tap, heard, threads, fateVars, tableVars>>

\* maybe_generate_nudge has something to say, and it is stored and broadcast,
\* or not.
Advise ==
    /\ pc = "advising"
    /\ prompts' \in {prompts, prompts \cup {chunk.index}}
    /\ CallbackEnds
    /\ UNCHANGED <<networkVars, bufferVars, tap, heard, threads, fateVars, rows, ended, unmarked, score>>

-----------------------------------------------------------------------------
(* The end of the call. *)

\* Mutant: the cancelled task makes no last flush.
StopAbruptly ==
    /\ tap = "open"
    /\ tap' = "stopping"
    /\ pc' = "done" /\ chunk' = NoChunk
    /\ cut' = IF pc = "transcribing" THEN cut \cup {chunk} ELSE cut
    /\ UNCHANGED <<networkVars, bufferVars, heard, threads, refused, tableVars>>

\* stop(): the flush task is cancelled where it is.  A callback under way is
\* abandoned, its thread (which may be storing a row or a prompt) is not, and
\* whatever is buffered is flushed.
Stop ==
    /\ tap = "open"
    /\ tap' = "stopping"
    /\ HandOver("done")
    /\ cut' = IF pc = "transcribing" THEN cut \cup {chunk} ELSE cut
    /\ prompts' \in {prompts, IF pc = "advising" THEN prompts \cup {chunk.index} ELSE prompts}
    /\ UNCHANGED <<networkVars, heard, threads, rows, ended, unmarked, score>>

\* The stopped task is awaited and the socket closed.
Close ==
    /\ tap = "stopping" /\ pc = "done"
    /\ tap' = "closed"
    /\ UNCHANGED <<networkVars, bufferVars, heard, taskVars, fateVars, tableVars>>

\* mark_call_ended, tried once: the event loop logs what it raises.
MarkEnded ==
    /\ tap = "closed" /\ ~ended /\ ~unmarked
    /\ \/ ended' = TRUE /\ UNCHANGED unmarked
       \/ MayFail /\ unmarked' = TRUE /\ UNCHANGED ended
    /\ UNCHANGED <<networkVars, bufferVars, tap, heard, taskVars, fateVars, rows, prompts, score>>

\* process_call: the rows there are, or a flag for want of any.
ProcessCall ==
    /\ ended /\ score.verdict = "none"
    /\ \E v \in (IF rows = {} THEN {"no_audio"}
                 ELSE IF MayFail THEN {"scored", "failed"} ELSE {"scored"}) :
          score' = [verdict |-> v, read |-> rows]
    /\ UNCHANGED <<networkVars, bufferVars, tap, heard, taskVars, fateVars, rows, prompts, ended, unmarked>>

TaskStep == Silence \/ Transcribed \/ Inserted \/ InsertFailed \/ Advise

Next ==
    \/ Send \/ Flush \/ TaskStep \/ Stop \/ Close \/ MarkEnded \/ ProcessCall
    \/ \E p \in Packets : Lose(p) \/ OnPacket(p)
    \/ \E t \in threads : ThreadEnds(t)

Spec == Init /\ [][Next]_vars

\* The event loop, the executor's threads and the polling loop of the worker go
\* on by themselves; packets and hang-ups are not owed.
FairSpec ==
    /\ Spec
    /\ WF_vars(TaskStep) /\ WF_vars(Close) /\ WF_vars(MarkEnded) /\ WF_vars(ProcessCall)
    /\ WF_vars(\E t \in threads : ThreadEnds(t))

-----------------------------------------------------------------------------
(* Safety. *)

\* No packet is transcribed twice: packets that arrive while a chunk is in its
\* callback wait for the next one.
AudioHeardOnce ==
    /\ \A c, d \in handed : c # d => c.audio \cap d.audio = {}
    /\ \A c \in handed : c.audio \cap buffer = {}

\* One row per chunk index, in whatever order the rows are committed, so that
\* the worker's ORDER BY chunk_index puts every chunk in its place, a callback
\* cancelled half-way and the last flush included.
OneRowPerIndex ==
    /\ \A r, s \in rows \cup threads : r.index = s.index => r = s
    /\ rows \subseteq handed

\* When the call is marked ended, all audio that came before the hang-up is in a
\* row, or in one whose insert still runs, or was refused (a skipped chunk, no
\* speech, a failure), or is the one chunk whose transcription the hang-up
\* abandoned, the last or the last but one: nothing goes missing between the
\* buffer, the callback, the cancelled task and its last flush.
AudioIsAccountedFor ==
    ended =>
      /\ heard \subseteq UNION {c.audio : c \in rows \cup threads \cup refused \cup cut}
      /\ \A c, d \in cut : c = d /\ c.index + 2 >= next

\* A nudge points at a transcript row that is there.
NudgeHasTranscript == \A i \in prompts : \E r \in rows : r.index = i

\* Liveness: once the tap is stopped, the call comes up in the QA table, unless
\* the one attempt to mark it ended raised; nothing else, a cancelled callback or
\* a thread left behind, keeps it back.
StoppedCallIsScored == tap = "stopping" ~> score.verdict # "none" \/ unmarked

-----------------------------------------------------------------------------
(* The inductive invariant. *)

\* Chunk indices are handed out in order, so a new chunk has a fresh one; the
\* chunk in the callback and those in threads are among those handed out.
IndicesAreFresh ==
    /\ \A c \in handed : c.index < next
    /\ \A c, d \in handed : c.index = d.index => c = d
    /\ threads \cup rows \subseteq handed
    /\ pc \in {"transcribing", "inserting", "advising"} => chunk \in handed
    /\ pc = "advising" => chunk \in rows

\* A packet is on the network, in the buffer or in one chunk.
PacketsAreInOnePlace ==
    /\ buffer \subseteq 1..sent /\ wire \cap buffer = {}
    /\ \A c \in handed : c.audio \subseteq 1..sent /\ wire \cap c.audio = {}

\* What was heard waits in the buffer, up to the stop, or is in a chunk.
HeardIsFlushed ==
    heard \subseteq (UNION {c.audio : c \in handed \cup refused})
                  \cup (IF tap = "open" THEN buffer ELSE {})

\* Each chunk handed over comes to one of four ends, and only one is cut.
ChunksHaveAFate ==
    /\ handed \subseteq rows \cup threads \cup refused \cup cut
                       \cup (IF pc = "transcribing" THEN {chunk} ELSE {})
    /\ pc = "transcribing" => chunk.index + 1 = next
    /\ IF tap = "open" THEN cut = {}
       ELSE \A c, d \in cut : c = d /\ c.index + 2 >= next
    /\ tap # "open" => pc # "sleeping"
    /\ tap = "closed" \/ ended => tap = "closed" /\ pc = "done"

IInv ==
    /\ TypeOK /\ AudioHeardOnce /\ OneRowPerIndex /\ NudgeHasTranscript
    /\ IndicesAreFresh /\ PacketsAreInOnePlace /\ HeardIsFlushed /\ ChunksHaveAFate

-----------------------------------------------------------------------------
(* What the code says, refuted by what it does. *)

\* chunker.py:59-60, "Keyed by RTP sequence number so out-of-order arrivals get
\* sorted correctly at flush time": the sorted chunk is in the order spoken.
ChunkIsInOrder ==
    \A c \in handed : \A p, q \in c.audio : p < q => SeqNo(p) < SeqNo(q)

\* qa-scoring/worker.py:36, "No audio was captured for this call": a call
\* flagged so has no transcript.
FlaggedCallIsSilent == score.verdict = "no_audio" => rows = {}
=============================================================================
