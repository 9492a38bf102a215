------------------------------ MODULE AudioTurns ------------------------------
(***************************************************************************)
(* Spoken turns of one worker process: an uploaded recording becomes a     *)
(* temporary file (app/core/audio_upload.py), waits for one of the         *)
(* worker's transcription permits, is transcribed in a thread              *)
(* (app/core/audio.py) and is removed (/process-audio/ and                 *)
(* /process-audio/stream in app/api/endpoints.py).                         *)
(*                                                                         *)
(* The task of a streamed turn is cancelled when its client leaves; a      *)
(* thread cannot be.  A thread whose GPU run fails puts the worker's model *)
(* on the CPU and transcribes the file again from its beginning.           *)
(*                                                                         *)
(* The spoken answer is written after the response, under a name of its    *)
(* own, and becomes the file the response announced by a rename.  What a   *)
(* killed worker leaves behind is not here.                                *)
(***************************************************************************)
EXTENDS Naturals, Sequences, FiniteSets

CONSTANTS
    Streamed,   \* turns of /process-audio/stream
    Whole,      \* turns of /process-audio/
    Permits,    \* audio_max_concurrent_transcriptions
    Segments,   \* segments of speech in a recording
    Gpu,        \* whether the model starts on a GPU
    Spoken      \* turns that ask for a spoken answer (return_voice)

ASSUME AudioAssumption ==
    /\ Permits \in Nat \ {0} /\ Segments \in Nat
    /\ Streamed \cap Whole = {} /\ Gpu \in BOOLEAN /\ Spoken \subseteq Streamed \union Whole

VARIABLES
    turn,     \* the task of each turn
    waiting,  \* tasks waiting for a permit, in the order they came
    permits,  \* permits left
    file,     \* whether the turn's temporary file exists
    thread,   \* each turn's thread: the device it runs on and its place, or none
    parts,    \* what the thread has transcribed
    text,     \* what the turn was processed with
    device,   \* where the worker's model is loaded
    voice     \* the spoken answer of each turn: its job, its file, what was served

transcriptionVars == <<turn, waiting, permits, file, thread, parts, text, device>>
audioVars == <<transcriptionVars, voice>>

Turns == Streamed \union Whole
NoThread == [on |-> "none", next |-> 1, retried |-> FALSE]
Whisper == [i \in 1..Segments |-> i]
Ended == {"done", "failed", "cancelled"}

AudioInit ==
    /\ turn = [t \in Turns |-> "new"]
    /\ waiting = <<>>
    /\ permits = Permits
    /\ file = [t \in Turns |-> FALSE]
    /\ thread = [t \in Turns |-> NoThread]
    /\ parts = [t \in Turns |-> <<>>]
    /\ text = [t \in Turns |-> <<>>]
    /\ device = IF Gpu THEN "gpu" ELSE "cpu"
    /\ voice = [t \in Turns |-> [job |-> "none", file |-> "none", served |-> {}]]

-----------------------------------------------------------------------------
(* The task of a turn *)

\* The upload is copied to a temporary file.
Upload(t) ==
    /\ turn[t] = "new"
    /\ file' = [file EXCEPT ![t] = TRUE]
    /\ turn' = [turn EXCEPT ![t] = "queued"]
    /\ waiting' = Append(waiting, t)
    /\ UNCHANGED <<permits, thread, parts, text, device>>

\* Too large, empty or of an unknown format: no file is left.
RejectUpload(t) ==
    /\ turn[t] = "new"
    /\ turn' = [turn EXCEPT ![t] = "failed"]
    /\ UNCHANGED <<waiting, permits, file, thread, parts, text, device>>

\* The semaphore is fair: the task that waited longest gets a permit first.
StartThread(t) ==
    /\ permits > 0 /\ waiting # <<>> /\ Head(waiting) = t
    /\ waiting' = Tail(waiting)
    /\ permits' = permits - 1
    /\ turn' = [turn EXCEPT ![t] = "transcribing"]
    /\ thread' = [thread EXCEPT ![t] = [on |-> device, next |-> 1, retried |-> FALSE]]
    /\ UNCHANGED <<file, parts, text, device>>

\* The thread returned: the permit goes back and the text is processed.
Transcribed(t) ==
    /\ turn[t] = "transcribing"
    /\ thread[t].on = "none"
    /\ permits' = permits + 1
    /\ text' = [text EXCEPT ![t] = parts[t]]
    /\ turn' = [turn EXCEPT ![t] = "processing"]
    /\ UNCHANGED <<waiting, file, thread, parts, device>>

\* finally: the temporary file is removed however the turn ends.
End(t, how) ==
    /\ turn' = [turn EXCEPT ![t] = how]
    /\ file' = [file EXCEPT ![t] = FALSE]

\* maybe_generate_voice: the response names the file, a background task writes it.
Announce(t) ==
    voice' = IF t \in Spoken THEN [voice EXCEPT ![t].job = "announced"] ELSE voice

Processed(t) ==
    /\ turn[t] = "processing"
    /\ \/ End(t, "done") /\ Announce(t)
       \/ End(t, "failed") /\ UNCHANGED voice
    /\ UNCHANGED <<waiting, permits, thread, parts, text, device>>

\* Bug: a task cancelled while its thread runs keeps its permit.
PermitsAfterCancelKept(t) == permits

PermitsAfterCancel(t) ==
    IF turn[t] = "transcribing" THEN permits + 1 ELSE permits

\* What a queue keeps when its i-th place is given up.
Without(queue, i) ==
    [j \in 1..(Len(queue) - 1) |-> IF j < i THEN queue[j] ELSE queue[j + 1]]

\* A task cancelled while it waits for its permit waits no more.
LeavesQueue(t) ==
    IF turn[t] = "queued"
    THEN \E i \in DOMAIN waiting : waiting[i] = t /\ waiting' = Without(waiting, i)
    ELSE UNCHANGED waiting

\* The client of a streamed turn is gone: its task is cancelled where it waits,
\* the permit goes back and the file is removed, but its thread goes on.
ClientLeaves(t) ==
    /\ t \in Streamed
    /\ turn[t] \in {"queued", "transcribing", "processing"}
    /\ permits' = PermitsAfterCancel(t)
    /\ LeavesQueue(t)
    /\ End(t, "cancelled")
    /\ UNCHANGED <<thread, parts, text, device>>

-----------------------------------------------------------------------------
(* The thread: transcribe and transcribe_segments *)

Running(t) == thread[t].on # "none"

Segment(t) ==
    /\ Running(t) /\ thread[t].next <= Segments
    /\ parts' = [parts EXCEPT ![t] = Append(@, thread[t].next)]
    /\ thread' = [thread EXCEPT ![t].next = @ + 1]
    /\ UNCHANGED <<turn, waiting, permits, file, text, device>>

ThreadReturns(t) ==
    /\ Running(t) /\ thread[t].next > Segments
    /\ thread' = [thread EXCEPT ![t].on = "none"]
    /\ UNCHANGED <<turn, waiting, permits, file, parts, text, device>>

\* Bug: the second run goes on where the first one failed.
StartOverAtFailure(t) == [on |-> "cpu", next |-> thread[t].next + 1, retried |-> TRUE]

StartOver(t) == [on |-> "cpu", next |-> 1, retried |-> TRUE]

\* A GPU failure, at any segment: once, the worker's model is loaded anew on the
\* CPU and the file is read again from the beginning.  A streamed turn keeps the
\* segments it has announced; the other kind had announced none.
GpuFails(t) ==
    /\ Running(t) /\ thread[t].on = "gpu" /\ thread[t].next <= Segments
    /\ device' = "cpu"
    /\ thread' = [thread EXCEPT ![t] = StartOver(t)]
    /\ parts' = IF t \in Streamed THEN parts ELSE [parts EXCEPT ![t] = <<>>]
    /\ UNCHANGED <<turn, waiting, permits, file, text>>

\* Any other failure is the turn's own, unless its task is gone already.
ThreadFails(t) ==
    /\ Running(t)
    /\ thread' = [thread EXCEPT ![t].on = "none"]
    /\ IF turn[t] = "transcribing"
       THEN /\ End(t, "failed")
            /\ permits' = permits + 1
       ELSE UNCHANGED <<turn, file, permits>>
    /\ UNCHANGED <<waiting, parts, text, device>>

-----------------------------------------------------------------------------
(* The spoken answer: synthesize_to_final_path, get_audio, cleanup_audio_cache *)

\* Bug: the speech is written to the announced file itself.
SpeakInPlace(t) ==
    /\ voice[t].job = "announced"
    /\ voice' = [voice EXCEPT ![t].job = "speaking", ![t].file = "part"]

Speak(t) ==
    /\ voice[t].job = "announced"
    /\ voice' = [voice EXCEPT ![t].job = "speaking"]

SpeechBegins(t) == Speak(t) /\ UNCHANGED transcriptionVars

\* Without a speech service the answer is a second of silence, written the same
\* way; where the service fails, no file appears.
SpeechEnds(t) ==
    /\ voice[t].job = "speaking"
    /\ voice' \in {[voice EXCEPT ![t].job = "ended", ![t].file = "whole"],
                   [voice EXCEPT ![t].job = "ended"]}
    /\ UNCHANGED transcriptionVars

AudioServed(t) ==
    /\ turn[t] = "done" /\ t \in Spoken
    /\ voice' = [voice EXCEPT ![t].served = @ \union {voice[t].file}]
    /\ UNCHANGED transcriptionVars

\* Hours later.
CleanUp(t) ==
    /\ voice[t].file = "whole"
    /\ voice' = [voice EXCEPT ![t].file = "none"]
    /\ UNCHANGED transcriptionVars

TranscriptionNext(t) ==
    \/ Upload(t) \/ RejectUpload(t) \/ StartThread(t) \/ Transcribed(t) \/ ClientLeaves(t)
    \/ Segment(t) \/ ThreadReturns(t) \/ GpuFails(t) \/ ThreadFails(t)

AudioNext ==
    \E t \in Turns :
        \/ TranscriptionNext(t) /\ UNCHANGED voice
        \/ Processed(t)
        \/ SpeechBegins(t) \/ SpeechEnds(t) \/ AudioServed(t) \/ CleanUp(t)

\* The event loop runs every task that can go on, and every thread runs.
AudioFairness ==
    \A t \in Turns :
        /\ WF_audioVars(StartThread(t) /\ UNCHANGED voice)
        /\ WF_audioVars(Transcribed(t) /\ UNCHANGED voice)
        /\ WF_audioVars(Processed(t))
        /\ WF_audioVars(Segment(t) /\ UNCHANGED voice)
        /\ WF_audioVars(ThreadReturns(t) /\ UNCHANGED voice)

AudioSpec == AudioInit /\ [][AudioNext]_audioVars /\ AudioFairness

-----------------------------------------------------------------------------
(* Properties *)

InTurn == {t \in Turns : turn[t] = "transcribing"}
Orphans == {t \in Turns : Running(t) /\ turn[t] = "cancelled"}

\* A permit is held by exactly the turns that transcribe, and a thread that
\* runs without a permit is one whose streamed turn was cancelled; while a turn
\* waits for or uses its file the file is there, and after its end it is not.
\* Who fetches a spoken answer gets all of it or nothing.
PermitsAndFiles ==
    /\ permits + Cardinality(InTurn) = Permits
    /\ \A t \in Turns : Running(t) => t \in InTurn \union Orphans
    /\ Orphans \subseteq Streamed
    /\ \A t \in Turns : /\ file[t] <=> turn[t] \notin Ended \union {"new"}
                       /\ voice[t].served \subseteq {"none", "whole"}

\* A turn is processed with the whole recording in its order.  Only a streamed
\* turn whose thread changed from the GPU to the CPU may have segments twice: a
\* first part, then everything.
TranscriptWhole ==
    \A t \in Turns : turn[t] \in {"processing", "done"} =>
        \/ text[t] = Whisper
        \/ /\ t \in Streamed /\ thread[t].retried
           /\ \E n \in 1..Segments : text[t] = SubSeq(Whisper, 1, n) \o Whisper

\* Every recording that was accepted ends in an answer, an error or a client
\* that left, although threads of clients that left keep running.
EveryRecordingEnds == \A t \in Turns : turn[t] = "queued" ~> turn[t] \in Ended
=============================================================================
