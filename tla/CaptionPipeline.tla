---------------------------- MODULE CaptionPipeline ----------------------------
(***************************************************************************)
(* From audio to captions: FfmpegAudioTranscoder in                        *)
(* server/transcription/audioPipeline.ts decodes a chapter with FFmpeg and *)
(* cuts it into overlapping windows, the speech service hears the words of *)
(* each, WindowWordStitcher (windowStitcher.ts) drops what two windows     *)
(* both heard, CaptionSegmenter (packages/captions) makes segments of the  *)
(* words, and the codec and CaptionLookup write and read the track.        *)
(* TranscriptionManager.execute drives it, one window at a time.           *)
(*                                                                         *)
(* Times are whole units; PCM is counted in units of time.                 *)
(***************************************************************************)
EXTENDS Integers, FiniteSets, Sequences, FiniteSetsExt, SequencesExt

CONSTANTS
    Window, Context,          \* WINDOW_MILLISECONDS, CONTEXT_MILLISECONDS
    TailTime, Tolerance,      \* STITCH_TAIL_DURATION_MS, STITCH_ALIGNMENT_TOLERANCE_MS
    TailWords, HeadWords,     \* the most words kept back, and aligned with them
    Linger, MaxGap, MaxDuration, MaxWords, MinSegment,  \* segmentation options
    Chunks,                   \* bound: how much PCM a read may return
    Recordings,               \* what is said: sets of records of a length and its words
    Drifts                    \* how much later than said a word may be heard

ASSUME TimesAssumption ==
    /\ {Window, Context, TailTime, MaxDuration, MaxWords} \subseteq Nat \ {0}
    /\ {Tolerance, Linger, MaxGap, MinSegment} \subseteq Nat
    /\ {TailWords, HeadWords} \subseteq Nat
    /\ Window > 2 * Context /\ TailTime > Context

ASSUME BoundsAssumption ==
    /\ Chunks \subseteq Nat \ {0} /\ \E most \in Chunks : \A n \in Chunks : n <= most
    /\ Drifts \subseteq Nat

(* A word, heard from start to end; stop: a sentence ends with it. *)
Words ==
    {w \in [text : STRING, start : Nat, end : Nat, stop : BOOLEAN] : w.start <= w.end}

ASSUME RecordingsAssumption ==
    \A r \in Recordings : r.length \in Nat /\ r.words \in Seq(Words)

VARIABLES
    said,     \* the recording that is transcribed, and whether FFmpeg reads its file itself
    decode,   \* transcodePcmWindows and transcode
    ffmpeg,   \* the process
    pump,     \* pumpInput
    job,      \* the attempt that transcribes
    captions, \* its stitcher and its segmenter
    track     \* what it stored

vars == <<said, decode, ffmpeg, pump, job, captions, track>>

Smaller(a, b) == IF a <= b THEN a ELSE b
Larger(a, b) == IF a >= b THEN a ELSE b

(* What a sequence has at the places of chosen, in its order *)
Among(seq, chosen) ==
    LET kept[n \in 0..Len(seq)] ==
            IF n = 0 THEN <<>>
            ELSE IF n \in chosen THEN Append(kept[n - 1], seq[n]) ELSE kept[n - 1]
    IN  kept[Len(seq)]

--------------------------------------------------------------------------------
(* The stitcher *)

Before(v, w) == v.start < w.start \/ (v.start = w.start /\ v.end <= w.end)

Insert(words, w) ==
    LET n == Cardinality({i \in DOMAIN words : Before(words[i], w)})
    IN  SubSeq(words, 1, n) \o <<w>> \o SubSeq(words, n + 1, Len(words))

Sorted(words) ==
    LET sorted[n \in 0..Len(words)] ==
            IF n = 0 THEN <<>> ELSE Insert(sorted[n - 1], words[n])
    IN  sorted[Len(words)]

Overlap(v, w) == Smaller(v.end, w.end) - Larger(v.start, w.start)
Distance(v, w) ==  \* of the midpoints, doubled
    LET d == v.start + v.end - w.start - w.end IN IF d >= 0 THEN d ELSE -d

CanAlign(v, w) == v.text = w.text /\ -Overlap(v, w) <= Tolerance

OverlapHead(prior, current) ==
    LET latest == Max({w.end : w \in ToSet(prior)} \union {0})
        near == SelectSeq(current, LAMBDA w : /\ w.end >= prior[1].start - Tolerance
                                              /\ w.start <= latest + Tolerance)
    IN  SubSeq(near, 1, Smaller(HeadWords, Len(near)))

Reward == 1000  \* more than any distance

(* The alignment of most words, in order and one to one; of those the closest. *)
AlignWindowOverlap(prior, head) ==
    LET Cells == (0..Len(prior)) \X (0..Len(head))
        score[c \in Cells] ==
            IF c[1] = 0 \/ c[2] = 0 THEN 0
            ELSE LET skip == Larger(score[<<c[1] - 1, c[2]>>], score[<<c[1], c[2] - 1>>])
                 IN  IF CanAlign(prior[c[1]], head[c[2]])
                     THEN Larger(skip, score[<<c[1] - 1, c[2] - 1>>] + Reward
                                           - Distance(prior[c[1]], head[c[2]]))
                     ELSE skip
        matched(c) ==
            /\ CanAlign(prior[c[1]], head[c[2]])
            /\ score[c] = score[<<c[1] - 1, c[2] - 1>>] + Reward - Distance(prior[c[1]], head[c[2]])
        trace[c \in Cells] ==
            IF c[1] = 0 \/ c[2] = 0 THEN {}
            ELSE IF matched(c) THEN trace[<<c[1] - 1, c[2] - 1>>] \union {c}
            ELSE IF score[<<c[1] - 1, c[2]>>] >= score[<<c[1], c[2] - 1>>]
                 THEN trace[<<c[1] - 1, c[2]>>] ELSE trace[<<c[1], c[2] - 1>>]
    IN  trace[<<Len(prior), Len(head)>>]

(* One word alone has to overlap to be the same. *)
ReplayedPriorIndices(prior, current) ==
    IF prior = <<>> THEN {}
    ELSE LET head == OverlapHead(prior, current)
             pairs == AlignWindowOverlap(prior, head)
         IN  {p[1] : p \in {q \in pairs : \/ Cardinality(pairs) > 1
                                          \/ Overlap(prior[q[1]], head[q[2]]) > 0}}

(* normalize: no word is emitted that starts before one that was *)
Normalized(stitcher, w) ==
    LET v == IF stitcher.last # <<>> /\ w.start < stitcher.last[1].start
             THEN [w EXCEPT !.start = stitcher.last[1].start,
                            !.end = Larger(stitcher.last[1].start + 1, @)]
             ELSE w
    IN  [stitcher EXCEPT !.last = <<v>>, !.out = Append(@, v)]

Emit(stitcher, words) ==
    LET emitted[n \in 0..Len(words)] ==
            IF n = 0 THEN [stitcher EXCEPT !.out = <<>>]
            ELSE Normalized(emitted[n - 1], words[n])
    IN  emitted[Len(words)]

FaultyPushWindow(stitcher, words, logicalEnd) ==
    LET merged == Sorted(stitcher.tail \o words)
        ready == {i \in DOMAIN merged : merged[i].end < logicalEnd - TailTime}
    IN  [Emit(stitcher, Among(merged, ready)) EXCEPT !.tail = Among(merged, DOMAIN merged \ ready)]

PushWindow(stitcher, words, logicalEnd) ==
    LET current == Sorted(words)
        replayed == ReplayedPriorIndices(stitcher.tail, current)
        merged == Sorted(Among(stitcher.tail, DOMAIN stitcher.tail \ replayed) \o current)
        ready == {i \in DOMAIN merged : merged[i].end < logicalEnd - TailTime}
        late == Among(merged, DOMAIN merged \ ready)
        overflow == Larger(0, Len(late) - TailWords)
    IN  [Emit(stitcher, Among(merged, ready) \o SubSeq(late, 1, overflow))
            EXCEPT !.tail = SubSeq(late, overflow + 1, Len(late))]

FinishStitcher(stitcher) == [Emit(stitcher, stitcher.tail) EXCEPT !.tail = <<>>]

--------------------------------------------------------------------------------
(* The segmenter.  A segment is [start, end, text], its text the sequence of words. *)

NoSegment == [start |-> 0, end |-> 0, text |-> <<>>]

(* A segment lingers until the next one starts; limit is <<>> for the last one. *)
Flush(seg, limit) ==
    IF seg.current = NoSegment THEN seg
    ELSE LET natural == Larger(seg.current.start + 1, seg.current.end + Linger)
             end == IF limit = <<>> THEN natural ELSE Smaller(natural, limit[1])
         IN  [seg EXCEPT !.current = NoSegment, !.boundary = FALSE,
                         !.rejected = @ \/ end <= seg.current.start,
                         !.segments = Append(@, [seg.current EXCEPT !.end = end])]

ShouldFlushBefore(seg, w) ==
    /\ seg.current # NoSegment /\ w.start > seg.current.start
    /\ \/ Larger(0, w.start - seg.current.end) >= MaxGap
       \/ Len(seg.current.text) >= MaxWords
       \/ Larger(seg.current.end, w.end) - seg.current.start > MaxDuration
       \/ seg.boundary /\ seg.current.end - seg.current.start >= MinSegment

(* normalizeWord: a word before its own start or the start of the one before it *)
Refused(seg, w) == w.start < seg.previous \/ w.end < w.start

PushWord(seg, w) ==
    LET flushed == IF ShouldFlushBefore(seg, w) THEN Flush(seg, <<w.start>>) ELSE seg
        current == flushed.current
    IN  [flushed EXCEPT
            !.current = IF current = NoSegment
                        THEN [start |-> w.start, end |-> w.end, text |-> <<w.text>>]
                        ELSE [current EXCEPT !.end = Larger(@, w.end),
                                             !.text = Append(@, w.text)],
            !.previous = w.start,
            !.boundary = w.stop,
            !.rejected = @ \/ Refused(seg, w)]

PushAll(seg, words) ==
    LET after[n \in 0..Len(words)] ==
            IF n = 0 THEN seg ELSE PushWord(after[n - 1], words[n])
    IN  after[Len(words)]

--------------------------------------------------------------------------------
(* The track *)

FaultyClamp(segments, duration) == SelectSeq(segments, LAMBDA s : s.start < duration)

(* clampSegmentsToDuration *)
Clamp(segments, duration) ==
    LET inside == Among(segments, {i \in DOMAIN segments : segments[i].start < duration})
    IN  [i \in DOMAIN inside |-> [inside[i] EXCEPT !.end = Smaller(@, duration)]]

TextBefore(segments, i) ==
    LET before[n \in 0..(i - 1)] ==
            IF n = 0 THEN 0 ELSE before[n - 1] + Len(segments[n].text)
    IN  before[i - 1]

(* What encodeCaptionTrack refuses to write *)
Encodable(duration, segments) ==
    /\ \A i \in DOMAIN segments :
           /\ segments[i].end > segments[i].start /\ segments[i].text # <<>>
           /\ i > 1 => segments[i].start >= segments[i - 1].end
    /\ segments # <<>> => duration >= Last(segments).end

(* The file: a header that tells the sizes of its sections, a record for each segment, *)
(* and one pool with the texts of all                                                    *)
Encode(duration, segments) ==
    [duration |-> duration,
     segmentCount |-> Len(segments), textBytes |-> TextBefore(segments, Len(segments) + 1),
     records |-> [i \in DOMAIN segments |->
                     [start |-> segments[i].start, end |-> segments[i].end,
                      offset |-> TextBefore(segments, i), length |-> Len(segments[i].text)]],
     pool |-> FlattenSeq([i \in DOMAIN segments |-> segments[i].text])]

(* The sections are as long as the header says. *)
Framed(file) ==
    Len(file.records) = file.segmentCount /\ Len(file.pool) = file.textBytes

(* What decodeCaptionTrack accepts: the text ranges follow one another and fill the pool. *)
Decodable(file) ==
    LET r == file.records
        n == Len(r)
        Ends(i) == r[i].offset + r[i].length
    IN  /\ Framed(file)
        /\ \A i \in 1..n :
              /\ r[i].end > r[i].start /\ r[i].end <= file.duration /\ r[i].length > 0
              /\ i > 1 => r[i].start >= r[i - 1].end
              /\ r[i].offset = IF i = 1 THEN 0 ELSE Ends(i - 1)
        /\ file.textBytes = IF n = 0 THEN 0 ELSE Ends(n)

TextAt(file, i) ==
    SubSeq(file.pool, file.records[i].offset + 1, file.records[i].offset + file.records[i].length)

ShowsAt(segment, time) == segment.start <= time /\ time < segment.end

FaultyLastStarted(segments, time) ==
    Max({i \in DOMAIN segments : segments[i].start < time} \union {0})

(* The search of findIndex: the last segment that starts no later than time, or 0 *)
LastStarted(segments, time) ==
    LET size == Len(segments)
        search[c \in (1..(size + 1)) \X (0..size) \X (0..size)] ==
            LET lower == c[1]
                upper == c[2]
                found == c[3]
                middle == lower + (upper - lower) \div 2
            IN  IF lower > upper THEN found
                ELSE IF segments[middle].start <= time
                THEN search[<<middle + 1, upper, middle>>]
                ELSE search[<<lower, middle - 1, found>>]
    IN  search[<<1, size, 0>>]

(* CaptionLookup.seek from the segment that is shown (0: none): it, the next, the  *)
(* one before, and only then the search                                            *)
FindIndex(segments, current, time) ==
    LET Shows(i) == i \in DOMAIN segments /\ ShowsAt(segments[i], time)
        near == {i \in {current, current + 1, current - 1} : Shows(i)}
        found == LastStarted(segments, time)
    IN  IF current \in near THEN current
        ELSE IF near # {} THEN Max(near)
        ELSE IF Shows(found) THEN found ELSE 0

--------------------------------------------------------------------------------
(* State.  decode.at says what transcode awaits: a read of PCM, the words of a     *)
(* window or of the last window, the pump, the end of FFmpeg; after a failure the   *)
(* process stopped, the pump drained.  PCM from decode.buffer up to decode.read is   *)
(* in the ChunkQueue; decode.logical is where the next window begins.               *)

Nobody == [tail |-> <<>>, last |-> <<>>, out |-> <<>>]
NewSegmenter == [current |-> NoSegment, previous |-> -1, boundary |-> FALSE,
                 rejected |-> FALSE, segments |-> <<>>]

Init ==
    /\ \E recording \in Recordings, local \in BOOLEAN :
           /\ said = [recording |-> recording, local |-> local]
           /\ pump = [at |-> IF local THEN "settled" ELSE "reading",
                      failed |-> FALSE, whole |-> local, fed |-> local]
    /\ decode = [at |-> "reading", read |-> 0, buffer |-> 0, logical |-> 0, good |-> FALSE]
    /\ ffmpeg = [alive |-> TRUE, code |-> 0, out |-> 0, kill |-> "no"]
    /\ job = [signal |-> "none", lifecycle |-> FALSE, outcome |-> "none"]
    /\ captions = [stitcher |-> Nobody, segmenter |-> NewSegmenter]
    /\ track = <<>>

Length == said.recording.length

(* lifecycle.abort: FFmpeg is asked to stop, the pump cancels its source. *)
FaultyAsked == ffmpeg
Asked == IF ffmpeg.alive /\ ffmpeg.kill = "no" THEN [ffmpeg EXCEPT !.kill = "asked"] ELSE ffmpeg

Cancelled(p) ==
    CASE p.at = "reading" -> [p EXCEPT !.at = "cancelling"]
      [] p.at = "writing" -> [p EXCEPT !.at = "stuck"]
      [] OTHER -> p

(* The catch of transcode: everything is stopped; what was heard is dropped. *)
Fail(signal) ==
    /\ decode' = [decode EXCEPT !.at = "stopping"]
    /\ job' = [job EXCEPT !.signal = signal, !.lifecycle = TRUE]
    /\ ffmpeg' = Asked
    /\ pump' = Cancelled(pump)
    /\ captions' = [stitcher |-> Nobody, segmenter |-> NewSegmenter]

--------------------------------------------------------------------------------
(* transcodePcmWindows *)

(* The ChunkQueue, and up to where it holds PCM *)
Queued(d) == d.read - d.buffer
AvailableEnd(d) == d.buffer + Queued(d)

WindowEnd(d) == d.logical + Window
FullWindow(d) == AvailableEnd(d) >= WindowEnd(d) + Context

(* What transcodePcmWindows does once nothing is awaited: the next full window, else *)
(* another read; either looks at the signal first                                    *)
GoOn(d) ==
    IF job.lifecycle THEN Fail(job.signal) /\ UNCHANGED <<said, track>>
    ELSE /\ decode' = [d EXCEPT !.at = IF FullWindow(d) THEN "window" ELSE "reading"]
         /\ UNCHANGED <<said, ffmpeg, pump, track>>

(* What FFmpeg has written, or may still write *)
Available == IF ffmpeg.alive THEN Length ELSE ffmpeg.out

ReadPcm(n) ==
    /\ decode.at = "reading" /\ decode.read < Available
    /\ LET d == [decode EXCEPT !.read = Smaller(@ + n, Available)]
       IN  GoOn(d) /\ (job.lifecycle \/ UNCHANGED <<job, captions>>)

(* FFmpeg's output ends.  One that did not end well may have cut a sample in two. *)
ReadEof ==
    /\ decode.at = "reading" /\ ~ffmpeg.alive /\ decode.read = ffmpeg.out
    /\ LET rest == decode.logical < decode.read
       IN  \/ (ffmpeg.code # 0 \/ (rest /\ job.lifecycle)) /\ Fail(job.signal)
           \/ /\ ~(rest /\ job.lifecycle)
              /\ decode' = [decode EXCEPT !.at = IF rest THEN "last" ELSE "input"]
              /\ UNCHANGED <<ffmpeg, pump, job, captions>>
    /\ UNCHANGED <<said, track>>

InputEnd == IF decode.at = "last" THEN decode.read ELSE WindowEnd(decode) + Context
LogicalEnd == IF decode.at = "last" THEN decode.read ELSE WindowEnd(decode)

(* What the service may hear in the PCM from first to last: every word that is there, *)
(* a little late; of those that are cut any, as far as they are there                    *)
Hearings(words, first, last) ==
    LET there == {i \in DOMAIN words : words[i].end > first /\ words[i].start < last}
        cut == {i \in there : words[i].start < first \/ words[i].end > last}
        Part(w) == [w EXCEPT !.start = Larger(@, first), !.end = Smaller(@, last)]
        Late(w, d) == [w EXCEPT !.start = Smaller(@ + d, last), !.end = Smaller(@ + d, last)]
        Said(drift) == [i \in DOMAIN words |->
                            IF i \in there \ cut THEN Late(words[i], drift[i]) ELSE Part(words[i])]
    IN  UNION {{Among(Said(drift), heard) : drift \in [there \ cut -> Drifts]} :
                   heard \in {some \union (there \ cut) : some \in SUBSET cut}}

(* The words of a window are captioned. *)
Hear ==
    \E words \in Hearings(said.recording.words, decode.buffer, InputEnd) :
        LET stitcher == PushWindow(captions.stitcher, words, LogicalEnd)
        IN  /\ captions' = [stitcher |-> [stitcher EXCEPT !.out = <<>>],
                            segmenter |-> PushAll(captions.segmenter, stitcher.out)]
            /\ UNCHANGED job

Advanced(d) == [d EXCEPT !.buffer = WindowEnd(d) - Context, !.logical = WindowEnd(d)]

HearWindow ==
    /\ decode.at = "window" /\ ~job.lifecycle
    /\ Hear /\ GoOn(Advanced(decode))

HearLast ==
    /\ decode.at = "last" /\ job.signal = "none"
    /\ Hear /\ decode' = [decode EXCEPT !.at = "input"]
    /\ UNCHANGED <<said, ffmpeg, pump, track>>

(* By then the attempt is over, or FFmpeg is and there is another window to take. *)
HeardTooLate ==
    /\ \/ decode.at = "window" /\ job.lifecycle
       \/ decode.at = "last" /\ job.signal # "none"
    /\ Fail(job.signal) /\ UNCHANGED <<said, track>>

(* The service fails: the attempt is aborted with its error. *)
HearFails ==
    /\ decode.at \in {"window", "last"} /\ job.signal = "none"
    /\ Fail("speech") /\ UNCHANGED <<said, track>>

--------------------------------------------------------------------------------
(* transcode, once the PCM is read *)

AwaitInput ==
    /\ decode.at = "input" /\ pump.at = "settled"
    /\ IF pump.failed THEN Fail(job.signal)
       ELSE decode' = [decode EXCEPT !.at = "exit"] /\ UNCHANGED <<ffmpeg, pump, job, captions>>
    /\ UNCHANGED <<said, track>>

(* A result needs an FFmpeg that ended well, and samples if there was any input. *)
AwaitExit ==
    /\ decode.at = "exit" /\ ~ffmpeg.alive
    /\ IF ffmpeg.code # 0 \/ (pump.fed /\ decode.read = 0) THEN Fail(job.signal)
       ELSE /\ decode' = [decode EXCEPT !.at = "over", !.good = TRUE]
            /\ UNCHANGED <<ffmpeg, pump, job, captions>>
    /\ UNCHANGED <<said, track>>

FaultyStopped ==
    /\ decode.at = "stopping"
    /\ decode' = [decode EXCEPT !.at = "draining"]
    /\ UNCHANGED <<said, ffmpeg, pump, job, captions, track>>

Stopped ==
    /\ decode.at = "stopping" /\ ~ffmpeg.alive
    /\ decode' = [decode EXCEPT !.at = "draining"]
    /\ UNCHANGED <<said, ffmpeg, pump, job, captions, track>>

Drained ==
    /\ decode.at = "draining" /\ pump.at = "settled"
    /\ decode' = [decode EXCEPT !.at = "over"]
    /\ UNCHANGED <<said, ffmpeg, pump, job, captions, track>>

--------------------------------------------------------------------------------
(* pumpInput: a read of the source, the write of the chunk, and so on *)

PumpReads ==
    /\ pump.at = "reading" /\ pump' = [pump EXCEPT !.at = "writing", !.fed = TRUE]
    /\ UNCHANGED <<said, decode, ffmpeg, job, captions, track>>

(* FFmpeg takes the chunk. *)
PumpWritten ==
    /\ ffmpeg.alive
    /\ \/ pump.at = "writing" /\ pump' = [pump EXCEPT !.at = "reading"]
       \/ pump.at = "stuck" /\ pump' = [pump EXCEPT !.at = "cancelling"]
    /\ UNCHANGED <<said, decode, ffmpeg, job, captions, track>>

PumpEnds ==
    /\ pump.at = "reading" /\ (pump.fed \/ Length = 0)
    /\ pump' = [pump EXCEPT !.at = "settled", !.whole = TRUE]
    /\ UNCHANGED <<said, decode, ffmpeg, job, captions, track>>

(* The source fails, or FFmpeg is no longer there to write to: FFmpeg's input ends, *)
(* and only then is the failure known.                                              *)
PumpFails ==
    /\ pump.at = "reading" \/ (pump.at = "writing" /\ ~ffmpeg.alive)
    /\ pump' = [pump EXCEPT !.at = "failing"]
    /\ UNCHANGED <<said, decode, ffmpeg, job, captions, track>>

PumpFailed ==
    /\ pump.at = "failing"
    /\ pump' = [pump EXCEPT !.at = "settled", !.failed = TRUE]
    /\ ffmpeg' = Asked
    /\ job' = [job EXCEPT !.lifecycle = TRUE]
    /\ UNCHANGED <<said, decode, captions, track>>

(* After a cancellation the read is done, and a write that waits ends with FFmpeg. *)
PumpCancelled ==
    /\ pump.at = "cancelling" \/ (pump.at = "stuck" /\ ~ffmpeg.alive)
    /\ \E failed \in {pump.at = "stuck", TRUE} :
           pump' = [pump EXCEPT !.at = "settled", !.failed = failed]
    /\ UNCHANGED <<said, decode, ffmpeg, job, captions, track>>

--------------------------------------------------------------------------------
(* FFmpeg.  It ends well when it has written all there is, or what it could make of  *)
(* an input that ended early; it may also die anywhere.                              *)

Exits(code, out) == ffmpeg' = [ffmpeg EXCEPT !.alive = FALSE, !.code = code, !.out = out]

FfmpegEnds ==
    /\ ffmpeg.alive
    /\ \E out \in decode.read..Length :
           /\ out = Length \/ (pump.at \in {"failing", "cancelling", "settled"} /\ ~pump.whole)
           /\ Exits(0, out)
    /\ UNCHANGED <<said, decode, pump, job, captions, track>>

FfmpegDies ==
    /\ ffmpeg.alive
    /\ \E out \in decode.read..Length : Exits(1, out)
    /\ UNCHANGED <<said, decode, pump, job, captions, track>>

(* createProcessStopper, the grace period over *)
KillFfmpeg ==
    /\ ffmpeg.alive /\ ffmpeg.kill = "asked"
    /\ ffmpeg' = [ffmpeg EXCEPT !.kill = "forced"]
    /\ UNCHANGED <<said, decode, pump, job, captions, track>>

FfmpegKilled == ffmpeg.kill = "forced" /\ FfmpegDies

--------------------------------------------------------------------------------
(* TranscriptionManager.execute *)

(* Cancelled, timed out or no longer owned *)
Abort ==
    /\ job.outcome = "none" /\ job.signal = "none"
    /\ IF decode.at = "over"
       THEN job' = [job EXCEPT !.signal = "cancelled"] /\ UNCHANGED <<ffmpeg, pump>>
       ELSE /\ job' = [job EXCEPT !.signal = "cancelled", !.lifecycle = TRUE]
            /\ ffmpeg' = Asked /\ pump' = Cancelled(pump)
    /\ UNCHANGED <<said, decode, captions, track>>

(* finish, clampSegmentsToDuration *)
Finished ==
    LET stitcher == FinishStitcher(captions.stitcher)
        segmenter == Flush(PushAll(captions.segmenter, stitcher.out), <<>>)
    IN  [rejected |-> segmenter.rejected, duration |-> decode.read,
         segments |-> Clamp(segmenter.segments, decode.read)]

Accepted(t) == ~t.rejected /\ Encodable(t.duration, t.segments)

Complete ==
    /\ decode.at = "over" /\ decode.good /\ job.signal = "none" /\ job.outcome = "none"
    /\ IF Accepted(Finished)
       THEN /\ track' = <<Encode(Finished.duration, Finished.segments)>>
            /\ job' = [job EXCEPT !.outcome = "completed"]
       ELSE job' = [job EXCEPT !.outcome = "failed"] /\ UNCHANGED track
    /\ captions' = [stitcher |-> Nobody, segmenter |-> NewSegmenter]
    /\ UNCHANGED <<said, decode, ffmpeg, pump>>

(* The attempt failed when it was aborted; it is over when its transcoder has settled. *)
Failed ==
    /\ decode.at = "over" /\ job.outcome = "none"
    /\ job.signal # "none" \/ ~decode.good
    /\ job' = [job EXCEPT !.outcome = "failed"]
    /\ captions' = [stitcher |-> Nobody, segmenter |-> NewSegmenter]
    /\ UNCHANGED <<said, decode, ffmpeg, pump, track>>

Over == job.outcome # "none" /\ UNCHANGED vars

Next ==
    \/ \E n \in Chunks : ReadPcm(n)
    \/ ReadEof \/ HearWindow \/ HearLast \/ HeardTooLate \/ HearFails
    \/ AwaitInput \/ AwaitExit \/ Stopped \/ Drained
    \/ PumpReads \/ PumpWritten \/ PumpEnds \/ PumpFails \/ PumpFailed \/ PumpCancelled
    \/ FfmpegEnds \/ FfmpegDies \/ KillFfmpeg
    \/ Abort \/ Complete \/ Failed \/ Over

(* FFmpeg cannot ignore a kill, what it wrote is read when it is gone, a cancelled    *)
(* source settles, and a request to the service times out at the latest.  Nothing is   *)
(* asked of FFmpeg's speed or of the source.                                            *)
Fairness ==
    /\ WF_vars(~ffmpeg.alive /\ ((\E n \in Chunks : ReadPcm(n)) \/ ReadEof))
    /\ WF_vars(HeardTooLate \/ HearFails)
    /\ WF_vars(AwaitInput) /\ WF_vars(AwaitExit) /\ WF_vars(Stopped) /\ WF_vars(Drained)
    /\ WF_vars(PumpFailed) /\ WF_vars(PumpCancelled)
    /\ WF_vars(KillFfmpeg) /\ WF_vars(FfmpegKilled)
    /\ WF_vars(Failed)

Spec == Init /\ [][Next]_vars /\ Fairness

--------------------------------------------------------------------------------
(* Properties *)

(* Types, and the sizes of what is kept: the queue holds a window with its context *)
(* and a chunk (audioPipeline.ts ChunkQueue), the stitcher a bounded tail.           *)
TypeOK ==
    /\ said.recording \in Recordings /\ said.local \in BOOLEAN
    /\ decode.at \in {"reading", "window", "last", "input", "exit", "stopping", "draining", "over"}
    /\ decode.buffer \in 0..decode.logical
    /\ decode.read \in 0..Length /\ decode.good \in BOOLEAN
    /\ ffmpeg.kill \in {"no", "asked", "forced"} /\ ffmpeg.out \in 0..Length
    /\ pump.at \in {"reading", "writing", "failing", "cancelling", "stuck", "settled"}
    /\ job.signal \in {"none", "cancelled", "speech"}
    /\ job.outcome \in {"none", "completed", "failed"}
    /\ Len(captions.stitcher.tail) <= TailWords

(* The PCM that is kept never exceeds a window with its context on both sides and a *)
(* chunk, however long the chapter: what was heard is discarded (emitFullWindows).  *)
QueueBounded ==
    Queued(decode) < Window + 2 * Context + Max(Chunks)

(* Only a whole recording is ever captioned: no source that failed, and no FFmpeg that *)
(* was stopped or died, leaves a track of the part that was decoded (transcode).        *)
TrackIsWhole == track # <<>> => track[1].duration = Length

(* What was stored can be read: decodeCaptionTrack accepts it. *)
TrackIsReadable == track # <<>> => Decodable(track[1])

(* The track says what the recording says: every word once and in its order, whatever    *)
(* each window made of the words its edges cut and however late it heard them             *)
(* (WindowWordStitcher, CaptionSegmenter, the codec).                                      *)
TrackSaysWhatWasSaid ==
    track # <<>> =>
        FlattenSeq([i \in DOMAIN track[1].records |-> TextAt(track[1], i)])
            = [i \in DOMAIN said.recording.words |-> said.recording.words[i].text]

(* A track is the whole chapter, as it was said, and can be read. *)
TrackIsFaithful == TrackIsWhole /\ TrackIsReadable /\ TrackSaysWhatWasSaid

(* The stitcher, the segmenter and the clamp make nothing that the segmenter or the codec *)
(* refuses: a chapter that was heard is never lost to its own last step (execute).         *)
NeverRefused ==
    decode.at = "over" /\ decode.good /\ job.signal = "none" /\ job.outcome = "none"
        => Accepted(Finished)

(* A seek from any segment finds the one that shows at that time, if there is one: the *)
(* neighbours and the search agree with a look at the whole track (CaptionLookup).      *)
SeekFinds ==
    track # <<>> =>
        LET r == track[1].records
        IN  \A current \in 0..Len(r), time \in 0..Length :
                LET found == FindIndex(r, current, time)
                IN  IF \E i \in DOMAIN r : ShowsAt(r[i], time)
                    THEN found \in DOMAIN r /\ ShowsAt(r[found], time)
                    ELSE found = 0

(* When transcode has settled, FFmpeg is gone and its source is no longer read: the   *)
(* queue may close the torrent's file and start the next job (transcode, the manager's *)
(* cleanup dependencies).                                                               *)
NothingLeftRunning == decode.at = "over" => ~ffmpeg.alive /\ pump.at = "settled"

(* What the pipeline keeps is bounded while it runs, and nothing of it is left after. *)
PipelineSound == TypeOK /\ QueueBounded /\ NothingLeftRunning

(* An attempt that is cancelled or whose input fails ends, also when FFmpeg ignores the *)
(* request to stop and a write to it waits.                                               *)
AbortEnds == job.lifecycle ~> job.outcome # "none"
================================================================================
