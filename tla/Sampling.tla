------------------------------ MODULE Sampling ------------------------------
(***************************************************************************)
(* Samples of a measured value, newest first, in a circular buffer         *)
(* (src/src/artery/application/SampleBuffer.h, SampleBufferAlgorithm.h and *)
(* Sampling.h).  A sample is a record of value and timestamp.              *)
(***************************************************************************)
EXTENDS Integers, FiniteSets, SequencesExt

(* IntervalSampler::setCapacity: duration / interval, rounded up.          *)
SampleCapacity(duration, interval) ==
    IF interval = 0 THEN 0 ELSE (duration + interval - 1) \div interval

(* IntervalSampler::offset: how late the next sample is.                   *)
SampleOffset(buffer, interval, timestamp) ==
    IF buffer = << >> THEN 0 ELSE timestamp - (buffer[1].timestamp + interval)

(* circular_buffer::push_front: a full buffer loses its oldest sample.     *)
PushSample(buffer, capacity, sample) ==
    LET longer == <<sample>> \o buffer
    IN  SubSeq(longer, 1, IF Len(longer) > capacity THEN capacity ELSE Len(longer))

(* SkipEarlySampler::feed.  Samples that come before the interval is over  *)
(* are skipped, so that insert never meets an older or equal time stamp.   *)
FeedSample(buffer, duration, interval, sample) ==
    IF SampleOffset(buffer, interval, sample.timestamp) >= 0
      THEN PushSample(buffer, SampleCapacity(duration, interval), sample)
      ELSE buffer

(* SampleBuffer::not_before: in fact the samples after the limit, a prefix *)
(* of the buffer as newer samples come first.                              *)
SamplesAfter(buffer, limit) ==
    SubSeq(buffer, 1, Cardinality({k \in 1..Len(buffer) : buffer[k].timestamp > limit}))

(* range::duration *)
SampledTime(range) ==
    IF Len(range) < 2 THEN 0 ELSE range[1].timestamp - Last(range).timestamp

(* average() is the sum of the values divided by the size of the range.    *)
SampleSum(range) ==
    LET sum[k \in 0..Len(range)] == IF k = 0 THEN 0 ELSE sum[k - 1] + range[k].value
    IN  sum[Len(range)]
=============================================================================
