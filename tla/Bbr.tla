-------------------------------- MODULE Bbr ---------------------------------
(***************************************************************************)
(* The congestion control of ctcp_bbr.c on one sender: bbr_on_send and     *)
(* bbr_on_ack, with the pacing timer of ctcp.c that calls the one and the  *)
(* ACK loop that calls the other.  STDIN delivers segments when it likes,  *)
(* acknowledgements come back in order after any time, and time advances.  *)
(* A handler reads the clock several times; here it takes no time.         *)
(***************************************************************************)
EXTENDS MinMax, Sequences

CONSTANTS
  BW_UNIT,            \* 1 << BW_SCALE, the unit of a bandwidth
  USEC_PER_SEC,       \* ticks of the clock per second
  MSS,                \* MAX_SEG_DATA_SIZE
  SegmentSizes,       \* sizes of the segments STDIN delivers
  WindowRtts,         \* CTCP_BBR_WINDOW_SIZE_RTTS
  InitialCwnd,        \* CTCP_INITIAL_CWND
  MinTarget,          \* bbr_cwnd_min_target
  FullBwCnt,          \* the static bbr_full_bw_cnt
  MinRttWin,          \* bbr_min_rtt_win_us
  ProbeRttTime,       \* bbr_probe_rtt_mode_ms, in ticks
  InitialRtt,         \* rt_timeout, in ticks
  MinGap,             \* the least pacing gap, 10us
  ShortWord,          \* 2^16: rs->is_app_limited is an uint16_t
  MaxTime,            \* bound: ticks
  MaxRtt,             \* bound: ticks until a segment is acknowledged
  MaxSegments,        \* bound: segments STDIN delivers
  MaxWaiting          \* bound: segments waiting at once

ASSUME BbrAssumption ==
  /\ {BW_UNIT, USEC_PER_SEC, MSS, WindowRtts, InitialCwnd, MinTarget,
      MinRttWin, ProbeRttTime, InitialRtt, ShortWord} \subseteq Nat \ {0}
  /\ FullBwCnt \in 1..7                 \* full_bw_cnt is a bit-field of three bits
  /\ SegmentSizes \subseteq 1..MSS
  /\ {MinGap, MaxTime, MaxRtt, MaxSegments, MaxWaiting} \subseteq Nat

BBR_UNIT == 256
high_gain == (BBR_UNIT * 2885) \div 1000 + 1
drain_gain == (BBR_UNIT * 1000) \div 2885
WideCwndGain == BBR_UNIT * 4     \* mutant: more than ten bits
steady_cwnd_gain == BBR_UNIT * 2
CYCLE_LEN == 8
pacing_gains == [i \in 0..(CYCLE_LEN - 1) |->
  CASE i = 0 -> (BBR_UNIT * 5) \div 4
    [] i = 1 -> (BBR_UNIT * 3) \div 4
    [] OTHER -> BBR_UNIT]

VARIABLES
  bbr,                \* ctcp_bbr_t
  pacing_elapsed,     \* ticks since pacing_last_timeout, up to LongestGap
  cwnd, pacing_gap, tx_in_flight_bytes,  \* of ctcp_state_t
  segments,           \* in flight, oldest first: [len, send_time, rs]
  waiting_segments,   \* the lengths of the segments waiting to be sent
  now,                \* the clock
  written,            \* segments delivered by STDIN so far
  \* history
  recent              \* the last WindowRtts rate samples, and whether inserted

vars == << bbr, cwnd, pacing_gap, pacing_elapsed, tx_in_flight_bytes,
           segments, waiting_segments, now, written, recent >>

Smaller(a, b) == IF a < b THEN a ELSE b
Larger(a, b) == IF a < b THEN b ELSE a

-----------------------------------------------------------------------------
(* Estimates *)

bbr_max_bw(b) == minmax_get(b.bw)
bbr_full_bw_reached(b) == b.full_bw_cnt >= FullBwCnt

Scaled(x, gain) == (x * gain) \div BBR_UNIT

bbr_target_cwnd(b, gain) ==
  (Scaled(bbr_max_bw(b) * b.min_rtt_us, gain) + BW_UNIT - 1) \div BW_UNIT

bdp_in_bytes(b, gain) ==
  (Scaled(bbr_max_bw(b) * b.min_rtt_us, gain) * MSS) \div BW_UNIT

(* The rate is computed in 32 bits: the packet count is shifted first.  *)
DeliveryRate(b, rs) ==
  (((b.delivered_pkts_num - rs.delivered) * BW_UNIT) % Word)
    \div (b.prior_delivered_time_us - rs.prior_mstamp)

Delivered(b, time) == [b EXCEPT !.delivered_pkts_num = @ + 1,
                                !.prior_delivered_time_us = time]

IsSampled(b, rs) == ~rs.is_app_limited \/ DeliveryRate(b, rs) >= bbr_max_bw(b)

bbr_update_bw(b0, rs, time) ==
  LET b == Delivered(b0, time)
  IN  IF IsSampled(b, rs)
      THEN [b EXCEPT !.bw = minmax_insert(@, b.rtt_cnt, DeliveryRate(b, rs))]
      ELSE b

-----------------------------------------------------------------------------
(* Modes *)

bbr_reset_startup_mode(b) ==
  [b EXCEPT !.mode = "STARTUP", !.pacing_gain = high_gain, !.cwnd_gain = high_gain]

(* The gain is taken at the phase left behind, before the phase is reset. *)
bbr_reset_probe_bw_mode(b) ==
  [b EXCEPT !.mode = "PROBE_BW", !.pacing_gain = pacing_gains[b.cycle_idx],
            !.cwnd_gain = steady_cwnd_gain, !.cycle_idx = 0]

bbr_reset_mode(b) == IF bbr_full_bw_reached(b) THEN bbr_reset_probe_bw_mode(b)
                                               ELSE bbr_reset_startup_mode(b)

(* The bytes in flight are compared with a target in packets. *)
bbr_is_next_cycle_phase(b, inflight) ==
  LET is_full_length == b.prior_delivered_time_us - b.cycle_mstamp > b.min_rtt_us
  IN  CASE b.pacing_gain = BBR_UNIT -> is_full_length
        [] b.pacing_gain > BBR_UNIT ->
             is_full_length /\ inflight >= bbr_target_cwnd(b, b.pacing_gain)
        [] OTHER -> is_full_length \/ inflight <= bbr_target_cwnd(b, BBR_UNIT)

(* Advancing the phase does not change the gain. *)
bbr_update_cycle_phase(b, inflight) ==
  IF b.mode = "PROBE_BW" /\ bbr_is_next_cycle_phase(b, inflight)
  THEN [b EXCEPT !.cycle_idx = (@ + 1) % CYCLE_LEN]
  ELSE b

NoGrowth(b) ==        \* one more acknowledgement without growth
  LET counted == [b EXCEPT !.full_bw_cnt = @ + 1]
  IN  [counted EXCEPT !.full_bw_reached = bbr_full_bw_reached(counted)]

Growth(b) == [b EXCEPT !.full_bw = bbr_max_bw(b), !.full_bw_cnt = 0]

full_bw_thresh == (BBR_UNIT * 5) \div 4
HasGrown(b) == bbr_max_bw(b) >= Scaled(b.full_bw, full_bw_thresh)

CheckedWhenFull(b, rs) == \* mutant: no early return once the pipe is full
  IF rs.is_app_limited THEN b ELSE IF HasGrown(b) THEN Growth(b) ELSE NoGrowth(b)
bbr_check_full_bw_reached(b, rs) ==
  IF b.full_bw_reached \/ rs.is_app_limited THEN b
  ELSE IF HasGrown(b) THEN Growth(b) ELSE NoGrowth(b)

bbr_check_drain(b, inflight) ==
  LET drained == IF b.mode = "STARTUP" /\ bbr_full_bw_reached(b)
                 THEN [b EXCEPT !.mode = "DRAIN", !.pacing_gain = drain_gain,
                                !.cwnd_gain = high_gain]
                 ELSE b
  IN  IF drained.mode = "DRAIN" /\ inflight <= bdp_in_bytes(drained, BBR_UNIT)
      THEN bbr_reset_probe_bw_mode(drained)
      ELSE drained

-----------------------------------------------------------------------------
(* bbr_update_min_rtt: the filter, then entering and leaving PROBE_RTT.    *)

FilterExpired(b) == now - b.min_rtt_stamp >= MinRttWin

MinRttFiltered(b, measured_rtt) ==
  IF b.mode = "STARTUP" \/ b.min_rtt_us >= measured_rtt \/ FilterExpired(b)
  THEN [b EXCEPT !.min_rtt_us = measured_rtt, !.min_rtt_stamp = now]
  ELSE b

EnterProbeRtt(b) ==
  [b EXCEPT !.mode = "PROBE_RTT", !.pacing_gain = BBR_UNIT, !.cwnd_gain = BBR_UNIT,
            !.prior_cwnd = Larger(@, cwnd), !.probe_rtt_done_stamp_us = 0]

EndsAtOnce(b) ==          \* mutant: the flight need not be small
  IF b.probe_rtt_done_stamp_us = 0
  THEN [b EXCEPT !.probe_rtt_done_stamp_us = now + ProbeRttTime]
  ELSE IF now > b.probe_rtt_done_stamp_us
       THEN bbr_reset_mode([b EXCEPT !.min_rtt_stamp = now, !.probe_rtt_done_stamp_us = 0])
       ELSE b
InProbeRtt(b) ==          \* the segment being acknowledged is still in the list
  IF b.probe_rtt_done_stamp_us = 0
  THEN IF Len(segments) <= MinTarget
       THEN [b EXCEPT !.probe_rtt_done_stamp_us = now + ProbeRttTime]
       ELSE b
  ELSE IF now > b.probe_rtt_done_stamp_us
       THEN bbr_reset_mode([b EXCEPT !.min_rtt_stamp = now, !.probe_rtt_done_stamp_us = 0])
       ELSE b

bbr_update_min_rtt(b, measured_rtt) ==
  LET filtered == MinRttFiltered(b, measured_rtt)
      entered == IF FilterExpired(b) /\ b.mode # "PROBE_RTT"
                 THEN EnterProbeRtt(filtered) ELSE filtered
  IN  IF entered.mode = "PROBE_RTT" THEN InProbeRtt(entered) ELSE entered

(* In PROBE_RTT the sample is marked app-limited with a 16-bit sum that    *)
(* must not be zero.                                                       *)
RateSample(b, rs, inflight) ==
  LET sum == rs.delivered + inflight
      probing == \/ b.mode = "PROBE_RTT" \/ FilterExpired(b)
  IN  IF probing THEN [rs EXCEPT !.is_app_limited = sum = 0 \/ sum % ShortWord # 0]
                 ELSE rs

-----------------------------------------------------------------------------
(* Outputs *)

bbr_set_cwnd(b) ==    \* the window grows from 0, not from state->cwnd
  LET target == bbr_target_cwnd(b, b.cwnd_gain)
      grown  == IF bbr_full_bw_reached(b) THEN Smaller(1, target)
                ELSE IF 0 < target \/ b.rtt_cnt < InitialCwnd THEN 1 ELSE 0
      atLeast == Larger(grown, MinTarget)
  IN  IF b.mode = "PROBE_RTT" THEN Smaller(atLeast, MinTarget) ELSE atLeast

PacketsPerSec(b) ==
  (Scaled(bbr_max_bw(b), b.pacing_gain) * USEC_PER_SEC) \div BW_UNIT

bbr_pacing_gap(b) ==  \* a rate below one packet a second is no pacing at all
  IF PacketsPerSec(b) = 0 THEN 0
  ELSE Larger(MinGap, USEC_PER_SEC \div PacketsPerSec(b))

LongestGap == Larger(MinGap, USEC_PER_SEC)

-----------------------------------------------------------------------------
(* The sender *)

ReadSegment ==        \* ctcp_read queues a segment
  /\ written < MaxSegments /\ Len(waiting_segments) < MaxWaiting
  /\ written' = written + 1
  /\ \E len \in SegmentSizes : waiting_segments' = Append(waiting_segments, len)
  /\ UNCHANGED << bbr, cwnd, pacing_gap, pacing_elapsed, tx_in_flight_bytes,
                  segments, now, recent >>

PacingTimer == pacing_elapsed >= pacing_gap /\ pacing_elapsed' = 0

WindowAllows(len) == tx_in_flight_bytes + len <= cwnd * MSS

bbr_on_send == [delivered |-> bbr.delivered_pkts_num,
                prior_mstamp |-> bbr.prior_delivered_time_us,
                is_app_limited |-> bbr.app_limited_until > 0]

SendFront ==
  /\ PacingTimer /\ waiting_segments # << >> /\ WindowAllows(Head(waiting_segments))
  /\ tx_in_flight_bytes' = tx_in_flight_bytes + Head(waiting_segments)
  /\ segments' = Append(segments, [len |-> Head(waiting_segments),
                                   send_time_us |-> now, rs |-> bbr_on_send])
  /\ waiting_segments' = Tail(waiting_segments)
  /\ UNCHANGED << bbr, cwnd, pacing_gap, now, written, recent >>

WindowFull ==
  /\ PacingTimer /\ waiting_segments # << >> /\ ~WindowAllows(Head(waiting_segments))
  /\ UNCHANGED << bbr, cwnd, pacing_gap, tx_in_flight_bytes, segments,
                  waiting_segments, now, written, recent >>

NothingWaiting ==     \* what is in flight now was limited by the application
  /\ PacingTimer /\ waiting_segments = << >>
  /\ bbr' = [bbr EXCEPT !.app_limited_until = tx_in_flight_bytes]
  /\ UNCHANGED << cwnd, pacing_gap, tx_in_flight_bytes, segments,
                  waiting_segments, now, written, recent >>

AlwaysCounted(b, len) == b.app_limited_until - len  \* mutant: no test of > 0
AppLimitedLeft(b, len) ==
  IF b.app_limited_until > 0 THEN b.app_limited_until - len ELSE b.app_limited_until

bbr_on_ack(t, inflight) ==
  LET measured == now - t.send_time_us
      counted  == [bbr EXCEPT !.rtt_cnt = @ + 1]
      rs       == RateSample(counted, t.rs, inflight)
      rtt      == bbr_update_min_rtt(counted, measured)
      bw       == bbr_update_bw(rtt, rs, now)
      phase    == bbr_update_cycle_phase(bw, inflight)
      full     == bbr_check_full_bw_reached(phase, rs)
      model    == bbr_check_drain(full, inflight)
      sampled  == IsSampled(Delivered(rtt, now), rs)
      sample   == [v |-> DeliveryRate(bw, rs), taken |-> sampled]
  IN  /\ bbr' = [model EXCEPT !.app_limited_until = AppLimitedLeft(model, t.len)]
      /\ pacing_gap' = bbr_pacing_gap(model)
      /\ cwnd' = bbr_set_cwnd(model)
      /\ recent' = Append(IF Len(recent) < WindowRtts THEN recent ELSE Tail(recent), sample)

ReceiveAck ==
  /\ segments # << >> /\ Head(segments).send_time_us < now
  /\ tx_in_flight_bytes' = tx_in_flight_bytes - Head(segments).len
  /\ bbr_on_ack(Head(segments), tx_in_flight_bytes')
  /\ segments' = Tail(segments)
  /\ UNCHANGED << pacing_elapsed, waiting_segments, now, written >>

Tick == /\ now < MaxTime /\ now' = now + 1
        /\ segments # << >> => now - Head(segments).send_time_us < MaxRtt
        /\ pacing_elapsed' = Smaller(pacing_elapsed + 1, LongestGap)
        /\ UNCHANGED << bbr, cwnd, pacing_gap, tx_in_flight_bytes, segments,
                        waiting_segments, written, recent >>

-----------------------------------------------------------------------------
Init ==               \* ctcp_bbr_init and the BBR part of ctcp_init
  /\ bbr = [min_rtt_us |-> InitialRtt, delivered_pkts_num |-> 0,
            prior_delivered_time_us |-> 0, app_limited_until |-> 0,
            min_rtt_stamp |-> 0, probe_rtt_done_stamp_us |-> 0,
            bw |-> minmax_reset(0, 0, WindowRtts), rtt_cnt |-> 0,
            cycle_mstamp |-> 0, mode |-> "STARTUP",
            pacing_gain |-> high_gain, cwnd_gain |-> high_gain,
            full_bw_cnt |-> 0, cycle_idx |-> 0, prior_cwnd |-> InitialCwnd,
            full_bw |-> 0, full_bw_reached |-> FALSE]
  /\ cwnd = InitialCwnd
  /\ pacing_gap = Larger(MinGap, USEC_PER_SEC \div InitialCwnd)
  /\ pacing_elapsed = 0
  /\ tx_in_flight_bytes = 0
  /\ segments = << >> /\ waiting_segments = << >>
  /\ now = 0 /\ written = 0
  /\ recent = << >>

Next == \/ ReadSegment \/ SendFront \/ WindowFull \/ NothingWaiting
        \/ ReceiveAck \/ Tick

Spec == Init /\ [][Next]_vars
=============================================================================
