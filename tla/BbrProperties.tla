--------------------------- MODULE BbrProperties ----------------------------
(***************************************************************************)
(* What the congestion control of module Bbr promises.                     *)
(***************************************************************************)
EXTENDS Bbr

Mode == {"STARTUP", "DRAIN", "PROBE_BW", "PROBE_RTT"}

(* The fields of ctcp_bbr_t fit their declarations: counters are not        *)
(* negative, the bit-fields full_bw_cnt:3, cycle_idx:3 and the gains:10 do  *)
(* not overflow, and max_idx is a slot of the ring.                         *)
BbrTypeOK ==
  /\ {bbr.min_rtt_us, bbr.delivered_pkts_num, bbr.prior_delivered_time_us,
      bbr.min_rtt_stamp, bbr.probe_rtt_done_stamp_us, bbr.rtt_cnt, bbr.cycle_mstamp,
      bbr.prior_cwnd, bbr.full_bw, cwnd, pacing_gap, tx_in_flight_bytes} \subseteq Nat
  /\ bbr.app_limited_until \in Int
  /\ bbr.mode \in Mode /\ bbr.full_bw_reached \in BOOLEAN
  /\ {bbr.pacing_gain, bbr.cwnd_gain} \subseteq 0..1023
  /\ bbr.full_bw_cnt \in 0..7 /\ bbr.cycle_idx \in 0..7
  /\ bbr.bw.max_idx \in 0..(WindowRtts - 1)

(* The window filter never reports less than a sample it was given in the   *)
(* last WindowRtts acknowledgements, and is their maximum when it was given *)
(* all of them (minmax_insert with bbr_update_bw's filtering).              *)
FilterHoldsMaximum ==
  LET taken == {i \in DOMAIN recent : recent[i].taken}
  IN  /\ \A i \in taken : recent[i].v <= bbr_max_bw(bbr)
      /\ Cardinality(taken) = WindowRtts => \E i \in taken : recent[i].v = bbr_max_bw(bbr)

(* STARTUP and a full pipe exclude each other: the mode and full_bw_cnt are *)
(* moved by different functions of one on_ack, and PROBE_RTT may be entered *)
(* and left in between; only STARTUP can be returned to before the pipe is  *)
(* full, and never after.                                                   *)
PipeFullAndMode ==
  /\ bbr.full_bw_reached = bbr_full_bw_reached(bbr)
  /\ bbr.mode = "STARTUP" => ~bbr.full_bw_reached
  /\ bbr.mode \in {"DRAIN", "PROBE_BW"} => bbr.full_bw_reached

(* app_limited_until, set by the pacing timer and counted down by on_ack,   *)
(* stays within what is in flight, so the mark does expire: the bubble it   *)
(* stands for leaves with the segments sent before it.                      *)
AppLimitedWithinFlight ==
  0 <= bbr.app_limited_until /\ bbr.app_limited_until <= tx_in_flight_bytes

(* The 200 ms of PROBE_RTT are only counted while at most the minimum       *)
(* window is in flight ("Maintain min packets in flight").                  *)
ProbeRttFlight ==
  bbr.probe_rtt_done_stamp_us # 0 =>
    bbr.mode = "PROBE_RTT" /\ tx_in_flight_bytes <= MinTarget * MSS
=============================================================================
