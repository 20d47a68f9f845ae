----------------------------- MODULE BbrProofs ------------------------------
(***************************************************************************)
(* Proofs about the congestion control of module Bbr, for every value of   *)
(* its constants.                                                          *)
(***************************************************************************)
EXTENDS BbrProperties, SequenceTheorems, FiniteSetTheorems, ProofLemmas

-----------------------------------------------------------------------------
(* The inductive invariant *)

Slot == 0..(WindowRtts - 1)
Rate == 0..(Word - 1)
Ring == [s : [Slot -> [t : Nat, v : Rate]], max_idx : Slot, window_len : {WindowRtts}]
Gain == 0..1023

BbrState == [min_rtt_us : Nat, delivered_pkts_num : Nat, prior_delivered_time_us : Nat,
             app_limited_until : Int, min_rtt_stamp : Nat, probe_rtt_done_stamp_us : Nat,
             bw : Ring, rtt_cnt : Nat, cycle_mstamp : Nat, mode : Mode,
             pacing_gain : Gain, cwnd_gain : Gain, full_bw_cnt : 0..FullBwCnt,
             cycle_idx : 0..7, prior_cwnd : Nat, full_bw : Nat, full_bw_reached : BOOLEAN]

Sample == [delivered : Nat, prior_mstamp : Nat, is_app_limited : BOOLEAN]
Sent == [len : SegmentSizes, send_time_us : Nat, rs : Sample]

TypesInv ==
  /\ bbr \in BbrState /\ cwnd \in Nat /\ pacing_gap \in Nat /\ now \in Nat
  /\ segments \in Seq(Sent) /\ waiting_segments \in Seq(SegmentSizes)
  /\ tx_in_flight_bytes \in Nat

(* A sample is taken no later than its segment was sent.                    *)
ClockInv ==
  /\ bbr.prior_delivered_time_us <= now
  /\ \A i \in 1..Len(segments) : segments[i].rs.prior_mstamp <= segments[i].send_time_us

(* sum[i] is the size of the i oldest segments of q.                        *)
IsSum(q, sum) ==
  /\ sum \in [0..Len(q) -> Nat] /\ sum[0] = 0
  /\ \A i \in 1..Len(q) : sum[i] = sum[i - 1] + q[i].len
  /\ \A i, j \in 0..Len(q) : i <= j => sum[i] <= sum[j] /\ sum[j] - sum[i] <= (j - i) * MSS

(* The segments in flight sum up to tx_in_flight_bytes, and the oldest ones *)
(* of them to app_limited_until.                                            *)
FlightInv == \E sum \in [0..Len(segments) -> Nat] :
  /\ IsSum(segments, sum) /\ sum[Len(segments)] = tx_in_flight_bytes
  /\ \E k \in 0..Len(segments) : bbr.app_limited_until = sum[k]

StartInv == bbr.rtt_cnt = 0 => bbr.probe_rtt_done_stamp_us = 0

(* After the first acknowledgement the window is the minimum one: the local *)
(* cwnd of bbr_set_cwnd starts from 0.  Module Ctcp takes its window from   *)
(* this (MinCwnd).                                                          *)
CwndStaysMinimal == bbr.rtt_cnt > 0 => cwnd = MinTarget

BbrInvariant ==
  TypesInv /\ ClockInv /\ FlightInv /\ StartInv
  /\ PipeFullAndMode /\ ProbeRttFlight /\ CwndStaysMinimal

-----------------------------------------------------------------------------
(* Constants and arithmetic *)


LEMMA Constants ==
  /\ BW_UNIT \in Nat \ {0} /\ USEC_PER_SEC \in Nat \ {0} /\ MSS \in Nat \ {0}
  /\ WindowRtts \in Nat \ {0} /\ InitialCwnd \in Nat \ {0} /\ MinTarget \in Nat \ {0}
  /\ FullBwCnt \in 1..7 /\ ProbeRttTime \in Nat \ {0}
  /\ InitialRtt \in Nat \ {0} /\ ShortWord \in Nat \ {0} /\ MinGap \in Nat
  /\ SegmentSizes \subseteq 1..MSS /\ Word \in Nat \ {0}
  BY BbrAssumption, WordAssumption

(* A bounded set of numbers that is not empty has a greatest element.       *)
LEMMA GreatestElement ==
  ASSUME NEW S, NEW v \in [S -> Rate], NEW T \in SUBSET S, T # {}
  PROVE  \E x \in T : \A y \in T : v[y] <= v[x]
<1> DEFINE D == {Word - v[x] : x \in T}
<1>1. D \in SUBSET Nat /\ D # {}
  BY WordAssumption DEF Rate
<1>2. PICK d \in D : \A e \in D : d <= e
  BY <1>1, LeastElement
<1>3. PICK x \in T : d = Word - v[x]
  BY <1>2
<1>4. \A y \in T : Word - v[x] <= Word - v[y]
  BY <1>2, <1>3
<1>5. \A y \in T : v[y] \in Nat /\ v[x] \in Nat
  BY DEF Rate
<1> QED
  BY <1>4, <1>5, WordAssumption

-----------------------------------------------------------------------------
(* The ring of samples *)

(* The slot of the maximum is a slot of the ring (minmax_insert).           *)
LEMMA BestIdxType ==
  ASSUME NEW s \in [Slot -> [t : Nat, v : Rate]], NEW i \in Slot, NEW fresh \in SUBSET Slot
  PROVE  BestIdx(s, i, fresh) \in Slot
<1> DEFINE better == {j \in fresh : s[j].v > s[i].v}
           best == {j \in better : \A k \in better : s[k].v <= s[j].v}
           v == [j \in Slot |-> s[j].v]
<1>1. CASE better = {}
  BY <1>1 DEF BestIdx
<1>2. CASE better # {}
  <2>1. v \in [Slot -> Rate] /\ better \in SUBSET Slot
    OBVIOUS
  <2>2. PICK x \in better : \A y \in better : v[y] <= v[x]
    BY <1>2, <2>1, GreatestElement
  <2>3. best # {} /\ best \in SUBSET Nat /\ best \subseteq Slot
    <3>1. x \in best
      BY <2>2
    <3>2. best \subseteq Slot
      OBVIOUS
    <3>3. Slot \subseteq Nat
      BY DEF Slot
    <3> QED
      BY <3>1, <3>2, <3>3
  <2>4. PICK m \in best : \A y \in best : m <= y
    BY <2>3, LeastElement
  <2>5. Min(best) \in best
    BY <2>4 DEF Min
  <2> QED
    BY <1>2, <2>3, <2>5 DEF BestIdx
<1> QED
  BY <1>1, <1>2

(* It holds a value no less than those of the window.                       *)
LEMMA BestIsGreatest ==
  ASSUME NEW s \in [Slot -> [t : Nat, v : Rate]], NEW i \in Slot, NEW fresh \in SUBSET Slot
  PROVE  \A j \in fresh : s[j].v <= s[BestIdx(s, i, fresh)].v
<1> DEFINE better == {j \in fresh : s[j].v > s[i].v}
           best == {j \in better : \A k \in better : s[k].v <= s[j].v}
           v == [j \in Slot |-> s[j].v]
<1>0. \A j \in Slot : s[j].v \in Nat
  BY DEF Rate
<1>1. CASE better = {}
  BY <1>0, <1>1 DEF BestIdx
<1>2. CASE better # {}
  <2>1. v \in [Slot -> Rate] /\ better \in SUBSET Slot
    OBVIOUS
  <2>2. PICK x \in better : \A y \in better : v[y] <= v[x]
    BY <1>2, <2>1, GreatestElement
  <2>3. best # {} /\ best \in SUBSET Nat
    <3>1. x \in best
      BY <2>2
    <3>2. best \subseteq Slot
      OBVIOUS
    <3>3. Slot \subseteq Nat
      BY DEF Slot
    <3> QED
      BY <3>1, <3>2, <3>3
  <2>4. PICK m \in best : \A y \in best : m <= y
    BY <2>3, LeastElement
  <2>5. Min(best) \in best
    BY <2>4 DEF Min
  <2>6. BestIdx(s, i, fresh) = Min(best)
    BY <1>2 DEF BestIdx
  <2> HIDE DEF best
  <2>7. \A k \in better : s[k].v <= s[Min(best)].v
    BY <2>5 DEF best
  <2>8. Min(best) \in Slot /\ s[Min(best)].v > s[i].v
    BY <2>5 DEF best
  <2> QED
    BY <1>0, <2>6, <2>7, <2>8
<1> QED
  BY <1>1, <1>2

(* An insertion gives a ring, and the maximum it reports is a rate.         *)
LEMMA RingTypes ==
  ASSUME NEW m \in Ring
  PROVE  /\ minmax_get(m) \in Rate
         /\ \A t \in Nat, r \in Rate : minmax_insert(m, t, r) \in Ring
<1>1. minmax_get(m) \in Rate
  BY DEF minmax_get, Ring
<1>2. ASSUME NEW t \in Nat, NEW r \in Rate
      PROVE  minmax_insert(m, t, r) \in Ring
  <2> DEFINE s == [m.s EXCEPT ![t % m.window_len] = [t |-> t, v |-> r]]
             inserted == [m EXCEPT !.s = s]
             fresh == {i \in DOMAIN m.s : InWindow(inserted, t, i)}
  <2>1. t % m.window_len \in Slot
    BY Constants DEF Ring, Slot
  <2>2. s \in [Slot -> [t : Nat, v : Rate]] /\ fresh \in SUBSET Slot /\ m.max_idx \in Slot
    BY <2>1 DEF Ring
  <2>3. BestIdx(s, m.max_idx, fresh) \in Slot
    BY <2>2, BestIdxType
  <2>4. inserted \in Ring /\ inserted.s = s
    BY <2>2 DEF Ring
  <2>5. minmax_insert(m, t, r) = [inserted EXCEPT !.max_idx = BestIdx(s, m.max_idx, fresh)]
    BY <2>4 DEF minmax_insert
  <2> QED
    BY <2>3, <2>4, <2>5 DEF Ring
<1> QED
  BY <1>1, <1>2

-----------------------------------------------------------------------------
(* The functions of ctcp_bbr.c, in the order in which bbr_on_ack calls them.  *)
(* Each keeps the state typed and the flag of the full pipe right, and      *)
(* leaves alone what Keeps names.                                           *)

Consistent(b) == b.full_bw_reached = bbr_full_bw_reached(b)

ModeInv(b) ==
  /\ b.mode = "STARTUP" => ~b.full_bw_reached
  /\ b.mode \in {"DRAIN", "PROBE_BW"} => b.full_bw_reached

Keeps(b, c) ==
  /\ c.rtt_cnt = b.rtt_cnt /\ c.app_limited_until = b.app_limited_until /\ c.bw = b.bw
  /\ c.mode = "PROBE_BW" /\ b.mode = "PROBE_BW" => c.pacing_gain = b.pacing_gain

LEMMA EstimateTypes ==
  ASSUME NEW b \in BbrState
  PROVE  /\ bbr_max_bw(b) \in Nat /\ bbr_max_bw(b) \in Rate
         /\ \A g \in Nat : Scaled(bbr_max_bw(b), g) \in Nat /\ bbr_target_cwnd(b, g) \in Int
<1>1. bbr_max_bw(b) \in Rate /\ bbr_max_bw(b) \in Nat
  BY RingTypes DEF bbr_max_bw, BbrState, Rate
<1>2. \A x, g \in Nat : Scaled(x, g) \in Nat
  BY Multiplies, Divides DEF Scaled, BBR_UNIT
<1>3. bbr_max_bw(b) * b.min_rtt_us \in Nat
  BY <1>1, Multiplies DEF BbrState
<1>4. ASSUME NEW g \in Nat
      PROVE  Scaled(bbr_max_bw(b), g) \in Nat /\ bbr_target_cwnd(b, g) \in Int
  <2>1. Scaled(bbr_max_bw(b) * b.min_rtt_us, g) \in Nat
    BY <1>2, <1>3
  <2>2. \A x \in Nat : (x + BW_UNIT - 1) \div BW_UNIT \in Int
    BY Constants
  <2> QED
    BY <1>1, <1>2, <2>1, <2>2 DEF bbr_target_cwnd
<1> QED
  BY <1>1, <1>4

(* Leaving PROBE_RTT, or draining: back to a mode that the pipe justifies.  *)
LEMMA ResetTypes ==
  ASSUME NEW b \in BbrState, Consistent(b)
  PROVE  /\ bbr_reset_mode(b) \in BbrState /\ Consistent(bbr_reset_mode(b))
         /\ ModeInv(bbr_reset_mode(b)) /\ bbr_reset_mode(b).mode # "PROBE_RTT"
         /\ bbr_reset_mode(b).probe_rtt_done_stamp_us = b.probe_rtt_done_stamp_us
         /\ b.mode # "PROBE_BW" => Keeps(b, bbr_reset_mode(b))
         /\ bbr_reset_mode(b).prior_delivered_time_us = b.prior_delivered_time_us
<1>1. high_gain \in Gain /\ steady_cwnd_gain \in Gain /\ pacing_gains[b.cycle_idx] \in Gain
  <2>1. high_gain \in Gain /\ steady_cwnd_gain \in Gain
    BY DEF high_gain, steady_cwnd_gain, BBR_UNIT, Gain
  <2>2. \A i \in 0..7 : pacing_gains[i] = (IF i = 0 THEN 320 ELSE IF i = 1 THEN 192 ELSE 256)
    BY DEF pacing_gains, BBR_UNIT, CYCLE_LEN
  <2>3. b.cycle_idx \in 0..7
    BY DEF BbrState
  <2> QED
    BY <2>1, <2>2, <2>3 DEF Gain
<1>2. CASE bbr_full_bw_reached(b)
  <2>1. bbr_reset_mode(b) = bbr_reset_probe_bw_mode(b)
    BY <1>2 DEF bbr_reset_mode
  <2> DEFINE c == bbr_reset_probe_bw_mode(b)
  <2>2. c \in BbrState
    BY <1>1, 0 \in 0..7, "PROBE_BW" \in Mode DEF bbr_reset_probe_bw_mode, BbrState, Mode
  <2>3. /\ c.mode = "PROBE_BW" /\ c.full_bw_cnt = b.full_bw_cnt
        /\ c.full_bw_reached = b.full_bw_reached
        /\ c.probe_rtt_done_stamp_us = b.probe_rtt_done_stamp_us
        /\ c.prior_delivered_time_us = b.prior_delivered_time_us
        /\ c.rtt_cnt = b.rtt_cnt /\ c.app_limited_until = b.app_limited_until /\ c.bw = b.bw
    BY DEF bbr_reset_probe_bw_mode, BbrState
  <2>4. b.full_bw_reached
    BY <1>2 DEF Consistent
  <2> HIDE DEF c
  <2>5. Consistent(c)
    BY <2>3 DEF Consistent, bbr_full_bw_reached
  <2>6. c = bbr_reset_mode(b)
    BY <2>1 DEF c
  <2> QED
    BY <2>2, <2>3, <2>4, <2>5, <2>6 DEF ModeInv, Keeps
<1>3. CASE ~bbr_full_bw_reached(b)
  <2>1. bbr_reset_mode(b) = bbr_reset_startup_mode(b)
    BY <1>3 DEF bbr_reset_mode
  <2> QED
    BY <1>1, <1>3, <2>1, ZenonT(60)
       DEF bbr_reset_startup_mode, BbrState, Consistent, ModeInv, Keeps, bbr_full_bw_reached, Mode
<1> QED
  BY <1>2, <1>3

(* bbr_update_min_rtt                                                       *)
LEMMA MinRttTypes ==
  ASSUME NEW b \in BbrState, Consistent(b), ModeInv(b), NEW r \in Nat, now \in Nat, cwnd \in Nat,
         b.probe_rtt_done_stamp_us # 0 => b.mode = "PROBE_RTT"
  PROVE  LET c == bbr_update_min_rtt(b, r)
         IN  /\ c \in BbrState /\ Consistent(c) /\ ModeInv(c) /\ Keeps(b, c)
             /\ c.prior_delivered_time_us = b.prior_delivered_time_us
             /\ c.probe_rtt_done_stamp_us # 0 =>
                  /\ c.mode = "PROBE_RTT"
                  /\ b.probe_rtt_done_stamp_us # 0 \/ Len(segments) <= MinTarget
<1> DEFINE filtered == MinRttFiltered(b, r)
           entered == IF FilterExpired(b) /\ b.mode # "PROBE_RTT"
                      THEN EnterProbeRtt(filtered) ELSE filtered
<1>1. /\ filtered \in BbrState /\ Consistent(filtered) /\ ModeInv(filtered)
      /\ filtered.mode = b.mode /\ filtered.pacing_gain = b.pacing_gain
      /\ filtered.rtt_cnt = b.rtt_cnt /\ filtered.app_limited_until = b.app_limited_until
      /\ filtered.bw = b.bw
      /\ filtered.prior_delivered_time_us = b.prior_delivered_time_us
      /\ filtered.probe_rtt_done_stamp_us = b.probe_rtt_done_stamp_us
  BY DEF MinRttFiltered, BbrState, Consistent, ModeInv, bbr_full_bw_reached
<1> HIDE DEF filtered
<1>2. /\ entered \in BbrState /\ Consistent(entered) /\ ModeInv(entered)
      /\ entered.rtt_cnt = b.rtt_cnt /\ entered.app_limited_until = b.app_limited_until
      /\ entered.bw = b.bw
      /\ entered.prior_delivered_time_us = b.prior_delivered_time_us
      /\ entered.mode = "PROBE_BW" => b.mode = "PROBE_BW" /\ entered.pacing_gain = b.pacing_gain
      /\ entered.probe_rtt_done_stamp_us # 0 =>
           entered.mode = "PROBE_RTT" /\ b.probe_rtt_done_stamp_us # 0
      /\ b.mode = "PROBE_BW" /\ entered.mode = "PROBE_RTT" => entered.probe_rtt_done_stamp_us = 0
  <2>1. CASE FilterExpired(b) /\ b.mode # "PROBE_RTT"
    <3>1. entered = EnterProbeRtt(filtered)
      BY <2>1
    <3>2. Larger(filtered.prior_cwnd, cwnd) \in Nat /\ BBR_UNIT \in Gain
      BY <1>1 DEF Larger, BbrState, BBR_UNIT, Gain
    <3> QED
      BY <1>1, <3>1, <3>2
      DEF EnterProbeRtt, BbrState, Consistent, ModeInv, bbr_full_bw_reached, Mode
  <2>2. CASE ~(FilterExpired(b) /\ b.mode # "PROBE_RTT")
    BY <1>1, <2>2
  <2> QED
    BY <2>1, <2>2
<1>3. bbr_update_min_rtt(b, r) = IF entered.mode = "PROBE_RTT" THEN InProbeRtt(entered) ELSE entered
  BY DEF bbr_update_min_rtt, filtered
<1> HIDE DEF entered
<1>4. CASE entered.mode # "PROBE_RTT"
  BY <1>2, <1>3, <1>4 DEF Keeps
<1>5. CASE entered.mode = "PROBE_RTT" /\ entered.probe_rtt_done_stamp_us = 0
  <2>1. now + ProbeRttTime \in Nat
    BY Constants
  <2>2. bbr_update_min_rtt(b, r) =
          IF Len(segments) <= MinTarget
          THEN [entered EXCEPT !.probe_rtt_done_stamp_us = now + ProbeRttTime] ELSE entered
    BY <1>3, <1>5 DEF InProbeRtt
  <2> DEFINE c == [entered EXCEPT !.probe_rtt_done_stamp_us = now + ProbeRttTime]
  <2>3. /\ c \in BbrState /\ c.mode = entered.mode /\ c.full_bw_cnt = entered.full_bw_cnt
        /\ c.full_bw_reached = entered.full_bw_reached
        /\ c.prior_delivered_time_us = entered.prior_delivered_time_us
        /\ c.rtt_cnt = entered.rtt_cnt /\ c.app_limited_until = entered.app_limited_until
        /\ c.bw = entered.bw
    BY <1>2, <2>1 DEF BbrState
  <2>4. bbr_update_min_rtt(b, r) = IF Len(segments) <= MinTarget THEN c ELSE entered
    BY <2>2
  <2> HIDE DEF c
  <2>5. Consistent(c) /\ ModeInv(c) /\ c.mode = "PROBE_RTT"
    BY <1>2, <1>5, <2>3 DEF Consistent, ModeInv, bbr_full_bw_reached
  <2> QED
    BY <1>2, <1>5, <2>3, <2>4, <2>5 DEF Keeps
<1>6. CASE entered.mode = "PROBE_RTT" /\ entered.probe_rtt_done_stamp_us # 0
  <2> DEFINE done == [entered EXCEPT !.min_rtt_stamp = now, !.probe_rtt_done_stamp_us = 0]
  <2>1. /\ done \in BbrState /\ Consistent(done) /\ done.mode = "PROBE_RTT"
        /\ done.rtt_cnt = b.rtt_cnt /\ done.app_limited_until = b.app_limited_until
        /\ done.bw = b.bw
        /\ done.prior_delivered_time_us = b.prior_delivered_time_us
        /\ done.probe_rtt_done_stamp_us = 0 /\ b.mode # "PROBE_BW"
    BY <1>2, <1>6 DEF BbrState, Consistent, bbr_full_bw_reached
  <2>2. bbr_update_min_rtt(b, r) =
          IF now > entered.probe_rtt_done_stamp_us THEN bbr_reset_mode(done) ELSE entered
    BY <1>3, <1>6 DEF InProbeRtt
  <2> HIDE DEF done
  <2> QED
    BY <1>2, <1>6, <2>1, <2>2, ResetTypes DEF Keeps
<1> QED
  BY <1>4, <1>5, <1>6

LEMMA RateSampleType ==
  ASSUME NEW b \in BbrState, NEW rs \in Sample, NEW n \in Nat
  PROVE  RateSample(b, rs, n) \in Sample /\ RateSample(b, rs, n).prior_mstamp = rs.prior_mstamp
<1> DEFINE sum == rs.delivered + n
           marked == [rs EXCEPT !.is_app_limited = sum = 0 \/ sum % ShortWord # 0]
<1>1. (sum = 0 \/ sum % ShortWord # 0) \in BOOLEAN
  OBVIOUS
<1>2. marked \in Sample /\ marked.prior_mstamp = rs.prior_mstamp
  BY <1>1 DEF Sample
<1>3. RateSample(b, rs, n) \in {rs, marked}
  BY DEF RateSample
<1> QED
  BY <1>2, <1>3

(* bbr_update_bw.  Time has passed since the segment was sent, so the rate  *)
(* is a quotient by a positive number.                                      *)
LEMMA UpdateBwTypes ==
  ASSUME NEW b \in BbrState, Consistent(b), ModeInv(b), NEW rs \in Sample, NEW t \in Nat,
         rs.prior_mstamp < t
  PROVE  LET c == bbr_update_bw(b, rs, t)
             d == Delivered(b, t)
         IN  /\ c \in BbrState /\ Consistent(c) /\ ModeInv(c)
             /\ c.mode = b.mode /\ c.prior_delivered_time_us = t
             /\ c.rtt_cnt = b.rtt_cnt /\ c.app_limited_until = b.app_limited_until
             /\ c.pacing_gain = b.pacing_gain
             /\ c.probe_rtt_done_stamp_us = b.probe_rtt_done_stamp_us
             /\ DeliveryRate(c, rs) \in Rate
             /\ c.bw = IF IsSampled(d, rs)
                       THEN minmax_insert(b.bw, b.rtt_cnt, DeliveryRate(c, rs)) ELSE b.bw
<1> DEFINE d == Delivered(b, t)
           r == DeliveryRate(d, rs)
           inserted == [d EXCEPT !.bw = minmax_insert(d.bw, d.rtt_cnt, r)]
<1>1. /\ d \in BbrState /\ d.mode = b.mode /\ d.full_bw_cnt = b.full_bw_cnt
      /\ d.full_bw_reached = b.full_bw_reached /\ d.prior_delivered_time_us = t
      /\ d.rtt_cnt = b.rtt_cnt /\ d.app_limited_until = b.app_limited_until
      /\ d.probe_rtt_done_stamp_us = b.probe_rtt_done_stamp_us
      /\ d.pacing_gain = b.pacing_gain /\ d.bw = b.bw
  <2>1. b.delivered_pkts_num + 1 \in Nat
    BY DEF BbrState
  <2>2. d = [b EXCEPT !.delivered_pkts_num = b.delivered_pkts_num + 1,
                      !.prior_delivered_time_us = t]
    BY DEF Delivered
  <2> HIDE DEF d
  <2> QED
    BY <2>1, <2>2 DEF BbrState
<1> HIDE DEF d
<1>2. r \in Rate
  <2> DEFINE x == ((d.delivered_pkts_num - rs.delivered) * BW_UNIT) % Word
             e == d.prior_delivered_time_us - rs.prior_mstamp
  <2>1. x \in Rate /\ x \in Nat
    <3>1. (d.delivered_pkts_num - rs.delivered) * BW_UNIT \in Int
      BY <1>1, Constants DEF BbrState, Sample
    <3>2. \A y \in Int : y % Word \in 0..(Word - 1)
      BY Constants
    <3> QED
      BY <3>1, <3>2 DEF Rate
  <2>2. e \in Nat \ {0}
    BY <1>1 DEF Sample
  <2>3. r = x \div e
    BY DEF DeliveryRate
  <2> HIDE DEF x, e
  <2>4. x \div e \in Nat /\ x \div e <= x
    BY <2>1, <2>2, Divides
  <2> QED
    BY <2>1, <2>3, <2>4, Constants DEF Rate
<1>r. r = DeliveryRate(d, rs)
  OBVIOUS
<1> HIDE DEF r
<1>3. minmax_insert(d.bw, d.rtt_cnt, r) \in Ring
  BY <1>1, <1>2, RingTypes DEF BbrState
<1>4. /\ inserted \in BbrState /\ inserted.mode = d.mode /\ inserted.full_bw_cnt = d.full_bw_cnt
      /\ inserted.full_bw_reached = d.full_bw_reached /\ inserted.prior_delivered_time_us = t
      /\ inserted.rtt_cnt = d.rtt_cnt /\ inserted.app_limited_until = d.app_limited_until
      /\ inserted.probe_rtt_done_stamp_us = d.probe_rtt_done_stamp_us
      /\ inserted.pacing_gain = d.pacing_gain
      /\ inserted.delivered_pkts_num = d.delivered_pkts_num
      /\ inserted.bw = minmax_insert(d.bw, d.rtt_cnt, r)
  BY <1>1, <1>3 DEF BbrState
<1>5. bbr_update_bw(b, rs, t) = IF IsSampled(d, rs) THEN inserted ELSE d
  BY DEF bbr_update_bw, d, r
<1>6. DeliveryRate(inserted, rs) = r
  BY <1>1, <1>4, <1>r DEF DeliveryRate
<1> HIDE DEF inserted
<1>7. LET c == bbr_update_bw(b, rs, t)
      IN  /\ DeliveryRate(c, rs) = r
          /\ c.bw = IF IsSampled(d, rs) THEN minmax_insert(b.bw, b.rtt_cnt, r) ELSE b.bw
  BY <1>1, <1>4, <1>5, <1>6, <1>r
<1> QED
  BY <1>1, <1>2, <1>4, <1>5, <1>7 DEF Consistent, ModeInv, bbr_full_bw_reached, d

(* bbr_update_cycle_phase                                                   *)
LEMMA CyclePhaseTypes ==
  ASSUME NEW b \in BbrState, Consistent(b), ModeInv(b), NEW n \in Nat
  PROVE  LET c == bbr_update_cycle_phase(b, n)
         IN  /\ c \in BbrState /\ Consistent(c) /\ ModeInv(c) /\ Keeps(b, c)
             /\ c.mode = b.mode /\ c.prior_delivered_time_us = b.prior_delivered_time_us
             /\ c.probe_rtt_done_stamp_us = b.probe_rtt_done_stamp_us
<1> DEFINE next == [b EXCEPT !.cycle_idx = (b.cycle_idx + 1) % CYCLE_LEN]
<1>1. (b.cycle_idx + 1) % CYCLE_LEN \in 0..7
  BY DEF BbrState, CYCLE_LEN
<1>2. /\ next \in BbrState /\ next.mode = b.mode /\ next.full_bw_cnt = b.full_bw_cnt
      /\ next.full_bw_reached = b.full_bw_reached
      /\ next.prior_delivered_time_us = b.prior_delivered_time_us
      /\ next.rtt_cnt = b.rtt_cnt /\ next.app_limited_until = b.app_limited_until /\ next.bw = b.bw
      /\ next.probe_rtt_done_stamp_us = b.probe_rtt_done_stamp_us
      /\ next.pacing_gain = b.pacing_gain
  BY <1>1 DEF BbrState
<1>3. bbr_update_cycle_phase(b, n) \in {b, next}
  BY DEF bbr_update_cycle_phase
<1> HIDE DEF next
<1> QED
  BY <1>2, <1>3 DEF Consistent, ModeInv, Keeps, bbr_full_bw_reached

(* bbr_check_full_bw_reached.  It may find the pipe full in STARTUP, which  *)
(* bbr_check_drain then leaves.                                             *)
LEMMA CheckFullTypes ==
  ASSUME NEW b \in BbrState, Consistent(b), ModeInv(b), NEW rs \in Sample
  PROVE  LET c == bbr_check_full_bw_reached(b, rs)
         IN  /\ c \in BbrState /\ Consistent(c) /\ Keeps(b, c)
             /\ c.mode \in {"DRAIN", "PROBE_BW"} => c.full_bw_reached
             /\ c.mode = b.mode /\ c.prior_delivered_time_us = b.prior_delivered_time_us
             /\ c.probe_rtt_done_stamp_us = b.probe_rtt_done_stamp_us
<1> DEFINE Same(c) == /\ c.mode = b.mode /\ c.prior_delivered_time_us = b.prior_delivered_time_us
                      /\ c.rtt_cnt = b.rtt_cnt /\ c.app_limited_until = b.app_limited_until
                      /\ c.bw = b.bw
                      /\ c.probe_rtt_done_stamp_us = b.probe_rtt_done_stamp_us
                      /\ c.pacing_gain = b.pacing_gain
<1>1. CASE b.full_bw_reached \/ rs.is_app_limited
  BY <1>1 DEF bbr_check_full_bw_reached, Keeps, ModeInv
<1>2. CASE ~b.full_bw_reached /\ ~rs.is_app_limited
  <2>1. b.full_bw_cnt + 1 \in 0..FullBwCnt /\ b.mode \notin {"DRAIN", "PROBE_BW"}
    BY <1>2, Constants DEF Consistent, bbr_full_bw_reached, ModeInv, BbrState
  <2>2. Growth(b) \in BbrState /\ Same(Growth(b)) /\ Growth(b).full_bw_cnt = 0
        /\ Growth(b).full_bw_reached = b.full_bw_reached
    <3>1. bbr_max_bw(b) \in Nat /\ 0 \in 0..FullBwCnt
      BY EstimateTypes, Constants
    <3>2. Growth(b) = [b EXCEPT !.full_bw = bbr_max_bw(b), !.full_bw_cnt = 0]
      BY DEF Growth
    <3> QED
      BY <3>1, <3>2 DEF BbrState
  <2>3. Consistent(Growth(b))
    <3>1. Growth(b).full_bw_reached = FALSE
      BY <1>2, <2>2 DEF BbrState
    <3>2. bbr_full_bw_reached(Growth(b)) = FALSE
      BY <2>2, Constants DEF bbr_full_bw_reached
    <3> QED
      BY <3>1, <3>2 DEF Consistent
  <2> DEFINE counted == [b EXCEPT !.full_bw_cnt = b.full_bw_cnt + 1]
             full == bbr_full_bw_reached(counted)
  <2>4. counted \in BbrState /\ Same(counted) /\ counted.full_bw_cnt = b.full_bw_cnt + 1
    BY <2>1 DEF BbrState
  <2>5. full \in BOOLEAN /\ NoGrowth(b) = [counted EXCEPT !.full_bw_reached = full]
    BY DEF NoGrowth, bbr_full_bw_reached
  <2> HIDE DEF counted, full
  <2>6. NoGrowth(b) \in BbrState /\ Same(NoGrowth(b))
        /\ NoGrowth(b).full_bw_cnt = counted.full_bw_cnt /\ NoGrowth(b).full_bw_reached = full
    BY <2>4, <2>5 DEF BbrState
  <2>7. Consistent(NoGrowth(b))
    BY <2>6 DEF Consistent, bbr_full_bw_reached, full
  <2>8. bbr_check_full_bw_reached(b, rs) \in {Growth(b), NoGrowth(b)}
    BY <1>2 DEF bbr_check_full_bw_reached
  <2> QED
    BY <2>1, <2>2, <2>3, <2>6, <2>7, <2>8 DEF Keeps
<1> QED
  BY <1>1, <1>2 DEF BbrState, Sample

(* bbr_check_drain: after it, a full pipe is not in STARTUP.                *)
LEMMA CheckDrainTypes ==
  ASSUME NEW b \in BbrState, Consistent(b), NEW n \in Nat,
         b.mode \in {"DRAIN", "PROBE_BW"} => b.full_bw_reached
  PROVE  LET c == bbr_check_drain(b, n)
         IN  /\ c \in BbrState /\ Consistent(c) /\ ModeInv(c) /\ Keeps(b, c)
             /\ c.prior_delivered_time_us = b.prior_delivered_time_us
             /\ c.probe_rtt_done_stamp_us = b.probe_rtt_done_stamp_us
             /\ b.mode = "PROBE_RTT" => c.mode = "PROBE_RTT"
<1> DEFINE drained == IF b.mode = "STARTUP" /\ bbr_full_bw_reached(b)
                      THEN [b EXCEPT !.mode = "DRAIN", !.pacing_gain = drain_gain,
                                     !.cwnd_gain = high_gain]
                      ELSE b
<1>1. /\ drained \in BbrState /\ drained.full_bw_cnt = b.full_bw_cnt
      /\ drained.full_bw_reached = b.full_bw_reached
      /\ drained.prior_delivered_time_us = b.prior_delivered_time_us
      /\ drained.rtt_cnt = b.rtt_cnt /\ drained.app_limited_until = b.app_limited_until
      /\ drained.bw = b.bw
      /\ drained.probe_rtt_done_stamp_us = b.probe_rtt_done_stamp_us
      /\ drained.mode = "PROBE_BW" => drained.pacing_gain = b.pacing_gain
      /\ drained.mode = IF b.mode = "STARTUP" /\ bbr_full_bw_reached(b) THEN "DRAIN" ELSE b.mode
  <2>1. drain_gain \in Gain /\ high_gain \in Gain /\ "DRAIN" \in Mode
    BY DEF drain_gain, high_gain, BBR_UNIT, Gain, Mode
  <2> QED
    BY <2>1 DEF BbrState
<1>2. bbr_check_drain(b, n) = IF drained.mode = "DRAIN" /\ n <= bdp_in_bytes(drained, BBR_UNIT)
                              THEN bbr_reset_probe_bw_mode(drained) ELSE drained
  BY DEF bbr_check_drain
<1> HIDE DEF drained
<1>3. Consistent(drained)
  BY <1>1 DEF Consistent, bbr_full_bw_reached
<1>4. ModeInv(drained)
  BY <1>1 DEF Consistent, ModeInv
<1>5. CASE drained.mode = "DRAIN"
  <2>1. bbr_full_bw_reached(drained) /\ b.mode \in {"STARTUP", "DRAIN"}
    BY <1>1, <1>3, <1>4, <1>5 DEF Consistent, ModeInv
  <2>2. bbr_reset_mode(drained) = bbr_reset_probe_bw_mode(drained)
    BY <2>1 DEF bbr_reset_mode
  <2>3. bbr_check_drain(b, n) \in {drained, bbr_reset_mode(drained)}
    BY <1>2, <2>2
  <2> QED
    BY <1>1, <1>3, <1>4, <1>5, <2>1, <2>3, ResetTypes DEF Keeps
<1>6. CASE drained.mode # "DRAIN"
  BY <1>1, <1>2, <1>3, <1>4, <1>6 DEF Keeps
<1> QED
  BY <1>5, <1>6

-----------------------------------------------------------------------------
(* bbr_on_ack *)

(* The window is the minimum whatever the model says, because it grows from *)
(* 0 (bbr_set_cwnd), and the gap is defined (bbr_pacing_gap).               *)
LEMMA OutputTypes ==
  ASSUME NEW b \in BbrState
  PROVE  bbr_set_cwnd(b) = MinTarget /\ bbr_pacing_gap(b) \in Nat
<1>1. bbr_set_cwnd(b) = MinTarget
  <2>1. bbr_target_cwnd(b, b.cwnd_gain) \in Int
    BY EstimateTypes DEF BbrState, Gain
  <2>2. Smaller(1, bbr_target_cwnd(b, b.cwnd_gain)) \in Int
        /\ Smaller(1, bbr_target_cwnd(b, b.cwnd_gain)) <= 1
    BY <2>1 DEF Smaller
  <2>3. \A x \in Int : x <= 1 => Larger(x, MinTarget) = MinTarget
    BY Constants DEF Larger
  <2>4. Smaller(MinTarget, MinTarget) = MinTarget
    BY DEF Smaller
  <2> HIDE DEF Smaller, Larger
  <2> QED
    BY <2>2, <2>3, <2>4 DEF bbr_set_cwnd
<1>2. bbr_pacing_gap(b) \in Nat
  <2>1. PacketsPerSec(b) \in Nat
    <3>1. Scaled(bbr_max_bw(b), b.pacing_gain) \in Nat
      <4>1. b.pacing_gain \in Nat
        BY DEF BbrState, Gain
      <4> QED
        BY <4>1, EstimateTypes
    <3>2. Scaled(bbr_max_bw(b), b.pacing_gain) * USEC_PER_SEC \in Nat
      BY <3>1, Constants, Multiplies
    <3> QED
      BY <3>2, Constants, Divides DEF PacketsPerSec
  <2>2. PacketsPerSec(b) # 0 => USEC_PER_SEC \div PacketsPerSec(b) \in Nat
    BY <2>1, Constants, Divides
  <2> QED
    BY <2>1, <2>2, Constants DEF bbr_pacing_gap, Larger
<1> QED
  BY <1>1, <1>2

(* The rate sample of an acknowledgement, which the ring takes or not.      *)
Sampled == \E r \in Rate, taken \in BOOLEAN :
  /\ bbr'.rtt_cnt = bbr.rtt_cnt + 1
  /\ bbr'.bw = IF taken THEN minmax_insert(bbr.bw, bbr.rtt_cnt + 1, r) ELSE bbr.bw
  /\ recent' = Append(IF Len(recent) < WindowRtts THEN recent ELSE Tail(recent),
                      [v |-> r, taken |-> taken])

LEMMA OnAck ==
  ASSUME TypesInv, ClockInv, PipeFullAndMode,
         bbr.probe_rtt_done_stamp_us # 0 => bbr.mode = "PROBE_RTT",
         NEW t \in Sent, t.send_time_us < now, t.rs.prior_mstamp <= t.send_time_us,
         NEW n \in Nat, bbr_on_ack(t, n)
  PROVE  /\ bbr' \in BbrState /\ pacing_gap' \in Nat /\ cwnd' = MinTarget
         /\ Consistent(bbr') /\ ModeInv(bbr')
         /\ bbr'.rtt_cnt > 0 /\ bbr'.prior_delivered_time_us = now
         /\ bbr'.app_limited_until = AppLimitedLeft(bbr, t.len)
         /\ bbr'.probe_rtt_done_stamp_us # 0 =>
              /\ bbr'.mode = "PROBE_RTT"
              /\ bbr.probe_rtt_done_stamp_us # 0 \/ Len(segments) <= MinTarget
         /\ bbr.mode = "PROBE_BW" /\ bbr'.mode = "PROBE_BW" => bbr'.pacing_gain = bbr.pacing_gain
         /\ Sampled
<1> DEFINE measured == now - t.send_time_us
           counted  == [bbr EXCEPT !.rtt_cnt = @ + 1]
           rs       == RateSample(counted, t.rs, n)
           rtt      == bbr_update_min_rtt(counted, measured)
           bw       == bbr_update_bw(rtt, rs, now)
           phase    == bbr_update_cycle_phase(bw, n)
           full     == bbr_check_full_bw_reached(phase, rs)
           model    == bbr_check_drain(full, n)
           left     == AppLimitedLeft(model, t.len)
           sampled  == IsSampled(Delivered(rtt, now), rs)
           rate     == DeliveryRate(bw, rs)
<1>1. /\ bbr' = [model EXCEPT !.app_limited_until = left]
      /\ pacing_gap' = bbr_pacing_gap(model) /\ cwnd' = bbr_set_cwnd(model)
      /\ recent' = Append(IF Len(recent) < WindowRtts THEN recent ELSE Tail(recent),
                          [v |-> rate, taken |-> sampled])
  BY DEF bbr_on_ack
<1>2. /\ bbr \in BbrState /\ now \in Nat /\ cwnd \in Nat /\ measured \in Nat
      /\ t.rs \in Sample /\ t.rs.prior_mstamp < now /\ t.len \in Nat
  <2>1. t.rs \in Sample /\ t.send_time_us \in Nat /\ t.rs.prior_mstamp \in Nat /\ t.len \in Nat
    <3>1. t.rs \in Sample /\ t.send_time_us \in Nat /\ t.len \in 1..MSS
      BY Constants DEF Sent
    <3> QED
      BY <3>1 DEF Sample
  <2> QED
    BY <2>1 DEF TypesInv
<1>3. Consistent(bbr) /\ ModeInv(bbr)
  BY DEF PipeFullAndMode, Consistent, ModeInv
<1>4. /\ counted \in BbrState /\ counted.mode = bbr.mode /\ counted.rtt_cnt = bbr.rtt_cnt + 1
      /\ counted.rtt_cnt > 0 /\ counted.bw = bbr.bw
      /\ counted.full_bw_cnt = bbr.full_bw_cnt /\ counted.full_bw_reached = bbr.full_bw_reached
      /\ counted.app_limited_until = bbr.app_limited_until
      /\ counted.probe_rtt_done_stamp_us = bbr.probe_rtt_done_stamp_us
      /\ counted.pacing_gain = bbr.pacing_gain
  BY <1>2 DEF BbrState
<1> HIDE DEF measured, counted
<1>5. Consistent(counted) /\ ModeInv(counted)
  BY <1>3, <1>4 DEF Consistent, ModeInv, bbr_full_bw_reached
<1>6. rs \in Sample /\ rs.prior_mstamp < now
  BY <1>2, <1>4, RateSampleType
<1> HIDE DEF rs
<1>7. /\ rtt \in BbrState /\ Consistent(rtt) /\ ModeInv(rtt) /\ Keeps(counted, rtt)
      /\ rtt.probe_rtt_done_stamp_us # 0 =>
           /\ rtt.mode = "PROBE_RTT"
           /\ counted.probe_rtt_done_stamp_us # 0 \/ Len(segments) <= MinTarget
  BY <1>2, <1>4, <1>5, MinRttTypes
<1>8. bbr.mode = "PROBE_BW" => rtt.mode \in {"PROBE_BW", "PROBE_RTT"}
  <2>1. SUFFICES ASSUME bbr.mode = "PROBE_BW"
                 PROVE  rtt.mode \in {"PROBE_BW", "PROBE_RTT"}
    OBVIOUS
  <2>2. MinRttFiltered(counted, measured).mode = "PROBE_BW"
    BY <1>4, <2>1 DEF MinRttFiltered, BbrState
  <2> DEFINE f == MinRttFiltered(counted, measured)
             e == EnterProbeRtt(f)
  <2>3. f \in BbrState
    BY <1>2, <1>4 DEF MinRttFiltered, BbrState
  <2>4. e.mode = "PROBE_RTT" /\ e.probe_rtt_done_stamp_us = 0
    BY <2>3 DEF EnterProbeRtt, BbrState
  <2>5. rtt = IF FilterExpired(counted) THEN InProbeRtt(e) ELSE f
    BY <1>4, <2>1, <2>2, <2>4 DEF bbr_update_min_rtt
  <2> QED
    <3>1. InProbeRtt(e).mode = "PROBE_RTT"
      <4>1. e \in BbrState
        <5>1. Larger(f.prior_cwnd, cwnd) \in Nat /\ BBR_UNIT \in Gain
          BY <1>2, <2>3 DEF BbrState, Larger, Gain, BBR_UNIT
        <5>2. e = [f EXCEPT !.mode = "PROBE_RTT", !.pacing_gain = BBR_UNIT,
                            !.cwnd_gain = BBR_UNIT, !.prior_cwnd = Larger(f.prior_cwnd, cwnd),
                            !.probe_rtt_done_stamp_us = 0]
          BY DEF EnterProbeRtt
        <5> HIDE DEF f, e
        <5> QED
          BY <2>3, <5>1, <5>2 DEF BbrState, Mode
      <4> HIDE DEF e
      <4> QED
        BY <2>4, <4>1 DEF InProbeRtt, BbrState
    <3> QED
      BY <2>2, <2>5, <3>1
<1> HIDE DEF rtt
<1>9. /\ bw \in BbrState /\ Consistent(bw) /\ ModeInv(bw)
      /\ bw.rtt_cnt = rtt.rtt_cnt /\ bw.app_limited_until = rtt.app_limited_until
      /\ bw.pacing_gain = rtt.pacing_gain /\ rate \in Rate
      /\ bw.bw = IF sampled THEN minmax_insert(rtt.bw, rtt.rtt_cnt, rate) ELSE rtt.bw
      /\ bw.mode = rtt.mode /\ bw.prior_delivered_time_us = now
      /\ bw.probe_rtt_done_stamp_us = rtt.probe_rtt_done_stamp_us
  BY <1>2, <1>6, <1>7, UpdateBwTypes
<1>s. sampled \in BOOLEAN
  BY DEF IsSampled
<1> HIDE DEF bw, rate, sampled
<1>10. /\ phase \in BbrState /\ Consistent(phase) /\ ModeInv(phase) /\ Keeps(bw, phase)
       /\ phase.mode = bw.mode /\ phase.prior_delivered_time_us = now
       /\ phase.probe_rtt_done_stamp_us = bw.probe_rtt_done_stamp_us
  BY <1>9, CyclePhaseTypes
<1> HIDE DEF phase
<1>11. /\ full \in BbrState /\ Consistent(full) /\ Keeps(phase, full)
       /\ full.mode \in {"DRAIN", "PROBE_BW"} => full.full_bw_reached
       /\ full.mode = phase.mode /\ full.prior_delivered_time_us = now
       /\ full.probe_rtt_done_stamp_us = phase.probe_rtt_done_stamp_us
  BY <1>6, <1>10, CheckFullTypes
<1> HIDE DEF full
<1>12. /\ model \in BbrState /\ Consistent(model) /\ ModeInv(model) /\ Keeps(full, model)
       /\ model.prior_delivered_time_us = now
       /\ model.probe_rtt_done_stamp_us = full.probe_rtt_done_stamp_us
       /\ full.mode = "PROBE_RTT" => model.mode = "PROBE_RTT"
  BY <1>11, CheckDrainTypes
<1> HIDE DEF model
<1>13. /\ model.rtt_cnt > 0 /\ model.app_limited_until = bbr.app_limited_until
  BY <1>4, <1>7, <1>9, <1>10, <1>11, <1>12 DEF Keeps
<1>14. bbr.mode = "PROBE_BW" /\ model.mode = "PROBE_BW" => model.pacing_gain = bbr.pacing_gain
  <2>1. SUFFICES ASSUME bbr.mode = "PROBE_BW", model.mode = "PROBE_BW"
                 PROVE  model.pacing_gain = bbr.pacing_gain
    OBVIOUS
  <2>2. rtt.mode = "PROBE_BW" /\ full.mode = "PROBE_BW"
    BY <1>8, <1>9, <1>10, <1>11, <1>12, <2>1
  <2> QED
    BY <1>4, <1>7, <1>9, <1>10, <1>11, <1>12, <2>1, <2>2 DEF Keeps
<1>15. left = AppLimitedLeft(bbr, t.len) /\ left \in Int
  BY <1>2, <1>13 DEF AppLimitedLeft, BbrState
<1> HIDE DEF left
<1>16. /\ bbr' \in BbrState /\ bbr'.app_limited_until = left /\ bbr'.mode = model.mode
       /\ bbr'.full_bw_cnt = model.full_bw_cnt /\ bbr'.full_bw_reached = model.full_bw_reached
       /\ bbr'.bw = model.bw
       /\ bbr'.rtt_cnt = model.rtt_cnt /\ bbr'.pacing_gain = model.pacing_gain
       /\ bbr'.prior_delivered_time_us = model.prior_delivered_time_us
       /\ bbr'.probe_rtt_done_stamp_us = model.probe_rtt_done_stamp_us
  BY <1>1, <1>12, <1>15 DEF BbrState
<1>17. Consistent(bbr') /\ ModeInv(bbr')
  BY <1>12, <1>16 DEF Consistent, ModeInv, bbr_full_bw_reached
<1>18. pacing_gap' \in Nat /\ cwnd' = MinTarget
  BY <1>1, <1>12, OutputTypes
<1>19. bbr'.probe_rtt_done_stamp_us # 0 =>
         /\ bbr'.mode = "PROBE_RTT"
         /\ bbr.probe_rtt_done_stamp_us # 0 \/ Len(segments) <= MinTarget
  BY <1>4, <1>7, <1>9, <1>10, <1>11, <1>12, <1>16
<1>20. Sampled
  <2>1. rtt.rtt_cnt = bbr.rtt_cnt + 1 /\ rtt.bw = bbr.bw
    BY <1>4, <1>7 DEF Keeps
  <2>2. bbr'.rtt_cnt = rtt.rtt_cnt /\ bbr'.bw = bw.bw
    BY <1>9, <1>10, <1>11, <1>12, <1>16 DEF Keeps
  <2> QED
    BY <1>1, <1>9, <1>s, <2>1, <2>2 DEF Sampled
<1> QED
  BY <1>12, <1>13, <1>14, <1>15, <1>16, <1>17, <1>18, <1>19, <1>20

-----------------------------------------------------------------------------
(* Sums over the segments in flight *)

LEMMA SentLen == \A x \in Sent : x.len \in 1..MSS /\ x.len \in Nat
<1>1. \A x \in Sent : x.len \in SegmentSizes
  BY DEF Sent
<1>2. SegmentSizes \subseteq 1..MSS
  BY Constants
<1>3. \A n \in 1..MSS : n \in Nat
  OBVIOUS
<1> QED
  BY <1>1, <1>2, <1>3, Zenon

LEMMA SumOfAppended ==
  ASSUME NEW q \in Seq(Sent), NEW sum, IsSum(q, sum), NEW x \in Sent
  PROVE  \E more \in [0..(Len(q) + 1) -> Nat] :
           /\ IsSum(Append(q, x), more) /\ more[Len(q) + 1] = sum[Len(q)] + x.len
           /\ \A i \in 0..Len(q) : more[i] = sum[i]
<1> DEFINE n == Len(q)
           more == [i \in 0..(n + 1) |-> IF i = n + 1 THEN sum[n] + x.len ELSE sum[i]]
<1>1. n \in Nat /\ Len(Append(q, x)) = n + 1 /\ x.len \in 1..MSS /\ MSS \in Nat
      /\ Append(q, x)[n + 1] = x /\ \A i \in 1..n : Append(q, x)[i] = q[i]
  BY Constants, AppendProperties, SentLen
<1>2. sum \in [0..n -> Nat] /\ sum[0] = 0 /\ \A i \in 1..n : sum[i] = sum[i - 1] + q[i].len
  BY DEF IsSum
<1>3. \A i, j \in 0..n : i <= j => sum[i] <= sum[j] /\ sum[j] - sum[i] <= (j - i) * MSS
  BY DEF IsSum
<1> HIDE DEF n
<1>4. more \in [0..(n + 1) -> Nat] /\ more[0] = 0 /\ more[n + 1] = sum[n] + x.len
      /\ \A i \in 0..n : more[i] = sum[i]
  BY <1>1, <1>2
<1> HIDE DEF more
<1>5. ASSUME NEW i \in 1..(n + 1)
      PROVE  more[i] = more[i - 1] + Append(q, x)[i].len
  BY <1>1, <1>2, <1>4
<1>6. ASSUME NEW i \in 0..(n + 1), NEW j \in 0..(n + 1), i <= j
      PROVE  more[i] <= more[j] /\ more[j] - more[i] <= (j - i) * MSS
  <2>1. CASE j # n + 1
    <3>1. i \in 0..n /\ j \in 0..n
      BY <1>1, <1>6, <2>1
    <3> QED
      BY <1>3, <1>4, <1>6, <3>1
  <2>2. CASE i = n + 1
    BY <1>1, <1>4, <1>6, <2>2
  <2>3. CASE j = n + 1 /\ i # n + 1
    <3>1. i \in 0..n /\ n \in 0..n /\ i <= n /\ n - i \in Nat
      BY <1>1, <2>3
    <3>2. sum[i] <= sum[n] /\ sum[n] - sum[i] <= (n - i) * MSS
      BY <1>3, <3>1
    <3>3. more[i] = sum[i] /\ more[j] = sum[n] + x.len /\ sum[i] \in Nat /\ sum[n] \in Nat
      BY <1>2, <1>4, <2>3, <3>1
    <3>4. ((n + 1) - i) * MSS = (n - i) * MSS + MSS
      BY <1>1
    <3>5. (n - i) * MSS \in Nat
      BY <1>1, <3>1, Multiplies
    <3> QED
      BY <1>1, <2>3, <3>2, <3>3, <3>4, <3>5
  <2> QED
    BY <2>1, <2>2, <2>3
<1>7. IsSum(Append(q, x), more)
  BY <1>1, <1>4, <1>5, <1>6 DEF IsSum
<1> QED
  BY <1>4, <1>7 DEF n

LEMMA SumOfTail ==
  ASSUME NEW q \in Seq(Sent), q # << >>, NEW sum, IsSum(q, sum)
  PROVE  /\ sum[1] = Head(q).len /\ sum[1] <= sum[Len(q)] /\ sum[0] = 0
         /\ \E less \in [0..(Len(q) - 1) -> Nat] :
              IsSum(Tail(q), less) /\ \A i \in 0..(Len(q) - 1) : less[i] = sum[i + 1] - sum[1]
<1> DEFINE n == Len(q)
           less == [i \in 0..(n - 1) |-> sum[i + 1] - sum[1]]
<1>1. n \in Nat \ {0} /\ Len(Tail(q)) = n - 1 /\ Tail(q) \in Seq(Sent) /\ MSS \in Nat
      /\ \A i \in 1..(n - 1) : Tail(q)[i] = q[i + 1]
  BY Constants, HeadTailProperties, EmptySeq
<1>2. sum \in [0..n -> Nat] /\ sum[0] = 0 /\ \A i \in 1..n : sum[i] = sum[i - 1] + q[i].len
  BY DEF IsSum
<1>3. \A i, j \in 0..n : i <= j => sum[i] <= sum[j] /\ sum[j] - sum[i] <= (j - i) * MSS
  BY DEF IsSum
<1>4. q[1] = Head(q) /\ Head(q).len \in Nat
  BY HeadTailProperties, SentLen
<1> HIDE DEF n
<1>5. sum[1] = Head(q).len /\ sum[1] <= sum[n]
  <2>1. 1 \in 1..n /\ 1 \in 0..n /\ n \in 0..n /\ 1 <= n /\ 1 - 1 = 0
    BY <1>1
  <2>2. sum[1] = sum[0] + q[1].len
    BY <1>2, <2>1
  <2> QED
    BY <1>2, <1>3, <1>4, <2>1, <2>2
<1>6. ASSUME NEW i \in 0..(n - 1)
      PROVE  sum[i + 1] - sum[1] \in Nat
  <2>1. i + 1 \in 0..n /\ 1 \in 0..n /\ 1 <= i + 1
    BY <1>1
  <2>2. sum[1] <= sum[i + 1] /\ sum[1] \in Nat /\ sum[i + 1] \in Nat
    BY <1>2, <1>3, <2>1
  <2> QED
    BY <2>2
<1>7. less \in [0..(n - 1) -> Nat] /\ \A i \in 0..(n - 1) : less[i] = sum[i + 1] - sum[1]
  BY <1>6
<1> HIDE DEF less
<1>8. less[0] = 0
  BY <1>1, <1>2, <1>7
<1>9. ASSUME NEW i \in 1..(n - 1)
      PROVE  less[i] = less[i - 1] + Tail(q)[i].len
  <2>1. i + 1 \in 1..n /\ i \in 0..(n - 1) /\ i - 1 \in 0..(n - 1) /\ (i - 1) + 1 = i
        /\ (i + 1) - 1 = i /\ i \in 0..n /\ 1 \in 0..n
    BY <1>1
  <2>2. less[i] = sum[i + 1] - sum[1] /\ less[i - 1] = sum[i] - sum[1]
    BY <1>7, <2>1
  <2>3. sum[i + 1] = sum[i] + q[i + 1].len /\ q[i + 1].len \in Nat
    <3>1. q[i + 1] \in Sent
      BY <2>1, ElementOfSeq DEF n
    <3>2. sum[i + 1] = sum[(i + 1) - 1] + q[i + 1].len
      BY <1>2, <2>1
    <3> QED
      BY <2>1, <3>1, <3>2, SentLen
  <2>4. sum[i] \in Nat /\ sum[1] \in Nat
    BY <1>2, <2>1
  <2>5. Tail(q)[i] = q[i + 1]
    BY <1>1
  <2>6. less[i] = (sum[i] - sum[1]) + q[i + 1].len
    BY <2>2, <2>3, <2>4
  <2> QED
    BY <2>2, <2>5, <2>6, Zenon
<1>10. ASSUME NEW i \in 0..(n - 1), NEW j \in 0..(n - 1), i <= j
       PROVE  less[i] <= less[j] /\ less[j] - less[i] <= (j - i) * MSS
  <2>1. i + 1 \in 0..n /\ j + 1 \in 0..n /\ i + 1 <= j + 1 /\ (j + 1) - (i + 1) = j - i
        /\ 1 \in 0..n
    BY <1>1, <1>10
  <2>2. sum[i + 1] <= sum[j + 1] /\ sum[j + 1] - sum[i + 1] <= (j - i) * MSS
    BY <1>3, <2>1
  <2> QED
    <3>1. less[i] = sum[i + 1] - sum[1] /\ less[j] = sum[j + 1] - sum[1]
      BY <1>7
    <3>2. sum[i + 1] \in Nat /\ sum[j + 1] \in Nat /\ sum[1] \in Nat
      BY <1>2, <2>1
    <3>3. (j - i) * MSS \in Int
      BY <1>1
    <3> QED
      BY <2>2, <3>1, <3>2, <3>3
<1>11. IsSum(Tail(q), less)
  BY <1>1, <1>7, <1>8, <1>9, <1>10 DEF IsSum
<1> QED
  BY <1>2, <1>5, <1>7, <1>11 DEF n

-----------------------------------------------------------------------------
(* The invariant is kept by each action of the sender *)

(* What speaks of the model alone, when a step leaves the model alone.      *)
LEMMA ModelStays ==
  ASSUME BbrInvariant, UNCHANGED << bbr, cwnd, pacing_gap >>
  PROVE  /\ bbr' \in BbrState /\ cwnd' \in Nat /\ pacing_gap' \in Nat
         /\ StartInv' /\ PipeFullAndMode' /\ CwndStaysMinimal'
<1>1. PipeFullAndMode'
  BY DEF BbrInvariant, PipeFullAndMode, bbr_full_bw_reached
<1> QED
  BY <1>1 DEF BbrInvariant, TypesInv, StartInv, CwndStaysMinimal

LEMMA InitInvariant == Init => BbrInvariant
<1> SUFFICES ASSUME Init PROVE BbrInvariant
  OBVIOUS
<1>1. bbr \in BbrState
  <2>1. minmax_reset(0, 0, WindowRtts) \in Ring
    <3>1. 0 \in Nat /\ 0 \in Rate /\ 0 \in Slot
      BY Constants DEF Rate, Slot
    <3> QED
      BY <3>1 DEF minmax_reset, Ring, Slot
  <2>2. high_gain \in Gain /\ "STARTUP" \in Mode /\ 0 \in 0..FullBwCnt /\ 0 \in 0..7
    BY Constants DEF high_gain, BBR_UNIT, Gain, Mode
  <2> QED
    BY <2>1, <2>2, Constants DEF Init, BbrState
<1>2. /\ bbr.mode = "STARTUP" /\ bbr.full_bw_cnt = 0 /\ bbr.full_bw_reached = FALSE
      /\ bbr.rtt_cnt = 0 /\ bbr.probe_rtt_done_stamp_us = 0 /\ bbr.app_limited_until = 0
      /\ bbr.prior_delivered_time_us = 0 /\ now = 0 /\ tx_in_flight_bytes = 0
      /\ segments = << >> /\ waiting_segments = << >>
  BY DEF Init
<1>3. TypesInv
  <2>1. USEC_PER_SEC \div InitialCwnd \in Nat
    BY Constants, Divides
  <2>2. cwnd \in Nat /\ pacing_gap \in Nat
    BY <2>1, Constants DEF Init, Larger
  <2> QED
    BY <1>1, <1>2, <2>2 DEF TypesInv
<1>4. ClockInv
  BY <1>2 DEF ClockInv
<1>5. FlightInv
  <2> DEFINE sum == [i \in 0..0 |-> 0]
  <2>1. Len(segments) = 0 /\ sum \in [0..0 -> Nat] /\ sum[0] = 0
    BY <1>2
  <2>2. \A i, j \in 0..0 : sum[i] = 0 /\ sum[j] - sum[i] <= (j - i) * MSS
    <3>1. 0 * MSS = 0
      BY Constants
    <3>2. \A i \in 0..0 : i = 0
      OBVIOUS
    <3>3. sum[0] - sum[0] <= (0 - 0) * MSS
      BY <2>1, <3>1
    <3> QED
      BY <2>1, <3>2, <3>3
  <2> HIDE DEF sum
  <2>3. IsSum(segments, sum)
    BY <2>1, <2>2 DEF IsSum
  <2> QED
    BY <1>2, <2>1, <2>3 DEF FlightInv
<1>6. PipeFullAndMode
  <2>1. bbr_full_bw_reached(bbr) = FALSE
    BY <1>2, Constants DEF bbr_full_bw_reached
  <2> QED
    BY <1>2, <2>1 DEF PipeFullAndMode
<1> QED
  BY <1>2, <1>3, <1>4, <1>5, <1>6 DEF BbrInvariant, StartInv, ProbeRttFlight, CwndStaysMinimal

(* STDIN delivers a segment, the timer finds the window full, or time       *)
(* passes: nothing in flight changes.                                       *)
LEMMA QuietStep ==
  ASSUME BbrInvariant, ReadSegment \/ WindowFull \/ Tick \/ UNCHANGED vars
  PROVE  BbrInvariant'
<1>1. UNCHANGED << bbr, cwnd, pacing_gap, tx_in_flight_bytes, segments >>
  BY DEF ReadSegment, WindowFull, Tick, vars
<1>2. now' \in Nat /\ now <= now'
  BY DEF BbrInvariant, TypesInv, ReadSegment, WindowFull, Tick, vars
<1>3. waiting_segments' \in Seq(SegmentSizes)
  <2>1. waiting_segments \in Seq(SegmentSizes)
    BY DEF BbrInvariant, TypesInv
  <2>2. CASE ReadSegment
    BY <2>1, <2>2, AppendProperties DEF ReadSegment
  <2>3. CASE WindowFull \/ Tick \/ UNCHANGED vars
    BY <2>1, <2>3 DEF WindowFull, Tick, vars
  <2> QED
    BY <2>2, <2>3
<1>4. TypesInv'
  BY <1>1, <1>2, <1>3 DEF BbrInvariant, TypesInv
<1>5. ClockInv'
  <2>1. bbr.prior_delivered_time_us \in Nat /\ now \in Nat
    BY DEF BbrInvariant, TypesInv, BbrState
  <2>2. bbr'.prior_delivered_time_us <= now'
    BY <1>1, <1>2, <2>1 DEF BbrInvariant, ClockInv
  <2> QED
    BY <1>1, <2>2 DEF BbrInvariant, ClockInv
<1>6. FlightInv' /\ ProbeRttFlight'
  BY <1>1 DEF BbrInvariant, FlightInv, ProbeRttFlight
<1> QED
  BY <1>1, <1>4, <1>5, <1>6, ModelStays DEF BbrInvariant

(* The mark is set to all that is in flight.                                *)
LEMMA NothingWaitingStep ==
  ASSUME BbrInvariant, NothingWaiting
  PROVE  BbrInvariant'
<1>1. /\ bbr \in BbrState /\ tx_in_flight_bytes \in Nat
      /\ bbr' = [bbr EXCEPT !.app_limited_until = tx_in_flight_bytes]
      /\ UNCHANGED << cwnd, pacing_gap, tx_in_flight_bytes, segments, waiting_segments, now >>
  BY DEF BbrInvariant, TypesInv, NothingWaiting
<1>2. /\ bbr' \in BbrState /\ bbr'.app_limited_until = tx_in_flight_bytes
      /\ bbr'.mode = bbr.mode /\ bbr'.full_bw_cnt = bbr.full_bw_cnt
      /\ bbr'.full_bw_reached = bbr.full_bw_reached /\ bbr'.rtt_cnt = bbr.rtt_cnt
      /\ bbr'.prior_delivered_time_us = bbr.prior_delivered_time_us
      /\ bbr'.probe_rtt_done_stamp_us = bbr.probe_rtt_done_stamp_us
  BY <1>1 DEF BbrState
<1>3. TypesInv' /\ ClockInv'
  BY <1>1, <1>2 DEF BbrInvariant, TypesInv, ClockInv
<1>4. FlightInv'
  <2>1. PICK sum \in [0..Len(segments) -> Nat] :
          IsSum(segments, sum) /\ sum[Len(segments)] = tx_in_flight_bytes
    BY DEF BbrInvariant, FlightInv
  <2>2. Len(segments) \in 0..Len(segments)
    BY LenProperties DEF BbrInvariant, TypesInv
  <2> QED
    BY <1>1, <1>2, <2>1, <2>2 DEF FlightInv
<1>5. PipeFullAndMode'
  BY <1>2 DEF BbrInvariant, PipeFullAndMode, bbr_full_bw_reached
<1>6. StartInv' /\ ProbeRttFlight' /\ CwndStaysMinimal'
  BY <1>1, <1>2 DEF BbrInvariant, StartInv, ProbeRttFlight, CwndStaysMinimal
<1> QED
  BY <1>3, <1>4, <1>5, <1>6 DEF BbrInvariant

(* A segment is sent: the window of PROBE_RTT is the minimum one.           *)
LEMMA SendFrontStep ==
  ASSUME BbrInvariant, SendFront
  PROVE  BbrInvariant'
<1> DEFINE x == [len |-> Head(waiting_segments), send_time_us |-> now, rs |-> bbr_on_send]
<1>1. /\ bbr \in BbrState /\ cwnd \in Nat /\ now \in Nat /\ segments \in Seq(Sent)
      /\ waiting_segments \in Seq(SegmentSizes) /\ tx_in_flight_bytes \in Nat
  BY DEF BbrInvariant, TypesInv
<1>2. /\ waiting_segments # << >>
      /\ tx_in_flight_bytes + Head(waiting_segments) <= cwnd * MSS
      /\ tx_in_flight_bytes' = tx_in_flight_bytes + Head(waiting_segments)
      /\ segments' = Append(segments, x) /\ waiting_segments' = Tail(waiting_segments)
      /\ UNCHANGED << bbr, cwnd, pacing_gap, now >>
  BY DEF SendFront, WindowAllows
<1>3. Head(waiting_segments) \in SegmentSizes /\ Tail(waiting_segments) \in Seq(SegmentSizes)
  BY <1>1, <1>2, HeadTailProperties
<1>4. x \in Sent /\ x.rs.prior_mstamp = bbr.prior_delivered_time_us /\ x.send_time_us = now
      /\ x.len = Head(waiting_segments)
  <2>1. bbr_on_send \in Sample /\ bbr_on_send.prior_mstamp = bbr.prior_delivered_time_us
    BY <1>1 DEF bbr_on_send, Sample, BbrState
  <2> QED
    BY <1>1, <1>3, <2>1 DEF Sent
<1> HIDE DEF x
<1>5. x.len \in Nat
  BY <1>4, SentLen
<1>6. TypesInv'
  BY <1>1, <1>2, <1>3, <1>4, <1>5, AppendProperties, ModelStays DEF TypesInv
<1>7. ClockInv'
  <2>1. ASSUME NEW i \in 1..Len(segments')
        PROVE  segments'[i].rs.prior_mstamp <= segments'[i].send_time_us
    <3>1. Len(segments') = Len(segments) + 1 /\ Len(segments) \in Nat
      BY <1>1, <1>2, <1>4, AppendProperties, LenProperties
    <3>2. CASE i = Len(segments) + 1
      <4>1. segments'[i] = x
        BY <1>1, <1>2, <1>4, <3>2, AppendProperties
      <4> QED
        BY <1>4, <4>1 DEF BbrInvariant, ClockInv
    <3>3. CASE i # Len(segments) + 1
      <4>1. i \in 1..Len(segments)
        BY <2>1, <3>1, <3>3
      <4>2. segments'[i] = segments[i]
        BY <1>1, <1>2, <1>4, <4>1, AppendProperties
      <4> QED
        BY <4>1, <4>2 DEF BbrInvariant, ClockInv
    <3> QED
      BY <3>2, <3>3
  <2> QED
    BY <1>2, <2>1 DEF BbrInvariant, ClockInv
<1>8. FlightInv'
  <2>1. PICK sum \in [0..Len(segments) -> Nat] :
          /\ IsSum(segments, sum) /\ sum[Len(segments)] = tx_in_flight_bytes
          /\ \E k \in 0..Len(segments) : bbr.app_limited_until = sum[k]
    BY DEF BbrInvariant, FlightInv
  <2>2. PICK more \in [0..(Len(segments) + 1) -> Nat] :
          /\ IsSum(segments', more) /\ more[Len(segments) + 1] = sum[Len(segments)] + x.len
          /\ \A i \in 0..Len(segments) : more[i] = sum[i]
    BY <1>1, <1>2, <1>4, <2>1, SumOfAppended
  <2>3. Len(segments') = Len(segments) + 1 /\ Len(segments) \in Nat
    BY <1>1, <1>2, <1>4, AppendProperties, LenProperties
  <2>4. PICK k \in 0..Len(segments) : bbr.app_limited_until = sum[k]
    BY <2>1
  <2>5. k \in 0..Len(segments') /\ bbr'.app_limited_until = more[k]
    BY <1>2, <2>2, <2>3, <2>4
  <2>6. more[Len(segments')] = tx_in_flight_bytes'
    BY <1>2, <1>4, <2>1, <2>2, <2>3
  <2> QED
    BY <2>2, <2>3, <2>5, <2>6 DEF FlightInv
<1>9. ProbeRttFlight'
  <2>1. SUFFICES ASSUME bbr.probe_rtt_done_stamp_us # 0
                 PROVE  bbr.mode = "PROBE_RTT" /\ tx_in_flight_bytes' <= MinTarget * MSS
    BY <1>2, Constants DEF ProbeRttFlight
  <2>2. bbr.rtt_cnt > 0
    BY <1>1, <2>1 DEF BbrInvariant, StartInv, BbrState
  <2>3. cwnd = MinTarget /\ bbr.mode = "PROBE_RTT"
    BY <2>1, <2>2 DEF BbrInvariant, CwndStaysMinimal, ProbeRttFlight
  <2> QED
    BY <1>2, <2>3
<1> QED
  BY <1>2, <1>6, <1>7, <1>8, <1>9, ModelStays DEF BbrInvariant

(* An acknowledgement takes the oldest segment out of both sums, unless the *)
(* mark has expired.                                                        *)
LEMMA ReceiveAckStep ==
  ASSUME BbrInvariant, ReceiveAck
  PROVE  BbrInvariant'
<1> DEFINE t == Head(segments)
           n == Len(segments)
<1>1. /\ segments # << >> /\ t.send_time_us < now
      /\ tx_in_flight_bytes' = tx_in_flight_bytes - t.len
      /\ bbr_on_ack(t, tx_in_flight_bytes') /\ segments' = Tail(segments)
      /\ UNCHANGED << waiting_segments, now >>
  BY DEF ReceiveAck
<1>2. /\ bbr \in BbrState /\ now \in Nat /\ segments \in Seq(Sent)
      /\ waiting_segments \in Seq(SegmentSizes) /\ tx_in_flight_bytes \in Nat
  BY DEF BbrInvariant, TypesInv
<1>3. /\ n \in Nat \ {0} /\ t \in Sent /\ t = segments[1] /\ t.len \in Nat
      /\ segments' \in Seq(Sent) /\ Len(segments') = n - 1
      /\ \A i \in 1..(n - 1) : segments'[i] = segments[i + 1]
  BY <1>1, <1>2, HeadTailProperties, EmptySeq, SentLen
<1>4. t.rs.prior_mstamp <= t.send_time_us
  BY <1>3 DEF BbrInvariant, ClockInv
<1>5. PICK sum \in [0..n -> Nat] :
        /\ IsSum(segments, sum) /\ sum[n] = tx_in_flight_bytes
        /\ \E k \in 0..n : bbr.app_limited_until = sum[k]
  BY DEF BbrInvariant, FlightInv
<1>6. /\ sum[1] = t.len /\ sum[1] <= sum[n] /\ sum[0] = 0
      /\ \E less \in [0..(n - 1) -> Nat] :
           IsSum(segments', less) /\ \A i \in 0..(n - 1) : less[i] = sum[i + 1] - sum[1]
  <2>1. IsSum(segments, sum)
    BY <1>5
  <2>2. segments' = Tail(segments) /\ segments # << >> /\ segments \in Seq(Sent)
    BY <1>1, <1>2
  <2>3. /\ sum[1] = Head(segments).len /\ sum[1] <= sum[Len(segments)] /\ sum[0] = 0
        /\ \E less \in [0..(Len(segments) - 1) -> Nat] :
             /\ IsSum(Tail(segments), less)
             /\ \A i \in 0..(Len(segments) - 1) : less[i] = sum[i + 1] - sum[1]
    BY <2>1, <2>2, SumOfTail
  <2> QED
    BY <2>2, <2>3
<1> HIDE DEF t, n
<1>7. tx_in_flight_bytes' \in Nat /\ tx_in_flight_bytes' <= tx_in_flight_bytes
  BY <1>1, <1>2, <1>3, <1>5, <1>6
<1>8. /\ bbr' \in BbrState /\ pacing_gap' \in Nat /\ cwnd' = MinTarget
      /\ Consistent(bbr') /\ ModeInv(bbr')
      /\ bbr'.rtt_cnt > 0 /\ bbr'.prior_delivered_time_us = now
      /\ bbr'.app_limited_until = AppLimitedLeft(bbr, t.len)
      /\ bbr'.probe_rtt_done_stamp_us # 0 =>
           /\ bbr'.mode = "PROBE_RTT"
           /\ bbr.probe_rtt_done_stamp_us # 0 \/ Len(segments) <= MinTarget
  <2>1. TypesInv /\ ClockInv /\ PipeFullAndMode
    BY DEF BbrInvariant
  <2>2. bbr.probe_rtt_done_stamp_us # 0 => bbr.mode = "PROBE_RTT"
    BY DEF BbrInvariant, ProbeRttFlight
  <2> QED
    BY <1>1, <1>3, <1>4, <1>7, <2>1, <2>2, OnAck
<1>9. TypesInv'
  BY <1>1, <1>2, <1>3, <1>7, <1>8, Constants DEF TypesInv
<1>10. ClockInv'
  <2>1. ASSUME NEW i \in 1..(n - 1)
        PROVE  segments'[i].rs.prior_mstamp <= segments'[i].send_time_us
    <3>1. i + 1 \in 1..Len(segments) /\ segments'[i] = segments[i + 1]
      BY <1>3, <2>1 DEF n
    <3> QED
      BY <3>1 DEF BbrInvariant, ClockInv
  <2>2. bbr'.prior_delivered_time_us <= now'
    BY <1>1, <1>2, <1>8
  <2> QED
    BY <1>3, <2>1, <2>2 DEF ClockInv
<1>11. FlightInv'
  <2>1. PICK less \in [0..(n - 1) -> Nat] :
          IsSum(segments', less) /\ \A i \in 0..(n - 1) : less[i] = sum[i + 1] - sum[1]
    BY <1>6
  <2>2. less[n - 1] = tx_in_flight_bytes'
    <3>1. n - 1 \in 0..(n - 1) /\ (n - 1) + 1 = n
      BY <1>3
    <3> QED
      BY <1>1, <1>5, <1>6, <2>1, <3>1
  <2>3. PICK k \in 0..n : bbr.app_limited_until = sum[k]
    BY <1>5
  <2>4. \E m \in 0..(n - 1) : bbr'.app_limited_until = less[m]
    <3>1. CASE bbr.app_limited_until > 0
      <4>1. k # 0
        BY <1>6, <2>3, <3>1
      <4>2. k - 1 \in 0..(n - 1) /\ (k - 1) + 1 = k
        BY <1>3, <4>1
      <4>3. bbr'.app_limited_until = sum[k] - sum[1]
        BY <1>6, <1>8, <2>3, <3>1 DEF AppLimitedLeft
      <4>4. less[k - 1] = sum[k] - sum[1]
        BY <2>1, <4>2
      <4> QED
        BY <4>2, <4>3, <4>4
    <3>2. CASE ~(bbr.app_limited_until > 0)
      <4>1. sum[k] \in Nat
        BY <1>5
      <4>2. bbr'.app_limited_until = 0
        BY <1>8, <2>3, <3>2, <4>1 DEF AppLimitedLeft
      <4>3. 0 \in 0..(n - 1) /\ less[0] = 0
        BY <1>3, <2>1 DEF IsSum
      <4> QED
        BY <4>2, <4>3
    <3> QED
      BY <3>1, <3>2
  <2> QED
    BY <1>3, <2>1, <2>2, <2>4 DEF FlightInv
<1>12. PipeFullAndMode'
  BY <1>8 DEF PipeFullAndMode, Consistent, ModeInv
<1>13. ProbeRttFlight'
  <2>1. SUFFICES ASSUME bbr'.probe_rtt_done_stamp_us # 0
                 PROVE  bbr'.mode = "PROBE_RTT" /\ tx_in_flight_bytes' <= MinTarget * MSS
    BY DEF ProbeRttFlight
  <2>2. tx_in_flight_bytes <= MinTarget * MSS
    <3>1. CASE bbr.probe_rtt_done_stamp_us # 0
      BY <3>1 DEF BbrInvariant, ProbeRttFlight
    <3>2. CASE Len(segments) <= MinTarget
      <4>1. n <= MinTarget /\ 0 \in 0..n /\ n \in 0..n /\ 0 <= n /\ n - 0 = n
        BY <1>3, <3>2 DEF n
      <4>2. sum[n] - sum[0] <= (n - 0) * MSS
        BY <1>5, <4>1 DEF IsSum, n
      <4>3. n * MSS <= MinTarget * MSS
        <5>1. MinTarget - n \in Nat /\ MSS \in Nat /\ MinTarget \in Nat
          BY <1>3, <4>1, Constants
        <5>2. (MinTarget - n) * MSS \in Nat
          BY <5>1, Multiplies
        <5>3. (MinTarget - n) * MSS = MinTarget * MSS - n * MSS
          BY <1>3, <5>1
        <5> QED
          BY <1>3, <5>1, <5>2, <5>3
      <4>4. n * MSS \in Int /\ MinTarget * MSS \in Int
        BY <1>3, Constants
      <4> QED
        BY <1>2, <1>5, <1>6, <4>1, <4>2, <4>3, <4>4
    <3> QED
      BY <1>8, <2>1, <3>1, <3>2
  <2>3. MinTarget * MSS \in Int
    BY Constants
  <2> QED
    BY <1>2, <1>7, <1>8, <2>1, <2>2, <2>3
<1>14. StartInv' /\ CwndStaysMinimal'
  BY <1>8 DEF StartInv, CwndStaysMinimal
<1> QED
  BY <1>9, <1>10, <1>11, <1>12, <1>13, <1>14 DEF BbrInvariant

(* An acknowledgement gives the filter one sample.                          *)
LEMMA AckSamples ==
  ASSUME BbrInvariant, BbrInvariant', ReceiveAck
  PROVE  Sampled /\ (bbr.mode = "PROBE_BW" /\ bbr'.mode = "PROBE_BW"
                       => bbr'.pacing_gain = bbr.pacing_gain)
<1> DEFINE t == Head(segments)
<1>1. /\ TypesInv /\ ClockInv /\ PipeFullAndMode /\ segments \in Seq(Sent)
      /\ bbr.probe_rtt_done_stamp_us # 0 => bbr.mode = "PROBE_RTT"
      /\ tx_in_flight_bytes' \in Nat
  BY DEF BbrInvariant, TypesInv, ProbeRttFlight
<1>2. segments # << >> /\ t.send_time_us < now /\ bbr_on_ack(t, tx_in_flight_bytes')
  BY DEF ReceiveAck
<1>3. t \in Sent /\ t.rs.prior_mstamp <= t.send_time_us
  <2>1. t \in Sent /\ t = segments[1] /\ 1 \in 1..Len(segments)
    BY <1>1, <1>2, HeadTailProperties, EmptySeq
  <2> QED
    BY <1>1, <2>1 DEF ClockInv
<1> HIDE DEF t
<1> QED
  BY <1>1, <1>2, <1>3, OnAck

-----------------------------------------------------------------------------
(* The ring and the last samples *)

Rated == [v : Rate, taken : BOOLEAN]

(* The rtt_cnt at which the i-th of the last samples came.                  *)
Time(i) == bbr.rtt_cnt - Len(recent) + i

(* A sample that was taken is in the slot of its time, which no later one   *)
(* of the window shares.                                                    *)
RecentInv ==
  /\ recent \in Seq(Rated)
  /\ Len(recent) <= WindowRtts /\ Len(recent) <= bbr.rtt_cnt
  /\ \A i \in 1..Len(recent) : recent[i].taken =>
       /\ bbr.bw.s[Time(i) % WindowRtts] = [t |-> Time(i), v |-> recent[i].v]
       /\ recent[i].v <= bbr_max_bw(bbr)

(* Two times less than a window apart have different slots.                 *)
LEMMA SlotsDiffer ==
  ASSUME NEW a \in Nat, NEW b \in Nat, a < b, b - a < WindowRtts
  PROVE  a % WindowRtts # b % WindowRtts
<1>1. WindowRtts \in Nat \ {0} /\ WindowRtts \in Int /\ WindowRtts > 0
  BY Constants
<1> DEFINE r == a % WindowRtts
           s == b % WindowRtts
<1>2. r \in 0..(WindowRtts - 1) /\ \E p \in Int : a = WindowRtts * p + r
  BY <1>1, QuotientRemainder
<1>3. s \in 0..(WindowRtts - 1) /\ \E q \in Int : b = WindowRtts * q + s
  BY <1>1, QuotientRemainder
<1> SUFFICES ASSUME r = s PROVE FALSE
  OBVIOUS
<1> HIDE DEF r, s
<1>4. PICK p \in Int : a = WindowRtts * p + r
  BY <1>2
<1>5. PICK q \in Int : b = WindowRtts * q + s
  BY <1>3
<1>6. WindowRtts * (q - p) + 0 = WindowRtts * 0 + (b - a)
  BY <1>1, <1>2, <1>4, <1>5
<1>7. 0 \in 0..(WindowRtts - 1) /\ b - a \in 0..(WindowRtts - 1) /\ q - p \in Int
  BY <1>1
<1>8. 0 = b - a
  BY <1>1, <1>6, <1>7, RemainderUnique
<1> QED
  BY <1>8

(* Each slot has a time in every window.                                    *)
LEMMA SlotIsUsed ==
  ASSUME NEW base \in Nat, NEW slot \in Slot
  PROVE  \E i \in 1..WindowRtts : (base + i) % WindowRtts = slot
<1>1. /\ WindowRtts \in Nat \ {0} /\ WindowRtts \in Int /\ WindowRtts > 0
      /\ slot \in 0..(WindowRtts - 1)
  BY Constants DEF Slot
<1> DEFINE before == (slot - base - 1) % WindowRtts
           used == (base + (before + 1)) % WindowRtts
<1>2. before \in 0..(WindowRtts - 1)
      /\ \E q \in Int : slot - base - 1 = WindowRtts * q + before
  <2>1. slot - base - 1 \in Int
    BY <1>1
  <2> QED
    BY <1>1, <2>1, QuotientRemainder
<1> HIDE DEF before
<1>3. used \in 0..(WindowRtts - 1)
      /\ \E q \in Int : base + (before + 1) = WindowRtts * q + used
  <2>1. base + (before + 1) \in Int
    BY <1>2
  <2> QED
    BY <1>1, <2>1, QuotientRemainder
<1> HIDE DEF used
<1>4. PICK p \in Int : slot - base - 1 = WindowRtts * p + before
  BY <1>2
<1>5. PICK q \in Int : base + (before + 1) = WindowRtts * q + used
  BY <1>3
<1>6. WindowRtts * (p + q) + used = WindowRtts * 0 + slot
  <2>1. WindowRtts * (p + q) = WindowRtts * p + WindowRtts * q
    BY <1>1
  <2>2. WindowRtts * p \in Int /\ WindowRtts * q \in Int /\ WindowRtts * 0 = 0
    BY <1>1
  <2> QED
    BY <1>1, <1>2, <1>3, <1>4, <1>5, <2>1, <2>2
<1>7. p + q \in Int /\ 0 \in Int
  OBVIOUS
<1>8. used = slot
  BY <1>1, <1>3, <1>6, <1>7, RemainderUnique
<1>9. before + 1 \in 1..WindowRtts
  BY <1>1, <1>2
<1> QED
  BY <1>8, <1>9 DEF used

(* minmax_insert puts the sample into its slot, and the maximum it names is *)
(* no less than any sample of the window.                                   *)
LEMMA InsertKeepsMaximum ==
  ASSUME NEW m \in Ring, NEW t \in Nat, NEW r \in Rate
  PROVE  LET n == minmax_insert(m, t, r)
         IN  /\ n.s = [m.s EXCEPT ![t % WindowRtts] = [t |-> t, v |-> r]]
             /\ \A i \in Slot : n.s[i].t <= t /\ t - n.s[i].t < WindowRtts
                                  => n.s[i].v <= minmax_get(n)
<1> DEFINE s == [m.s EXCEPT ![t % m.window_len] = [t |-> t, v |-> r]]
           inserted == [m EXCEPT !.s = s]
           fresh == {i \in DOMAIN m.s : InWindow(inserted, t, i)}
           idx == BestIdx(s, m.max_idx, fresh)
           n == minmax_insert(m, t, r)
<1>1. /\ s \in [Slot -> [t : Nat, v : Rate]] /\ m.max_idx \in Slot /\ fresh \in SUBSET Slot
      /\ m.window_len = WindowRtts
  <2>1. t % m.window_len \in Slot
    BY Constants DEF Ring, Slot
  <2> QED
    BY <2>1 DEF Ring
<1>2. inserted \in Ring /\ inserted.s = s /\ inserted.window_len = WindowRtts
  BY <1>1 DEF Ring
<1>3. n = [inserted EXCEPT !.max_idx = idx]
  BY <1>2 DEF minmax_insert
<1>4. n.s = s /\ n.max_idx = idx
  BY <1>2, <1>3 DEF Ring
<1>5. \A i \in fresh : s[i].v <= s[idx].v
  BY <1>1, BestIsGreatest
<1>6. ASSUME NEW i \in Slot, s[i].t <= t, t - s[i].t < WindowRtts
      PROVE  i \in fresh
  <2>1. s[i].t \in Nat /\ DOMAIN m.s = Slot
    BY <1>1 DEF Ring
  <2>2. (t - s[i].t) % Word <= t - s[i].t
    <3>1. t - s[i].t \in Nat
      BY <1>6, <2>1
    <3> HIDE DEF s
    <3> QED
      BY <3>1, Constants
  <2> QED
    BY <1>2, <1>6, <2>1, <2>2, Constants DEF InWindow
<1> QED
  BY <1>1, <1>4, <1>5, <1>6 DEF minmax_get

(* The last samples, when one more has come: one is left out, or none.      *)
Slid(q, x) == Append(IF Len(q) < WindowRtts THEN q ELSE Tail(q), x)
Left(q) == IF Len(q) < WindowRtts THEN 0 ELSE 1

LEMMA SlidElements ==
  ASSUME NEW S, NEW q \in Seq(S), Len(q) <= WindowRtts, NEW x \in S
  PROVE  /\ Slid(q, x) \in Seq(S) /\ Len(Slid(q, x)) = (Len(q) - Left(q)) + 1
         /\ Left(q) \in {0, 1} /\ Len(q) - Left(q) \in Nat
         /\ (Len(q) - Left(q)) + 1 <= WindowRtts
         /\ Slid(q, x)[(Len(q) - Left(q)) + 1] = x
         /\ \A i \in 1..(Len(q) - Left(q)) : Slid(q, x)[i] = q[i + Left(q)]
<1>1. WindowRtts \in Nat \ {0} /\ Len(q) \in Nat
  BY Constants, LenProperties
<1>2. CASE Len(q) < WindowRtts
  <2>1. Slid(q, x) = Append(q, x) /\ Left(q) = 0
    BY <1>2 DEF Slid, Left
  <2>2. /\ Slid(q, x) \in Seq(S) /\ Len(Slid(q, x)) = Len(q) + 1
        /\ Slid(q, x)[Len(q) + 1] = x /\ \A i \in 1..Len(q) : Slid(q, x)[i] = q[i]
    BY <2>1, AppendProperties
  <2> QED
    BY <1>1, <1>2, <2>1, <2>2
<1>3. CASE ~(Len(q) < WindowRtts)
  <2> DEFINE r == Tail(q)
  <2>1. q # << >> /\ Slid(q, x) = Append(r, x) /\ Left(q) = 1
    BY <1>1, <1>3, EmptySeq DEF Slid, Left
  <2>2. /\ r \in Seq(S) /\ Len(r) = Len(q) - 1
        /\ \A i \in 1..(Len(q) - 1) : r[i] = q[i + 1]
    BY <2>1, HeadTailProperties
  <2> HIDE DEF r
  <2>3. /\ Slid(q, x) \in Seq(S) /\ Len(Slid(q, x)) = Len(r) + 1
        /\ Slid(q, x)[Len(r) + 1] = x /\ \A i \in 1..Len(r) : Slid(q, x)[i] = r[i]
    BY <2>1, <2>2, AppendProperties
  <2> QED
    BY <1>1, <1>3, <2>1, <2>2, <2>3
<1> QED
  BY <1>2, <1>3

LEMMA SlidTimes ==
  ASSUME NEW c \in Nat, NEW n \in Nat, n <= c, NEW w \in Nat, NEW left \in {0, 1},
         n - left \in Nat, (n - left) + 1 <= w, NEW i \in 1..(n - left)
  PROVE  /\ i + left \in 1..n
         /\ (c + 1) - ((n - left) + 1) + i = c - n + (i + left)
         /\ c - n + (i + left) \in Nat /\ c - n + (i + left) <= c
         /\ (c + 1) - (c - n + (i + left)) < w
<1>1. left \in Nat /\ i \in Nat /\ i >= 1 /\ i <= n - left
  OBVIOUS
<1> QED
  BY <1>1

(* After an acknowledgement a sample is the new one, or one that was there, *)
(* less than a window old.                                                  *)
LEMMA RecentSlides ==
  ASSUME BbrInvariant, RecentInv, NEW x \in Rated,
         bbr'.rtt_cnt = bbr.rtt_cnt + 1, recent' = Slid(recent, x)
  PROVE  /\ recent' \in Seq(Rated)
         /\ Len(recent') <= WindowRtts /\ Len(recent') <= bbr'.rtt_cnt
         /\ \A i \in 1..Len(recent') :
              \/ recent'[i] = x /\ Time(i)' = bbr.rtt_cnt + 1
              \/ \E j \in 1..Len(recent) :
                   /\ recent'[i] = recent[j] /\ Time(i)' = Time(j) /\ Time(j) \in Nat
                   /\ Time(j) <= bbr.rtt_cnt /\ (bbr.rtt_cnt + 1) - Time(j) < WindowRtts
<1> DEFINE c == bbr.rtt_cnt
           n == Len(recent)
           p == Slid(recent, x)
           left == Left(recent)
<1>1. /\ recent \in Seq(Rated) /\ n \in Nat /\ c \in Nat
      /\ n <= WindowRtts /\ n <= c /\ WindowRtts \in Nat
  BY Constants, LenProperties DEF RecentInv, BbrInvariant, TypesInv, BbrState
<1>2. /\ p \in Seq(Rated) /\ Len(p) = (n - left) + 1
      /\ left \in {0, 1} /\ n - left \in Nat /\ (n - left) + 1 <= WindowRtts
      /\ p[(n - left) + 1] = x
      /\ \A i \in 1..(n - left) : p[i] = recent[i + left]
  <2>1. recent \in Seq(Rated) /\ Len(recent) <= WindowRtts /\ x \in Rated
    BY <1>1
  <2>2. p \in Seq(Rated) /\ Len(p) = (n - left) + 1
    BY <2>1, SlidElements
  <2>3. left \in {0, 1} /\ n - left \in Nat /\ (n - left) + 1 <= WindowRtts
    BY <2>1, SlidElements
  <2>4. p[(n - left) + 1] = x
    BY <2>1, SlidElements
  <2>5. \A i \in 1..(n - left) : p[i] = recent[i + left]
    BY <2>1, SlidElements, ZenonT(60)
  <2> QED
    BY <2>2, <2>3, <2>4, <2>5
<1>3. /\ recent' = p /\ Len(recent)' = Len(p) /\ bbr'.rtt_cnt = c + 1
      /\ \A i : Time(i)' = (c + 1) - Len(p) + i /\ Time(i) = c - n + i
  BY DEF Time
<1> HIDE DEF c, n, p, left
<1>4. ASSUME NEW i \in 1..Len(p)
      PROVE  \/ p[i] = x /\ Time(i)' = c + 1
             \/ \E j \in 1..n :
                  /\ p[i] = recent[j] /\ Time(i)' = Time(j) /\ Time(j) \in Nat
                  /\ Time(j) <= c /\ (c + 1) - Time(j) < WindowRtts
  <2>1. CASE i = (n - left) + 1
    <3>1. Time(i)' = (c + 1) - i + i
      BY <1>2, <1>3, <2>1
    <3>2. (c + 1) - i + i = c + 1
      BY <1>1, <1>2, <2>1
    <3> QED
      BY <1>2, <2>1, <3>1, <3>2
  <2>2. CASE i # (n - left) + 1
    <3>1. i \in 1..(n - left)
      BY <1>2, <2>2
    <3>2. /\ i + left \in 1..n
          /\ (c + 1) - ((n - left) + 1) + i = c - n + (i + left)
          /\ c - n + (i + left) \in Nat /\ c - n + (i + left) <= c
          /\ (c + 1) - (c - n + (i + left)) < WindowRtts
      BY <1>1, <1>2, <3>1, SlidTimes
    <3>3. Time(i)' = (c + 1) - ((n - left) + 1) + i /\ Time(i + left) = c - n + (i + left)
      BY <1>2, <1>3
    <3>4. p[i] = recent[i + left]
      BY <1>2, <3>1
    <3> QED
      BY <3>2, <3>3, <3>4
  <2> QED
    BY <2>1, <2>2
<1>5. Len(p) <= WindowRtts /\ Len(p) <= c + 1
  BY <1>1, <1>2
<1> QED
  BY <1>2, <1>3, <1>4, <1>5 DEF c, n

LEMMA RecentStep ==
  ASSUME BbrInvariant, RecentInv, Sampled, bbr' \in BbrState
  PROVE  RecentInv'
<1>1. PICK r \in Rate, taken \in BOOLEAN :
        /\ bbr'.rtt_cnt = bbr.rtt_cnt + 1
        /\ bbr'.bw = IF taken THEN minmax_insert(bbr.bw, bbr.rtt_cnt + 1, r) ELSE bbr.bw
        /\ recent' = Slid(recent, [v |-> r, taken |-> taken])
  BY DEF Sampled, Slid
<1> DEFINE x == [v |-> r, taken |-> taken]
           t == bbr.rtt_cnt + 1
<1>2. /\ bbr.bw \in Ring /\ bbr.rtt_cnt \in Nat /\ t \in Nat /\ x \in Rated
      /\ \A j \in 1..Len(recent) : recent[j].v \in Rate
  <2>1. \A j \in 1..Len(recent) : recent[j].v \in Rate
    <3>1. \A j \in 1..Len(recent) : recent[j] \in Rated
      BY ElementOfSeq DEF RecentInv
    <3> QED
      BY <3>1 DEF Rated
  <2>2. bbr.bw \in Ring /\ bbr.rtt_cnt \in Nat
    BY DEF BbrInvariant, TypesInv, BbrState
  <2>3. x \in Rated
    BY DEF Rated
  <2> HIDE DEF x
  <2> QED
    BY <2>1, <2>2, <2>3
<1>3. /\ recent' \in Seq(Rated)
      /\ Len(recent') <= WindowRtts /\ Len(recent') <= bbr'.rtt_cnt
      /\ \A i \in 1..Len(recent') :
           \/ recent'[i] = x /\ Time(i)' = t
           \/ \E j \in 1..Len(recent) :
                /\ recent'[i] = recent[j] /\ Time(i)' = Time(j) /\ Time(j) \in Nat
                /\ Time(j) <= bbr.rtt_cnt /\ t - Time(j) < WindowRtts
  BY <1>1, <1>2, RecentSlides
<1>4. ASSUME NEW i \in 1..Len(recent'), recent'[i].taken
      PROVE  /\ bbr'.bw.s[Time(i)' % WindowRtts] = [t |-> Time(i)', v |-> recent'[i].v]
             /\ recent'[i].v <= bbr_max_bw(bbr')
  <2>1. CASE ~taken
    <3>1. bbr'.bw = bbr.bw /\ bbr_max_bw(bbr') = bbr_max_bw(bbr) /\ ~x.taken
      BY <1>1, <2>1 DEF bbr_max_bw
    <3>2. PICK j \in 1..Len(recent) : recent'[i] = recent[j] /\ Time(i)' = Time(j)
      BY <1>3, <1>4, <3>1
    <3> QED
      BY <1>4, <3>1, <3>2 DEF RecentInv
  <2>2. CASE taken
    <3> DEFINE n == minmax_insert(bbr.bw, t, r)
    <3>1. bbr'.bw = n /\ bbr_max_bw(bbr') = minmax_get(n)
      BY <1>1, <2>2 DEF bbr_max_bw
    <3>2. /\ n.s = [bbr.bw.s EXCEPT ![t % WindowRtts] = [t |-> t, v |-> r]]
          /\ \A k \in Slot : n.s[k].t <= t /\ t - n.s[k].t < WindowRtts
                               => n.s[k].v <= minmax_get(n)
      BY <1>2, InsertKeepsMaximum
    <3> HIDE DEF n
    <3>3. \A a \in Nat : a % WindowRtts \in Slot
      BY Constants DEF Slot
    <3>4. bbr.bw.s \in [Slot -> [t : Nat, v : Rate]]
      BY <1>2 DEF Ring
    <3>5. CASE recent'[i] = x /\ Time(i)' = t
      <4>1. n.s[t % WindowRtts] = [t |-> t, v |-> r] /\ t % WindowRtts \in Slot
        BY <1>2, <3>2, <3>3, <3>4
      <4>2. r <= minmax_get(n)
        <5>1. t <= t /\ t - t < WindowRtts
          BY <1>2, Constants
        <5> HIDE DEF t
        <5> QED
          BY <3>2, <4>1, <5>1
      <4> QED
        BY <3>1, <3>5, <4>1, <4>2
    <3>6. ASSUME NEW j \in 1..Len(recent),
                 recent'[i] = recent[j], Time(i)' = Time(j), Time(j) \in Nat,
                 Time(j) <= bbr.rtt_cnt, t - Time(j) < WindowRtts
          PROVE  /\ bbr'.bw.s[Time(i)' % WindowRtts] = [t |-> Time(i)', v |-> recent'[i].v]
                 /\ recent'[i].v <= bbr_max_bw(bbr')
      <4> DEFINE u == Time(j)
                 slot == u % WindowRtts
      <4>1. u \in Nat /\ u < t /\ t - u < WindowRtts /\ slot \in Slot
        BY <1>2, <3>3, <3>6
      <4>2. slot # t % WindowRtts
        BY <1>2, <4>1, SlotsDiffer
      <4>3. bbr.bw.s[slot] = [t |-> u, v |-> recent[j].v]
        BY <1>4, <3>6 DEF RecentInv
      <4>4. n.s[slot] = [t |-> u, v |-> recent[j].v]
        BY <3>2, <3>4, <4>1, <4>2, <4>3
      <4> HIDE DEF u, slot, t
      <4>5. recent[j].v <= minmax_get(n)
        BY <1>2, <3>2, <4>1, <4>4
      <4> QED
        BY <3>1, <3>6, <4>4, <4>5 DEF u, slot
    <3> QED
      BY <1>3, <3>5, <3>6
  <2> QED
    BY <2>1, <2>2
<1> QED
  BY <1>3, <1>4 DEF RecentInv, Time

(* When all the last samples were taken, and there are WindowRtts of them,  *)
(* the ring holds nothing else.                                             *)
LEMMA FullWindow ==
  ASSUME BbrInvariant, RecentInv,
         Cardinality({i \in DOMAIN recent : recent[i].taken}) = WindowRtts
  PROVE  \E i \in DOMAIN recent : recent[i].taken /\ recent[i].v = bbr_max_bw(bbr)
<1> DEFINE T == {i \in DOMAIN recent : recent[i].taken}
           n == Len(recent)
<1>1. /\ recent \in Seq(Rated) /\ n \in Nat /\ bbr.rtt_cnt \in Nat /\ n <= WindowRtts
      /\ n <= bbr.rtt_cnt /\ WindowRtts \in Nat \ {0} /\ DOMAIN recent = 1..n
  BY Constants, LenProperties DEF RecentInv, BbrInvariant, TypesInv, BbrState
<1>2. IsFiniteSet(1..n) /\ Cardinality(1..n) = n
  <2>1. 1 \in Int /\ n \in Int
    BY <1>1
  <2> HIDE DEF n
  <2>2. IsFiniteSet(1..n) /\ Cardinality(1..n) = IF 1 > n THEN 0 ELSE (n - 1) + 1
    BY <2>1, FS_Interval
  <2> QED
    BY <1>1, <2>2
<1>3. Cardinality(T) <= n /\ (Cardinality(T) = n => T = 1..n)
  <2>1. T \subseteq 1..n
    BY <1>1
  <2> HIDE DEF T
  <2> QED
    BY <1>2, <2>1, FS_Subset
<1>4. n = WindowRtts /\ T = 1..n
  <2>1. Cardinality(T) = WindowRtts
    OBVIOUS
  <2> HIDE DEF T, n
  <2> QED
    BY <1>1, <1>3, <2>1
<1>5. bbr.bw.max_idx \in Slot /\ bbr_max_bw(bbr) = bbr.bw.s[bbr.bw.max_idx].v
  BY DEF BbrInvariant, TypesInv, BbrState, Ring, bbr_max_bw, minmax_get
<1>6. bbr.rtt_cnt - n \in Nat
  BY <1>1
<1>7. PICK i \in 1..n : (bbr.rtt_cnt - n + i) % WindowRtts = bbr.bw.max_idx
  BY <1>4, <1>5, <1>6, SlotIsUsed
<1>8. recent[i].taken /\ i \in 1..Len(recent) /\ i \in DOMAIN recent
  BY <1>1, <1>4, <1>7
<1>9. bbr.bw.s[Time(i) % WindowRtts] = [t |-> Time(i), v |-> recent[i].v]
      /\ Time(i) % WindowRtts = bbr.bw.max_idx
  BY <1>7, <1>8 DEF RecentInv, Time
<1>10. recent[i].v = bbr_max_bw(bbr)
  BY <1>5, <1>9
<1> QED
  BY <1>8, <1>10

-----------------------------------------------------------------------------
(* Theorems *)

(* BbrInvariant holds in every reachable state: the model of the path       *)
(* (ctcp_bbr_t), the window and what is in flight agree.                    *)
THEOREM BbrCorrect == Spec => []BbrInvariant
<1>1. BbrInvariant /\ [Next]_vars => BbrInvariant'
  BY QuietStep, NothingWaitingStep, SendFrontStep, ReceiveAckStep DEF Next
<1> QED
  BY InitInvariant, <1>1, PTL DEF Spec

(* The fields of ctcp_bbr_t fit their declarations, the bit-fields and the  *)
(* slot of the maximum (bbr_on_ack, minmax_insert) included.                *)
THEOREM BbrTypeCorrect == Spec => []BbrTypeOK
<1>1. BbrInvariant => BbrTypeOK
  <2> SUFFICES ASSUME BbrInvariant PROVE BbrTypeOK
    OBVIOUS
  <2>1. bbr \in BbrState /\ {cwnd, pacing_gap, tx_in_flight_bytes} \subseteq Nat
    BY DEF BbrInvariant, TypesInv
  <2>2. bbr.full_bw_cnt \in 0..7
    BY <2>1, Constants DEF BbrState
  <2>3. bbr.bw.max_idx \in 0..(WindowRtts - 1)
    BY <2>1 DEF BbrState, Ring, Slot
  <2> QED
    BY <2>1, <2>2, <2>3 DEF BbrTypeOK, BbrState, Gain
<1> QED
  BY BbrCorrect, <1>1, PTL

(* The filter never reports less than a sample it took in the last          *)
(* WindowRtts acknowledgements, and is one of them when it took all: each   *)
(* is still in the slot of its time when the ring is scanned.               *)
THEOREM FilterCorrect == Spec => []FilterHoldsMaximum
<1>1. Init => RecentInv
  <2> SUFFICES ASSUME Init PROVE RecentInv
    OBVIOUS
  <2>1. recent = << >> /\ bbr.rtt_cnt = 0
    BY DEF Init
  <2>2. recent \in Seq(Rated) /\ Len(recent) = 0
    BY <2>1, EmptySeq
  <2> QED
    BY <2>1, <2>2, Constants DEF RecentInv
<1>2. BbrInvariant /\ BbrInvariant' /\ RecentInv /\ [Next]_vars => RecentInv'
  <2> SUFFICES ASSUME BbrInvariant, BbrInvariant', RecentInv, [Next]_vars PROVE RecentInv'
    OBVIOUS
  <2>1. CASE ReceiveAck
    <3>1. bbr' \in BbrState
      BY DEF BbrInvariant, TypesInv
    <3>2. Sampled
      BY <2>1, AckSamples
    <3> QED
      BY <3>1, <3>2, RecentStep
  <2>2. CASE ~ReceiveAck
    <3>1. bbr'.bw = bbr.bw /\ bbr'.rtt_cnt = bbr.rtt_cnt /\ recent' = recent
      <4>1. CASE NothingWaiting
        BY <4>1 DEF NothingWaiting, BbrInvariant, TypesInv, BbrState
      <4>2. CASE ReadSegment \/ SendFront \/ WindowFull \/ Tick \/ UNCHANGED vars
        BY <4>2 DEF ReadSegment, SendFront, WindowFull, Tick, vars
      <4> QED
        BY <2>2, <4>1, <4>2 DEF Next
    <3> QED
      BY <3>1 DEF RecentInv, Time, bbr_max_bw
  <2> QED
    BY <2>1, <2>2
<1>3. BbrInvariant /\ RecentInv => FilterHoldsMaximum
  <2> SUFFICES ASSUME BbrInvariant, RecentInv PROVE FilterHoldsMaximum
    OBVIOUS
  <2> DEFINE T == {i \in DOMAIN recent : recent[i].taken}
  <2>1. \A i \in T : recent[i].v <= bbr_max_bw(bbr)
    <3>1. DOMAIN recent = 1..Len(recent)
      BY LenProperties DEF RecentInv
    <3> QED
      BY <3>1 DEF RecentInv
  <2>2. Cardinality(T) = WindowRtts => \E i \in T : recent[i].v = bbr_max_bw(bbr)
    BY FullWindow
  <2> QED
    BY <2>1, <2>2 DEF FilterHoldsMaximum
<1> QED
  BY BbrCorrect, <1>1, <1>2, <1>3, PTL DEF Spec

(* STARTUP and a full pipe exclude each other, over all the functions of    *)
(* one bbr_on_ack and whichever mode PROBE_RTT was entered from.            *)
THEOREM PipeFull == Spec => []PipeFullAndMode
<1>1. BbrInvariant => PipeFullAndMode
  BY DEF BbrInvariant
<1> QED
  BY BbrCorrect, <1>1, PTL

(* The app-limited mark stays within what is in flight, since it is what    *)
(* some of the oldest segments sum up to, and so expires with them.         *)
THEOREM AppLimited == Spec => []AppLimitedWithinFlight
<1>1. BbrInvariant => AppLimitedWithinFlight
  <2> SUFFICES ASSUME BbrInvariant PROVE AppLimitedWithinFlight
    OBVIOUS
  <2>1. PICK sum \in [0..Len(segments) -> Nat] :
          /\ IsSum(segments, sum) /\ sum[Len(segments)] = tx_in_flight_bytes
          /\ \E k \in 0..Len(segments) : bbr.app_limited_until = sum[k]
    BY DEF BbrInvariant, FlightInv
  <2>2. PICK k \in 0..Len(segments) : bbr.app_limited_until = sum[k]
    BY <2>1
  <2>3. Len(segments) \in 0..Len(segments) /\ k <= Len(segments)
    BY LenProperties DEF BbrInvariant, TypesInv
  <2>4. sum[k] <= sum[Len(segments)] /\ sum[k] \in Nat
    BY <2>1, <2>3 DEF IsSum
  <2> QED
    BY <2>1, <2>2, <2>4 DEF AppLimitedWithinFlight
<1> QED
  BY BbrCorrect, <1>1, PTL

(* While the 200 ms of PROBE_RTT are counted, at most the minimum window is *)
(* in flight: the window is that small before the count starts.             *)
THEOREM ProbeRtt == Spec => []ProbeRttFlight
<1>1. BbrInvariant => ProbeRttFlight
  BY DEF BbrInvariant
<1> QED
  BY BbrCorrect, <1>1, PTL
=============================================================================
