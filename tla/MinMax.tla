------------------------------- MODULE MinMax -------------------------------
(***************************************************************************)
(* The windowed maximum of ctcp_bbr_minmax.c: a ring of window_len slots,  *)
(* the slot of a sample chosen by its time, and the slot of the maximum.   *)
(***************************************************************************)
EXTENDS Integers, FiniteSetsExt

CONSTANT Word            \* 2^32: times are uint32_t

ASSUME WordAssumption == Word \in Nat \ {0}

minmax_reset(t, meas, window_len) ==
  [s |-> [i \in 0..(window_len - 1) |-> [t |-> t, v |-> meas]],
   max_idx |-> 0, window_len |-> window_len]

minmax_get(m) == m.s[m.max_idx].v

InWindow(m, t, i) == (t - m.s[i].t) % Word < m.window_len

(***************************************************************************)
(* The scan that follows an insertion leaves max_idx alone unless a sample *)
(* in the window is greater than the one it names; of the greatest it      *)
(* takes the first.  Whether the sample max_idx names is itself in the     *)
(* window is not tested.                                                   *)
(***************************************************************************)
KeepIdx(s, max_idx, fresh) == max_idx   \* mutant: no scan after an insertion
BestIdx(s, max_idx, fresh) ==
  LET better == {i \in fresh : s[i].v > s[max_idx].v}
  IN  IF better = {} THEN max_idx
      ELSE Min({i \in better : \A j \in better : s[j].v <= s[i].v})

minmax_insert(m, t, meas) ==
  LET inserted == [m EXCEPT !.s = [@ EXCEPT ![t % m.window_len] = [t |-> t, v |-> meas]]]
      fresh == {i \in DOMAIN m.s : InWindow(inserted, t, i)}
  IN  [inserted EXCEPT !.max_idx = BestIdx(inserted.s, m.max_idx, fresh)]
=============================================================================
