----------------------------- MODULE RetentionLoop -----------------------------
(***************************************************************************)
(* select_retained_snapshot_ids as it is written: one pass over the rows   *)
(* in the order of their ids that fills keep_ids and two dictionaries of   *)
(* representatives.                                                        *)
(***************************************************************************)
EXTENDS Retention, Functions

\* dict[bucket] = the latest row of the bucket so far.
Offer(dict, bucket, x) ==
  IF bucket \notin DOMAIN dict \/ Later(x, dict[bucket])
    THEN [b \in DOMAIN dict \union {bucket} |-> IF b = bucket THEN x ELSE dict[b]]
    ELSE dict

\* Mutant: a row in the hourly window is not offered to its month.
RecordHourlyFirst(t, state, x) ==
  IF ~x.complete
    THEN [state EXCEPT !.keep = IF x.at >= IncompleteCutoff(t) THEN @ \union {x} ELSE @]
  ELSE IF InHourly(x, t)
    THEN [state EXCEPT !.keep = @ \union {x}]
  ELSE LET monthly == Offer(state.monthly, <<x.root, Month(x)>>, x)
       IN  IF x.at >= DailyCutoff(t)
             THEN [state EXCEPT !.monthly = monthly,
                                !.daily = Offer(@, <<x.root, Day(x)>>, x)]
             ELSE [state EXCEPT !.monthly = monthly]

RecordRetained(t, state, x) ==
  IF ~x.complete
    THEN [state EXCEPT !.keep = IF x.at >= IncompleteCutoff(t) THEN @ \union {x} ELSE @]
    ELSE LET offered == [state EXCEPT !.monthly =
                           Offer(@, <<x.root, Month(x)>>, x)]
         IN  CASE x.at >= HourlyCutoff(t) -> [offered EXCEPT !.keep = @ \union {x}]
               [] x.at < HourlyCutoff(t) /\ x.at >= DailyCutoff(t) ->
                    [offered EXCEPT !.daily = Offer(@, <<x.root, Day(x)>>, x)]
               [] OTHER -> offered

\* The state of the pass once it is through the ids up to k.
LoopState(t) ==
  LET none == [bucket \in {} |-> {}]
      state[k \in 0 .. MaxId] ==
        IF k = 0
          THEN [keep |-> {}, daily |-> none, monthly |-> none]
        ELSE IF \E x \in rows : x.id = k
          THEN RecordRetained(t, state[k - 1], CHOOSE x \in rows : x.id = k)
          ELSE state[k - 1]
  IN  state

SelectRetained(t) ==
  LET state == LoopState(t)[MaxId]
  IN  state.keep \union Range(state.daily) \union Range(state.monthly)

\* The pass over the rows selects what the tiers define, in every state the
\* database can reach and for the clock of that moment.
LoopAgrees == SelectRetained(now) = Retained(rows, now)
================================================================================
