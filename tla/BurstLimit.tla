----------------------------- MODULE BurstLimit -----------------------------
(***************************************************************************)
(* What the rate limiter promises for each of a set of keys (addresses, or *)
(* sources): a token bucket that exists from the start, never more than    *)
(* Threshold + 1 grants within a window, and a lockout when one more is    *)
(* asked for.  level is in units of 1/Minute of a token; recent holds the  *)
(* times of the grants that are still within the window.                   *)
(***************************************************************************)
EXTENDS Selection

CONSTANTS Key, Rate, Minute, Window, Threshold, Cooldown

VARIABLES clock, level, recent, lockout, detected

lvars == <<clock, level, recent, lockout, detected>>

Full == Rate * Minute

LimitInit ==
    /\ clock = 0
    /\ level = [k \in Key |-> Full]
    /\ recent = [k \in Key |-> <<>>]
    /\ lockout = [k \in Key |-> 0]
    /\ detected = [k \in Key |-> FALSE]

\* A tick refills the buckets, moves the window and shortens the lockouts.
PassTime ==
    /\ clock' = clock + 1
    /\ level' = [k \in Key |-> IF level[k] + Rate <= Full THEN level[k] + Rate ELSE Full]
    /\ recent' = [k \in Key |-> Select(recent[k], {t \in 0..clock : clock + 1 - t < Window})]
    /\ lockout' = [k \in Key |-> IF lockout[k] > 0 THEN lockout[k] - 1 ELSE 0]
    /\ detected' = detected

Grant(k) ==
    /\ level[k] >= Minute
    /\ Len(recent[k]) <= Threshold
    /\ ~ detected[k]
    /\ level' = [level EXCEPT ![k] = @ - Minute]
    /\ recent' = [recent EXCEPT ![k] = Append(@, clock)]
    /\ UNCHANGED <<clock, lockout, detected>>

Detect(k) ==
    /\ Len(recent[k]) > Threshold
    /\ detected' = [detected EXCEPT ![k] = TRUE]
    /\ UNCHANGED <<clock, level, recent, lockout>>

\* The lockout begins after the detection, or never if its request goes away.
LockOut(k) ==
    /\ detected[k]
    /\ detected' = [detected EXCEPT ![k] = FALSE]
    /\ lockout' \in {lockout, [lockout EXCEPT ![k] = Cooldown]}
    /\ UNCHANGED <<clock, level, recent>>

LimitNext == PassTime \/ \E k \in Key : Grant(k) \/ Detect(k) \/ LockOut(k)

LimitSpec == LimitInit /\ [][LimitNext]_lvars

=============================================================================
