----------------------------- MODULE OsNumbers -----------------------------
(***************************************************************************)
(* The arithmetic of src/common/ctos.c and src/common/osal.c: 64-bit       *)
(* numbers made of two words, and the task clock.  The clock counts ticks  *)
(* and starts again after TIME_NOW_CONSTRAINTS - 1 seconds, while sums and *)
(* differences of its readings are taken modulo TIME_NOW_CONSTRAINTS.      *)
(*                                                                         *)
(* Client rules: two readings that are compared lie less than half the     *)
(* modulus apart, and a deadline is turned into a time before the clock    *)
(* starts again.                                                           *)
(***************************************************************************)
EXTENDS Integers

CONSTANTS WordBits,              \* 32
          TIME_NOW_CONSTRAINTS,  \* 864000
          G_CLOCKS_PER_SECOND    \* 1000

B == 2 ^ WordBits
Word == 0 .. B - 1
U64 == [MSW : Word, LSW : Word]
ValueOf(v) == v.MSW * B + v.LSW
Split(n) == [MSW |-> (n \div B) % B, LSW |-> n % B]      \* unsigned long long
Top(w) == w >= B \div 2                                   \* w & 0x80000000

os_i64_equal(a, b) == a.MSW = b.MSW /\ a.LSW = b.LSW
os_i64_greater(a, b) == a.MSW > b.MSW \/ (a.MSW = b.MSW /\ a.LSW > b.LSW)
os_i64_less(a, b) == a.MSW < b.MSW \/ (a.MSW = b.MSW /\ a.LSW < b.LSW)
os_i64_greater_or_equal(a, b) == a.MSW > b.MSW \/ (a.MSW = b.MSW /\ a.LSW >= b.LSW)
os_i64_less_or_equal(a, b) == a.MSW < b.MSW \/ (a.MSW = b.MSW /\ a.LSW <= b.LSW)
os_i64_is_zero(a) == a.MSW = 0 /\ a.LSW = 0

CarryOfBoth(u, w) == Top(u) /\ Top(w)   \* fault: the carry into the top bit is forgotten
Carry(u, w) == (Top(u) /\ Top(w)) \/ ((Top(u) \/ Top(w)) /\ ~Top((u + w) % B))

os_i64_addU32(a, w) ==
    [MSW |-> (a.MSW + (IF Carry(a.LSW, w) THEN 1 ELSE 0)) % B, LSW |-> (a.LSW + w) % B]
os_i64_add(a, b) == Split(ValueOf(a) + ValueOf(b))
os_i64_sub(a, b) ==
    [MSW |-> (a.MSW - b.MSW - (IF a.LSW < b.LSW THEN 1 ELSE 0)) % B, LSW |-> (a.LSW - b.LSW) % B]
os_i64_subU32(a, w) == os_i64_sub(a, [MSW |-> 0, LSW |-> w])
os_i64_mul(a, b) == Split(ValueOf(a) * ValueOf(b))
os_i64_div(a, b) == IF os_i64_is_zero(b) THEN Split(0) ELSE Split(ValueOf(a) \div ValueOf(b))

os_i64_shift_right(a, count) ==
    LET by[i \in 0 .. count] ==
        IF i = 0 THEN a
        ELSE LET v == by[i - 1] IN
             [MSW |-> v.MSW \div 2, LSW |-> (v.LSW \div 2) + (IF v.MSW % 2 = 1 THEN B \div 2 ELSE 0)]
    IN  by[count]
os_i64_shift_left(a, count) ==
    LET by[i \in 0 .. count] ==
        IF i = 0 THEN a
        ELSE LET v == by[i - 1] IN
             [MSW |-> ((v.MSW * 2) % B) + (IF Top(v.LSW) THEN 1 ELSE 0), LSW |-> (v.LSW * 2) % B]
    IN  by[count]
-----------------------------------------------------------------------------
TIME_CLOCKS_MODULO == TIME_NOW_CONSTRAINTS * G_CLOCKS_PER_SECOND
Epoch == (TIME_NOW_CONSTRAINTS - 1) * G_CLOCKS_PER_SECOND

(* The readings at a time, which is given in ticks.                        *)
os_time_now(t) ==
    ((t \div G_CLOCKS_PER_SECOND) % (TIME_NOW_CONSTRAINTS - 1)) * G_CLOCKS_PER_SECOND
        + (t % G_CLOCKS_PER_SECOND)
OSAL_GetCpuStartInMsec(t) == t % B

(* The time a clock value stands for when the time is t.                   *)
os_clock_to_time(clock, t) ==
    (((t \div G_CLOCKS_PER_SECOND) \div (TIME_NOW_CONSTRAINTS - 1)) * (TIME_NOW_CONSTRAINTS - 1)
        + (clock \div G_CLOCKS_PER_SECOND)) * G_CLOCKS_PER_SECOND + (clock % G_CLOCKS_PER_SECOND)

os_time_after(c1, c2) ==
    LET time == c1 - c2 IN
    IF time < 0 THEN -time >= TIME_CLOCKS_MODULO \div 2 ELSE time < TIME_CLOCKS_MODULO \div 2
os_time_minus(c1, c2) ==
    LET time == c1 - c2 IN
    IF time < 0 /\ os_time_after(c1, c2) THEN TIME_CLOCKS_MODULO + time ELSE time
os_time_plus(c1, c2) == (c1 + c2) % TIME_CLOCKS_MODULO
-----------------------------------------------------------------------------
(* The two words behave like the number they stand for, modulo 2^64.       *)
WordsExact(x, y, count) ==
    LET a == Split(x)  b == Split(y)  w == y % B  mod == B * B IN
    /\ ValueOf(os_i64_add(a, b)) = (x + y) % mod
    /\ ValueOf(os_i64_addU32(a, w)) = (x + w) % mod
    /\ ValueOf(os_i64_sub(a, b)) = (x - y) % mod
    /\ ValueOf(os_i64_subU32(a, w)) = (x - w) % mod
    /\ ValueOf(os_i64_mul(a, b)) = (x * y) % mod
    /\ ValueOf(os_i64_div(a, b)) = IF y = 0 THEN 0 ELSE x \div y
    /\ ValueOf(os_i64_shift_left(a, count)) = (x * 2 ^ count) % mod
    /\ ValueOf(os_i64_shift_right(a, count)) = x \div 2 ^ count
    /\ os_i64_equal(a, b) <=> x = y
    /\ os_i64_greater(a, b) <=> x > y
    /\ os_i64_less(a, b) <=> x < y
    /\ os_i64_greater_or_equal(a, b) <=> x >= y
    /\ os_i64_less_or_equal(a, b) <=> x <= y

(* The later of two readings is the one that is after, and the interval    *)
(* between them is exact when the clock has not started again in between.  *)
(* A deadline is never later than what was asked for, and exact when it    *)
(* lies below the modulus.                                                 *)
ClockExact(t, d) ==
    LET then == os_time_now(t)  now == os_time_now(t + d)
        again == (t \div Epoch) # ((t + d) \div Epoch)
        deadline == os_clock_to_time(os_time_plus(then, d), t)
    IN
    /\ d <= TIME_CLOCKS_MODULO \div 2 - G_CLOCKS_PER_SECOND - 1 =>
        /\ os_time_after(now, then) /\ (d > 0 => ~os_time_after(then, now))
        /\ ~again => os_time_minus(now, then) = d
    /\ d < TIME_CLOCKS_MODULO => deadline <= t + d
    /\ then + d < TIME_CLOCKS_MODULO => deadline = t + d
    /\ (OSAL_GetCpuStartInMsec(t + d) - OSAL_GetCpuStartInMsec(t)) % B = d % B
=============================================================================
