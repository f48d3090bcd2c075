-------------------------------- MODULE BinArr --------------------------------
(***************************************************************************)
(* The byte array of include/krft/bin_array.h, which server_send sends:    *)
(* numbers are written at a cursor, in host or in network byte order, and  *)
(* read back at the same cursor.  `write` leaves the size alone; `append`  *)
(* sets it to where the cursor then is.                                    *)
(*                                                                         *)
(* The host is little-endian.  No operation checks the capacity or the     *)
(* size: the caller has to, and no function takes the cursor back, so that *)
(* the caller does this too.                                               *)
(***************************************************************************)
EXTENDS Integers, Functions

CONSTANTS
  Base,       \* values of a byte, 256
  Capacity,   \* of the array
  FloatScale, \* FLOAT_SCALE, 10000
  FloatUnit,  \* a float is a number of steps of 1 / FloatUnit, 2^149
  Precision,  \* values of its significand, 2^24
  Numbers     \* the numbers that are tried

ASSUME BinArrAssumption ==
  /\ {Base, Capacity, FloatScale, FloatUnit, Precision} \subseteq Nat \ {0}
  /\ Base % 2 = 0
  /\ Precision >= 4 /\ 4 * FloatScale <= FloatUnit
  /\ Numbers \subseteq Int

VARIABLES
  buf,    \* the bytes
  size,
  index,  \* the cursor
  items   \* history: what was written whole and not written over, by place

arrayVars == <<buf, size, index, items>>

\* A byte malloc returned and nobody wrote.
Garbage == -1

Kind == {"i8", "i16", "i32", "u32", "float"}

\* sizeof; a float goes out as an int32_t.
Width(kind) == CASE kind = "i8" -> 1 [] kind = "i16" -> 2 [] OTHER -> 4

\* What n bytes can hold.
Values(n) == CASE n = 0 -> 1 [] n = 1 -> Base [] n = 2 -> Base * Base
               [] n = 3 -> Base * Base * Base [] n = 4 -> Base * Base * Base * Base

\* The integers of a kind.
IntegersOf(kind) ==
  LET values == Values(Width(kind))
  IN IF kind = "u32" THEN 0 .. values - 1 ELSE -(values \div 2) .. values \div 2 - 1

\* The steps from one float to the next, for floats up to k: one while the significand
\* has room, and twice as many whenever k doubles.
Spacing(k) ==
  LET spacing[i \in 0 .. k] == IF i <= Precision THEN 1 ELSE 2 * spacing[(i + 1) \div 2]
  IN spacing[k]

\* The float nearest to n / d, of two that are as near the even one; and for any sign.
Nearest(n, d) ==
  LET spacing == Spacing((n + d - 1) \div d)
      gap == spacing * d
      rest == n % gap
      up == 2 * rest > gap \/ (2 * rest = gap /\ (n \div gap) % 2 = 1)
  IN spacing * (n \div gap + (IF up THEN 1 ELSE 0))

Rounded(n, d) == IF n >= 0 THEN Nearest(n, d) ELSE -Nearest(-n, d)

IsFloat(x) == Rounded(x, 1) = x

\* data * FLOAT_SCALE, a product of floats, as an int32_t, which cuts off what comes
\* after the point.
FloatToInt(x) ==
  LET product == Rounded(x * FloatScale, 1)
  IN IF product >= 0 THEN product \div FloatUnit ELSE -((-product) \div FloatUnit)

\* ires / (float)FLOAT_SCALE, where ires becomes a float first.
IntToFloat(n) == Rounded(Rounded(n * FloatUnit, 1), FloatScale)

Integer(kind, v) == IF kind = "float" THEN FloatToInt(v) ELSE v

\* What a caller may write: floats only if an int32_t holds what they become.
Data(kind) == {x \in Numbers : /\ kind = "float" => IsFloat(x)
                               /\ Integer(kind, x) \in IntegersOf(kind)}

\* The place, counted from the least significant, of the byte that comes i-th, and
\* so where the byte of a place comes.  htons, htonl and their inverses turn it
\* around.
Significance(kind, network, i) == IF network THEN Width(kind) - 1 - i ELSE i

\* The bytes of memcpy from a number.
Bytes(kind, network, v) ==
  [i \in 0 .. Width(kind) - 1 |->
     ((v % Values(Width(kind))) \div Values(Significance(kind, network, i))) % Base]

\* The number those bytes are as a variable of that kind; in the slip, of none
\* with a sign.
Unsigned(kind, n) == n
Signed(kind, n) == IF n \in IntegersOf(kind) THEN n ELSE n - Values(Width(kind))

ReadInteger(kind, network, at) ==
  LET w == Width(kind)
      top[k \in 0 .. w] ==   \* what the k most significant bytes come to
        IF k = 0 THEN 0
        ELSE Base * top[k - 1] + buf[at + Significance(kind, network, w - k)]
  IN Signed(kind, top[w])

-----------------------------------------------------------------------------
\* binarr_new
ArrayInit ==
  /\ buf = [i \in 0 .. Capacity - 1 |-> Garbage]
  /\ size = 0 /\ index = 0
  /\ items = [at \in {} |-> at]

\* The items a write of w bytes at the cursor leaves whole.
KeptItems(w) ==
  Restrict(items, {at \in DOMAIN items :
                     at >= index + w \/ at + Width(items[at].kind) <= index})

\* binarr_write_*: the bytes at the cursor, and the cursor behind them.
Put(kind, network, v) ==
  LET w == Width(kind)
      bytes == Bytes(kind, network, Integer(kind, v))
      item == [kind |-> kind, network |-> network, v |-> v]
      kept == KeptItems(w)
  IN
  /\ index + w <= Capacity   \* the caller's care
  /\ buf' = [i \in DOMAIN buf |-> IF i \in index .. index + w - 1
                                  THEN bytes[i - index] ELSE buf[i]]
  /\ index' = index + w
  /\ items' = [at \in DOMAIN kept \cup {index} |-> IF at = index THEN item ELSE kept[at]]

\* The kinds with a network order; there is no binarr_write_i16_n.
WriteNumber(kind, network, v) ==
  /\ network => kind \notin {"i8", "i16"}
  /\ Put(kind, network, v)
  /\ UNCHANGED size

\* What append makes of the size; in the slip it counts what was appended.
SizeCounted(w) == size + w
NewSize(w) == index + w

AppendNumber(kind, network, v) ==
  /\ network => kind # "i8"
  /\ Put(kind, network, v)
  /\ size' = NewSize(Width(kind))

\* binarr_read_*, of ReadInteger(kind, network, index); of a float IntToFloat of that.
ReadNumber(kind) ==
  /\ index + Width(kind) <= size   \* the caller's care
  /\ index' = index + Width(kind)
  /\ UNCHANGED <<buf, size, items>>

\* The caller takes the cursor back to read, or to write again.
Rewind ==
  /\ index' = 0
  /\ UNCHANGED <<buf, size, items>>

ArrayNext ==
  \/ Rewind
  \/ \E kind \in Kind :
       \/ ReadNumber(kind)
       \/ \E network \in BOOLEAN, v \in Data(kind) :
            WriteNumber(kind, network, v) \/ AppendNumber(kind, network, v)

ArraySpec == ArrayInit /\ [][ArrayNext]_arrayVars

-----------------------------------------------------------------------------
\* The variables have their types; and what server_send sends, the first `size`
\* bytes, and what lies before the cursor was written, whatever mix of writes,
\* appends, reads and rewinds came before: no byte malloc left there goes out.
ArrayTypeOK ==
  /\ buf \in [0 .. Capacity - 1 -> {Garbage} \cup 0 .. Base - 1]
  /\ {size, index} \subseteq 0 .. Capacity
  /\ DOMAIN items \subseteq 0 .. Capacity - 1
  /\ \A i \in 0 .. Capacity - 1 : i < size \/ i < index => buf[i] # Garbage

Distance(a, b) == IF a < b THEN b - a ELSE a - b

\* A number is read back as it was written, in either byte order and with its sign,
\* while others are written around it.  The rounding of floats can add up to no more
\* than this: a float comes back within one part of FLOAT_SCALE, a step and four times
\* what single precision cannot tell apart; and who reads a float that is not too large
\* and sends it on has taken nothing, or one part, from it and has never added one.
ReadsBack ==
  \A at \in DOMAIN items :
    LET item == items[at]
        n == ReadInteger(item.kind, item.network, at)
        written == item.v * FloatScale
        read == IntToFloat(n) * FloatScale
        sentOn == FloatToInt(IntToFloat(n))
    IN /\ n = Integer(item.kind, item.v)
       /\ item.kind = "float" =>
            /\ Distance(read, written) * Precision
                 < (FloatUnit + FloatScale) * Precision + 4 * Distance(written, 0)
            /\ 4 * Distance(n, 0) <= Precision =>
                 Distance(sentOn, n) <= 1 /\ Distance(sentOn, 0) <= Distance(n, 0)
=============================================================================
