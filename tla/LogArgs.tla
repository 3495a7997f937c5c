------------------------------- MODULE LogArgs -------------------------------
(***************************************************************************)
(* The arguments of a log line as LogEntry keeps them: setArgs writes them *)
(* in the calling thread into the entry's own bytes or into a heap block,  *)
(* runFormat reads them back in the consumer.                              *)
(*                                                                         *)
(* The layout is the code's, [count] [tags] [pad] [values] [string bytes], *)
(* in units: a 4-byte value, a bool and a 16-bit offset take one, an       *)
(* 8-byte value two, values are aligned to two.  A unit remembers what was *)
(* stored there, [kind, v, k] for the k-th unit of value v, so that reading *)
(* it at another place gives Junk.                                         *)
(***************************************************************************)
EXTENDS Naturals, Sequences, FiniteSets, SequencesExt

CONSTANTS InlineSize,     \* kFmtStorageSize
          OffsetRange,    \* 2^16: an offset is a uint16_t
          Junk,           \* what reading something else than a value gives
          Null            \* a null C string, and the terminator of the others

ASSUME LogArgsAssumption ==
    InlineSize \in Nat /\ OffsetRange \in Nat \ {0} /\ Junk \notin Nat

\* An argument is [tag, val]; the val of a string is its sequence of chars,
\* of a null C string Null.  The fallback types are those fmt hands over that
\* have no branch of their own: smaller than a pointer (char, float), or larger
\* (long double).
Strings == {"Cstring", "StringView"}
Fallback == {"Small", "Large"}
ArgType == {"Int", "Uint", "Int64", "Uint64", "Double", "Bool", "Ptr"} \cup Strings \cup Fallback
IsText(a) == a.tag \in Strings /\ a.val # Null

\* How many units the first pass of setArgs counts for the fixed part of an
\* argument (its last branch, a pointer or a fallback, counts sizeof) ...
MeasuredSize(tag) ==
    CASE tag \in {"Int", "Uint", "Bool"} -> 1
      [] tag \in {"Int64", "Uint64", "Double"} -> 2
      [] tag = "Cstring" -> 1
      [] tag = "StringView" -> 1 + 2
      [] tag = "Small" -> 1
      [] tag = "Large" -> 4
      [] OTHER -> 2

\* ... how many encodeOneArg writes ...
EncodedSize(tag) ==
    CASE tag \in {"Int", "Uint", "Bool", "Cstring", "Small"} -> 1
      [] tag = "StringView" -> 3
      [] tag = "Large" -> 4
      [] OTHER -> 2

\* Regression: the size of a string_view is read as four bytes.
DecodedSizeShort(tag) == IF tag \in {"Small", "Large", "StringView"} THEN 2 ELSE EncodedSize(tag)

\* ... and how many decodeOneArg takes: a fallback is tagged and read as a
\* pointer.
DecodedSize(tag) == IF tag \in Fallback THEN 2 ELSE EncodedSize(tag)

\* The units of the first n of some items, of the given sizes.
Sum(size, n) == Cardinality(UNION {{i} \X (1..size[i]) : i \in 1..n})

\* alignPtr: behind the count and the tags, at a multiple of two.
ValuesAt(args) == 2 * ((Len(args) + 2) \div 2)

\* The bytes of a string; a C string keeps its terminator.
Text(a) == IF a.tag = "Cstring" THEN Append(a.val, Null) ELSE a.val

TextSize(a) == IF IsText(a) THEN Len(Text(a)) ELSE 0
FixedSize(a) == EncodedSize(a.tag)

MeasuredSizes(args) == [i \in DOMAIN args |-> MeasuredSize(args[i].tag)]
FixedSizes(args) == [i \in DOMAIN args |-> FixedSize(args[i])]
TextSizes(args) == [i \in DOMAIN args |-> TextSize(args[i])]

FixedAt(args, i) == ValuesAt(args) + Sum(FixedSizes(args), i - 1)
TextAt(args, i) == ValuesAt(args) + Sum(FixedSizes(args), Len(args)) + Sum(TextSizes(args), i - 1)
TotalSize(args) == TextAt(args, Len(args) + 1)

\* What the first pass arrives at, and so the room the second one has.
Measured(args) ==
    ValuesAt(args) + Sum(MeasuredSizes(args), Len(args)) + Sum(TextSizes(args), Len(args))
Room(args) == IF Measured(args) > InlineSize THEN Measured(args) ELSE InlineSize

\* What uninitialized memory holds.
Uninitialized == [kind |-> "uninitialized", v |-> Junk, k |-> 0]

\* The unit at offset k of the fixed part of argument i, as encodeOneArg and
\* the loop behind it leave it.  The offset of a null C string is not written.
FixedUnit(args, i, k) ==
    LET a == args[i]
    IN CASE a.tag \notin Strings -> [kind |-> "value", v |-> a.val, k |-> k]
         [] a.tag \in Strings /\ k > 0 -> [kind |-> "value", v |-> Len(a.val), k |-> k - 1]
         [] IsText(a) /\ k = 0 ->
              [kind |-> "offset", v |-> TextAt(args, i) % OffsetRange, k |-> 0]
         [] OTHER -> Uninitialized

\* The second pass of setArgs: the bytes it fills.
SetArgs(args) ==
    LET fixed(i) == {FixedAt(args, i) + k : k \in 0..(FixedSize(args[i]) - 1)}
        text(i) == {TextAt(args, i) + k : k \in 0..(TextSize(args[i]) - 1)}
        unit(j) ==
            IF \E i \in DOMAIN args : j \in fixed(i)
              THEN LET i == CHOOSE i \in DOMAIN args : j \in fixed(i)
                   IN FixedUnit(args, i, j - FixedAt(args, i))
            ELSE IF \E i \in DOMAIN args : j \in text(i)
              THEN LET i == CHOOSE i \in DOMAIN args : j \in text(i)
                   IN [kind |-> "char", v |-> Text(args[i])[j - TextAt(args, i) + 1], k |-> 0]
            ELSE Uninitialized
    IN [j \in 0..(TotalSize(args) - 1) |-> unit(j)]

-----------------------------------------------------------------------------

UnitAt(mem, j) == IF j \in DOMAIN mem THEN mem[j] ELSE Uninitialized
Is(u, kind) == u.kind = kind

\* The size units from p on, if they are one value.
ReadValue(mem, p, size) ==
    IF \A k \in 0..(size - 1) : /\ Is(UnitAt(mem, p + k), "value")
                                /\ UnitAt(mem, p + k).v = UnitAt(mem, p).v
                                /\ UnitAt(mem, p + k).k = k
      THEN UnitAt(mem, p).v ELSE Junk

ReadChars(mem, from, n) ==
    IF \A j \in from..(from + n - 1) : Is(UnitAt(mem, j), "char")
      THEN [k \in 1..n |-> mem[from + k - 1].v] ELSE Junk

\* A C string ends at the first terminator.
ReadCstring(mem, from) ==
    LET ends == {j \in DOMAIN mem : j >= from /\ Is(mem[j], "char") /\ mem[j].v = Null}
    IN IF ends = {} THEN Junk
       ELSE ReadChars(mem, from, (CHOOSE j \in ends : \A k \in ends : j <= k) - from)

\* decodeOneArg: an offset of 0 stands for no string.
ReadText(mem, p, tag) ==
    LET off == UnitAt(mem, p)
    IN IF ~Is(off, "offset") THEN Junk
       ELSE IF tag = "Cstring" THEN IF off.v = 0 THEN <<>> ELSE ReadCstring(mem, off.v)
       ELSE LET size == ReadValue(mem, p + 1, 2)
            IN IF size = Junk THEN Junk ELSE ReadChars(mem, off.v, size)

\* runFormat: the values as they are formatted.
RunFormat(tags, mem) ==
    LET sizes == [i \in DOMAIN tags |-> DecodedSize(tags[i])]
        at(i) == ValuesAt(tags) + Sum(sizes, i - 1)
    IN [i \in DOMAIN tags |->
          IF tags[i] \in Strings THEN ReadText(mem, at(i), tags[i])
          ELSE ReadValue(mem, at(i), DecodedSize(tags[i]))]

Tags(args) == [i \in DOMAIN args |-> args[i].tag]

\* What the caller meant: a null C string is shown as an empty one.
Meant(args) == [i \in DOMAIN args |-> IF args[i].val = Null THEN <<>> ELSE args[i].val]

\* As many arguments as setArgs has room for (tags[15]); a C string has no
\* terminator inside, and only a C string can be null.
WellFormed(args) ==
    /\ args \in Seq(ToSet(args)) /\ Len(args) <= 15
    /\ \A i \in DOMAIN args :
          LET a == args[i]
          IN /\ a.tag \in ArgType
             /\ a.val = Null => a.tag = "Cstring"
             /\ IsText(a) => a.val \in Seq(ToSet(a.val))
             /\ IsText(a) /\ a.tag = "Cstring" => \A k \in DOMAIN a.val : a.val[k] # Null

\* An argument with no fallback type in front of it or its own, not null, and,
\* if it is a string, within the reach of an offset.
Recoverable(args, i) ==
    /\ \A j \in 1..i : args[j].tag \notin Fallback
    /\ args[i].val # Null
    /\ args[i].tag \in Strings => TextAt(args, i) < OffsetRange

\* The second pass stays within the room the first one made, and what is read
\* back of every argument that can be is what was stored.
Intact(args) ==
    /\ TotalSize(args) <= Room(args)
    /\ \A i \in DOMAIN args :
          Recoverable(args, i) => RunFormat(Tags(args), SetArgs(args))[i] = Meant(args)[i]
=============================================================================
