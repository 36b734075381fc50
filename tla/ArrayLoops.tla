------------------------------ MODULE ArrayLoops -----------------------------
(* The array and string loops of module1 ex04 and module2 ex04, one turn of  *)
(* a loop per step, over two arrays of the caller. 0 is the '\0' of a string.*)
EXTENDS Integers, Sequences, FiniteSetsExt

CONSTANTS Char,     \* non-zero bytes
          CELLS,    \* the size of the caller's arrays
          Running   \* the result of a call that has not returned

ASSUME ArrayLoopsAssumption == /\ Char \subseteq Nat \ {0} /\ CELLS \in Nat \ {0}
                               /\ Running \notin Int

VARIABLES fn,       \* the function called
          n,        \* its length argument, where it has one
          dst, src, \* the arrays: arr of find_max and reverse_array is dst
          i, j,     \* its indices
          max,      \* find_max's maximum
          result,   \* what it returned, 0 for a void or dst, or Running
          dst0      \* history: dst at the call

arrayVars == <<fn, n, dst, src, i, j, max, result, dst0>>

Cell  == 0 .. CELLS - 1
Arrays == [Cell -> Char \cup {0}]

IsString(arr) == \E k \in Cell : arr[k] = 0
\* Where the string in arr ends.
EndOf(arr) == Min({k \in Cell : arr[k] = 0})

Lengths == {"my_memcpy", "my_memset", "find_max", "reverse_array"}
Strings == {"my_strlen", "my_strcpy", "my_strcmp"}

ArrayInit ==
    /\ fn \in Lengths \cup Strings
    /\ dst \in Arrays /\ src \in Arrays /\ dst0 = dst
    /\ fn \in Strings => IsString(src)
    /\ fn = "my_strcmp" => IsString(dst)
    /\ n \in IF fn \in Lengths THEN 0 .. CELLS ELSE {0}
    /\ fn = "find_max" => n > 0
    /\ i = 0 /\ j = n - 1
    /\ max = dst[0]
    /\ result = Running

Return(value) == result' = value /\ UNCHANGED <<dst, i, j, max>>

\* Mutant: the loop copies one element more.
MemcpyOneMore == IF i <= n
                 THEN /\ dst' = [dst EXCEPT ![i] = src[i]]
                      /\ i' = i + 1
                      /\ UNCHANGED <<j, max, result>>
                 ELSE Return(0)
my_memcpy == IF i < n
             THEN /\ dst' = [dst EXCEPT ![i] = src[i]]
                  /\ i' = i + 1
                  /\ UNCHANGED <<j, max, result>>
             ELSE Return(0)

\* The value set is the first element of src.
my_memset == IF i < n
             THEN /\ dst' = [dst EXCEPT ![i] = src[0]]
                  /\ i' = i + 1
                  /\ UNCHANGED <<j, max, result>>
             ELSE Return(0)

find_max == IF i < n
            THEN /\ max' = IF dst[i] > max THEN dst[i] ELSE max
                 /\ i' = i + 1
                 /\ UNCHANGED <<dst, j, result>>
            ELSE Return(max)

\* Mutant: the swap goes on past the middle.
ReverseAll == IF i < n
              THEN /\ dst' = [dst EXCEPT ![i] = dst[j], ![j] = dst[i]]
                   /\ i' = i + 1 /\ j' = j - 1
                   /\ UNCHANGED <<max, result>>
              ELSE Return(0)
reverse_array == IF i < j
                 THEN /\ dst' = [dst EXCEPT ![i] = dst[j], ![j] = dst[i]]
                      /\ i' = i + 1 /\ j' = j - 1
                      /\ UNCHANGED <<max, result>>
                 ELSE Return(0)

my_strlen == IF src[i] # 0
             THEN i' = i + 1 /\ UNCHANGED <<dst, j, max, result>>
             ELSE Return(i)

my_strcpy == IF src[i] # 0
             THEN /\ dst' = [dst EXCEPT ![i] = src[i]]
                  /\ i' = i + 1
                  /\ UNCHANGED <<j, max, result>>
             ELSE /\ dst' = [dst EXCEPT ![i] = 0]
                  /\ result' = 0
                  /\ UNCHANGED <<i, j, max>>

\* Mutant: the end of the first string does not stop the walk.
StrcmpPastEnd == IF dst[i] = src[i]
                 THEN i' = (i + 1) % CELLS /\ UNCHANGED <<dst, j, max, result>>
                 ELSE Return(dst[i] - src[i])
\* s1 is dst, s2 is src.
my_strcmp == IF dst[i] # 0 /\ dst[i] = src[i]
             THEN i' = i + 1 /\ UNCHANGED <<dst, j, max, result>>
             ELSE Return(dst[i] - src[i])

LoopStep == /\ result = Running
            /\ \/ fn = "my_memcpy"     /\ my_memcpy
               \/ fn = "my_memset"     /\ my_memset
               \/ fn = "find_max"      /\ find_max
               \/ fn = "reverse_array" /\ reverse_array
               \/ fn = "my_strlen"     /\ my_strlen
               \/ fn = "my_strcpy"     /\ my_strcpy
               \/ fn = "my_strcmp"     /\ my_strcmp
            /\ UNCHANGED <<fn, n, src, dst0>>

ArrayFairness == WF_arrayVars(LoopStep)
ArraySpec == ArrayInit /\ [][LoopStep]_arrayVars /\ ArrayFairness

------------------------------------------------------------------------------
\* dst after a call whose first len elements were written from new.
Written(new, len) == [k \in Cell |-> IF k < len THEN new[k] ELSE dst0[k]]

\* The strings of two arrays up to their ends, without it.
Text(arr) == [k \in 1 .. EndOf(arr) |-> arr[k - 1]]

\* x sorts before y: x is a proper prefix of y, or less where they first differ.
SortsBefore(x, y) ==
    \/ Len(x) < Len(y) /\ SubSeq(y, 1, Len(x)) = x
    \/ \E k \in 1 .. Min({Len(x), Len(y)}) :
          SubSeq(x, 1, k - 1) = SubSeq(y, 1, k - 1) /\ x[k] < y[k]

\* What the array loops return and leave behind is what their names promise, to
\* the element: a copy or a fill of n elements and none beside them, the greatest
\* element, the elements in reverse order.
ArrayLoopsMeetDefinition ==
    result # Running =>
        CASE fn = "my_memcpy"     -> dst = Written(src, n)
          [] fn = "my_memset"     -> dst = Written([k \in Cell |-> src[0]], n)
          [] fn = "find_max"      -> result = Max({dst[k] : k \in 0 .. n - 1})
          [] fn = "reverse_array" -> dst = Written([k \in Cell |-> dst0[(n - 1 - k) % CELLS]], n)
          [] OTHER                -> TRUE

\* The string loops: the length up to the terminator, a copy with it and nothing
\* beyond it, and the sign of the lexicographic order, also of a prefix.
StringLoopsMeetDefinition ==
    result # Running =>
        CASE fn = "my_strlen" -> result = EndOf(src)
          [] fn = "my_strcpy" -> dst = Written(src, EndOf(src) + 1)
          [] fn = "my_strcmp" -> /\ (result < 0) <=> SortsBefore(Text(dst), Text(src))
                                 /\ (result = 0) <=> Text(dst) = Text(src)
          [] OTHER            -> TRUE

\* No element is read or written past the length passed or past the end of a
\* string, whatever follows it in the array.
StaysInside ==
    result = Running =>
        /\ fn \in {"my_memcpy", "my_memset", "find_max"} => i <= n
        /\ fn = "reverse_array" => i <= j + 2 /\ (i < j => j < n)
        /\ fn \in Strings => i <= EndOf(src)
        /\ fn = "my_strcmp" => i <= EndOf(dst)

\* Each loop computes what it is for, and reads and writes nothing beside it.
LoopsMeetDefinition == ArrayLoopsMeetDefinition /\ StringLoopsMeetDefinition /\ StaysInside

\* Every loop ends.
LoopsEnd == <>(result # Running)
==============================================================================
