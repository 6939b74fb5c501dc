----------------------------- MODULE Algorithms -----------------------------
(***************************************************************************)
(* The pure algorithms of the kernel and of the user library and shell     *)
(* against what they are for: one step calls one of them with one input of *)
(* a bounded set, and the invariants compare the result with a definition  *)
(* that says what the routine should return and not how.  Only malloc and  *)
(* free keep state: after them more calls follow.                          *)
(***************************************************************************)
EXTENDS Library, ShParse, Umalloc

CONSTANTS MaxTokens,   \* tokens of a command line
          MaxPath,     \* characters of a path
          MaxRe,       \* characters of an expression and of a text
          MaxFmt,      \* characters of a format
          MaxKeys,     \* key events
          MallocBytes  \* sizes given to malloc

VARIABLES call,    \* the routine called and its arguments
          result   \* what it returned or left in memory

vars == <<call, result>>

SeqUpTo(S, n) == UNION {[1..k -> S] : k \in 0..n}
Called(f) == call.f = f

Init == call = [f |-> "none"] /\ result = <<>>

Call(c, r) == call' = c /\ result' = r

(* Memory: four bytes that differ for the copies, and two strings of at    *)
(* most two characters with a buffer of junk before them for the rest.     *)
Junk == 9
Cells == [a \in 0..7 |-> 100 + a]
ShortStrings == {<<NUL, Junk, Junk>>, <<97, NUL, Junk>>, <<97, 98, NUL>>, <<98, NUL, 97>>, <<98, 98, NUL>>}
Placed(t, u) == [a \in 0..9 |-> IF a < 4 THEN Junk ELSE IF a < 7 THEN t[a - 3] ELSE u[a - 6]]

CallMemmove == \E d, s \in 0..3, n \in 0..4 :
    Call([f |-> "memmove", d |-> d, s |-> s, n |-> n],
         <<KernelMemmove(Cells, d, s, n), UserMemmove(Cells, d, s, n)>>)

CallMemset == \E d \in 0..4, n \in 0..4, c \in {0, 1, 257} :
    d + n <= 8 /\ Call([f |-> "memset", d |-> d, n |-> n, c |-> c], KernelMemset(Cells, d, c, n))

CallCompare == \E t, u \in ShortStrings, n \in 0..3 :
    Call([f |-> "compare", t |-> t, u |-> u, n |-> n],
         LET m == Placed(t, u)
         IN <<Strcmp(m, 4, 7), Strncmp(m, 4, 7, n), Memcmp(m, 4, 7, n), Strchr(m, 4, 98)>>)

CallCopy == \E t \in ShortStrings, n \in 0..4 :
    Call([f |-> "copy", t |-> t, n |-> n],
         LET m == Placed(t, t)
         IN <<Strncpy(m, 0, 7, n), Safestrcpy(m, 0, 7, n), Strcpy(m, 0, 7)>>)

CallGets == \E input \in SeqUpTo({97, Newline, Return}, 3), max \in 1..4 :
    Call([f |-> "gets", input |-> input, max |-> max], Gets(input, max))

Letters == {97, 98}
Buffers == [0..(DIRSIZ - 1) -> {NUL, 97}]
(* All the elements of a path, one skipelem after the other with the same  *)
(* buffer, as in the loop of namex.                                        *)
Elements(path, name) ==
    LET walk[p \in SeqUpTo(Letters \cup {Slash}, MaxPath), b \in [0..(DIRSIZ - 1) -> Letters \cup {NUL}]] ==
            LET e == Skipelem(p, b)
            IN IF e.found THEN <<e.name>> \o walk[e.rest, e.name] ELSE <<>>
    IN walk[path, name]
CallPath == \E path \in SeqUpTo(Letters \cup {Slash}, MaxPath), name \in Buffers :
    Call([f |-> "path", path |-> path, name |-> name], Elements(path, name))

CallPrintint == \E xx \in (-(2^(Width - 1)))..(2^(Width - 1) - 1), radix \in {10, 16}, sign \in BOOLEAN :
    Call([f |-> "printint", xx |-> xx, radix |-> radix, sign |-> sign], Printint(xx, radix, sign))

FmtChars == {Percent, LetterC, LetterD, LetterS, LetterX}
CallPrintf == \E fmt \in SeqUpTo(FmtChars, MaxFmt), first \in {0, 1} :
    Call([f |-> "printf", fmt |-> fmt],
         LET args == [k \in 1..MaxFmt |-> first * k]
         IN <<Printf(fmt, args).out, Cprintf(fmt, args)>>)

KERNBASE == 2^(Width - 1)
IntSizes == {-KERNBASE, -4, -1, 0, 1, 4, KERNBASE - 1}
CallArgs == \E i \in 0..(2^Width - 1), size \in IntSizes, sz \in {1, 3, 4, 5, KERNBASE - 1} :
    Call([f |-> "args", i |-> i, size |-> size, sz |-> sz],
         <<FetchintOk(i, sz), ArgptrOk(i, size, sz)>>)

CallFetchstr == \E t, u \in ShortStrings, addr, sz \in 1..10 :
    Call([f |-> "fetchstr", m |-> Placed(t, u), addr |-> addr, sz |-> sz],
         Fetchstr(Placed(t, u), addr, sz))

CallSleep == \E ticks0 \in 0..(2^Width - 1), n \in (-(2^(Width - 1)))..(2^(Width - 1) - 1) :
    Call([f |-> "sleep", ticks0 |-> ticks0, n |-> n], SleepTicks(ticks0, n))

(* Keys that go down and up: left and right control, left shift, caps lock.*)
Keys == {<<29>>, <<224, 29>>, <<42>>, <<58>>}
Codes(k, up) == [n \in DOMAIN k |-> IF n = Len(k) /\ up THEN k[n] + Up ELSE k[n]]
(* The second, fourth, ... event of a key lets it go.                      *)
Ups(h) == [n \in DOMAIN h |-> Cardinality({k \in 1..n : h[k] = h[n]}) % 2 = 0]
CallKbd == \E h \in SeqUpTo(Keys, MaxKeys) :
    Call([f |-> "kbd", h |-> h],
         FoldLeft(Kbdgetc, {}, FoldLeft(LAMBDA s, n : s \o Codes(h[n], Ups(h)[n]),
                                        <<>>, [n \in DOMAIN h |-> n])))

ReChars == {Caret, Dollar, Dot, Star, 97}
CallMatch == \E re \in SeqUpTo(ReChars, MaxRe), text \in SeqUpTo({97, Star}, MaxRe - 1) :
    Call([f |-> "match", re |-> re, text |-> text], Match(re, text))

CallParse == \E ts \in SeqUpTo(Tokens, MaxTokens) :
    Call([f |-> "parsecmd", ts |-> ts], parsecmd(ts))

(* The tokens of a line, one gettoken after the other.                     *)
AllTokens(line) ==
    LET from[i \in 1..(Len(line) + 1)] ==
            LET t == gettoken(line, i) IN IF t.ret = "end" THEN <<>> ELSE <<t>> \o from[t.s]
    IN from[1]
CallGettoken == \E line \in SeqUpTo({Word, White, ">", "|"}, MaxTokens) :
    Call([f |-> "gettoken", line |-> line], AllTokens(line))

(* A program's heap: result has the list, the blocks in use (address and   *)
(* bytes) and the bytes the last malloc refused.  The program may call     *)
(* sbrk itself.                                                            *)
NoBlocks == [heap |-> FirstHeap, live |-> {}, refused |-> 0]
HeapOf == IF Called("heap") THEN result ELSE NoBlocks
Heap(r) == (Called("none") \/ Called("heap")) /\ call' = [f |-> "heap"] /\ result' = r
CallMalloc == \E n \in MallocBytes :
    LET m == malloc(HeapOf.heap, n)
    IN Heap(IF m.at = 0 THEN [heap |-> m.heap, live |-> HeapOf.live, refused |-> n]
            ELSE [heap |-> m.heap, live |-> HeapOf.live \cup {<<m.at, n>>}, refused |-> 0])
CallFree == \E b \in HeapOf.live :
    Heap([heap |-> free(HeapOf.heap, b[1], nunits(b[2])), live |-> HeapOf.live \ {b}, refused |-> 0])
OwnSbrk == HeapOf.heap.brk < HEAPEND /\ Heap([HeapOf EXCEPT !.heap.brk = @ + 1])

Calls == /\ Called("none")
         /\ \/ CallMemmove \/ CallMemset \/ CallCompare \/ CallCopy \/ CallGets
            \/ CallPath \/ CallPrintint \/ CallPrintf \/ CallArgs \/ CallFetchstr \/ CallSleep
            \/ CallKbd \/ CallMatch \/ CallParse \/ CallGettoken
Next == Calls \/ CallMalloc \/ CallFree \/ OwnSbrk

Spec == Init /\ [][Next]_vars

(***************************************************************************)
(* What the results have to be.                                            *)
(***************************************************************************)
CString(m, p) == SubSeq([k \in 1..(Cardinality(DOMAIN m) - p) |-> m[p + k - 1]], 1, Strlen(m, p))
Upto(s, n) == SubSeq(s, 1, IF Len(s) < n THEN Len(s) ELSE n)
Shifted(d, s, n) == [a \in 0..7 |-> IF a \in d..(d + n - 1) THEN Cells[a - d + s] ELSE Cells[a]]

(* Kernel memmove copies as if through a second buffer for every overlap,  *)
(* and user memmove does unless the destination starts inside the source;  *)
(* strncpy and safestrcpy write only the n bytes they may, safestrcpy      *)
(* leaves a terminated prefix of the string, memset fills exactly its      *)
(* range with the low byte (string.c, ulib.c).                             *)
Copies ==
    /\ Called("memmove") =>
          /\ result[1] = Shifted(call.d, call.s, call.n)
          /\ result[2] = Shifted(call.d, call.s, call.n)
                \/ call.d \in (call.s + 1)..(call.s + call.n - 1)
    /\ Called("memset") =>
          result = [a \in 0..7 |-> IF a \in call.d..(call.d + call.n - 1)
                                   THEN call.c % 256 ELSE Cells[a]]
    /\ Called("copy") =>
          LET str == CString(Placed(call.t, call.t), 7)
          IN /\ \A a \in 0..9 : a >= call.n => result[1][a] = Placed(call.t, call.t)[a]
                                            /\ result[2][a] = Placed(call.t, call.t)[a]
             /\ \A k \in 0..(call.n - 1) :
                   result[1][k] = IF k < Len(str) THEN str[k + 1] ELSE NUL
             /\ call.n > 0 => CString(result[2], 0) = Upto(str, call.n - 1)
             /\ CString(result[3], 0) = str

(* Comparing two strings gives 0 exactly when they, or their first n       *)
(* characters, are the same, and otherwise the sign of the first           *)
(* difference; strchr finds the first place of a character; and gets       *)
(* returns one line, cut only after max-1 bytes or where the input ends.   *)
Before(x, y) == \E k \in 0..Len(x) : /\ k <= Len(y) /\ Upto(x, k) = Upto(y, k)
                                   /\ k < Len(y) /\ (k = Len(x) \/ x[k + 1] < y[k + 1])
Compares ==
    /\ Called("compare") =>
          LET m == Placed(call.t, call.u)
              x == CString(m, 4)
              y == CString(m, 7)
          IN /\ (result[1] = 0) = (x = y) /\ (result[1] < 0) = Before(x, y)
             /\ (result[2] = 0) = (Upto(x, call.n) = Upto(y, call.n))
             /\ (result[2] < 0) = Before(Upto(x, call.n), Upto(y, call.n))
             /\ (result[3] = 0) = (Upto(call.t, call.n) = Upto(call.u, call.n))
             /\ (result[3] < 0) = Before(Upto(call.t, call.n), Upto(call.u, call.n))
             /\ IF \A k \in DOMAIN x : x[k] # 98 THEN result[4] = -1
                ELSE m[result[4]] = 98 /\ \A k \in 4..(result[4] - 1) : m[k] \notin {98, NUL}
    /\ Called("gets") =>
          /\ IsPrefix(result, call.input) /\ Len(result) < call.max
          /\ \/ Len(result) \in {call.max - 1, Len(call.input)}
             \/ result[Len(result)] \in {Newline, Return}
          /\ \A k \in 1..(Len(result) - 1) : result[k] \notin {Newline, Return}

(* The elements of a path are the runs of characters between slashes, and  *)
(* a name found by dirlookup is the name dirlink stored exactly when their *)
(* first DIRSIZ characters agree: neither the slashes nor what the name    *)
(* buffer held before can be told from the result.                         *)
Components(path) ==
    LET starts == {i \in 1..Len(path) : path[i] # Slash /\ (i = 1 \/ path[i - 1] = Slash)}
        Run(i) == CHOOSE j \in i..Len(path) : /\ \A k \in i..j : path[k] # Slash
                                              /\ j = Len(path) \/ path[j + 1] = Slash
        order == SetToSortSeq(starts, <)
    IN [n \in DOMAIN order |-> SubSeq(path, order[n], Run(order[n]))]
Names ==
    Called("path") =>
        LET comps == Components(call.path)
        IN /\ Len(result) = Len(comps)
           /\ \A k, l \in DOMAIN comps :
                 (Namecmp(result[k], EntryName(result[l])) = 0)
                     = (Upto(comps[k], DIRSIZ) = Upto(comps[l], DIRSIZ))

(* A printed number reads back: the digits are the number, the sign is its *)
(* sign (the most negative number included), atoi returns every number     *)
(* that is not negative; and printf and cprintf print the same items for   *)
(* every format without %c, so neither skips or repeats an argument.       *)
Value(ds, radix) == FoldLeft(LAMBDA n, c : n * radix + c - Zero, 0, ds)
OddPercents(fmt, i) == \E k \in 1..(i - 1) : /\ (i - k) % 2 = 1
                                             /\ \A j \in k..(i - 1) : fmt[j] = Percent
                                             /\ k = 1 \/ fmt[k - 1] # Percent
Prints ==
    /\ Called("printint") =>
          LET neg == call.sign /\ call.xx < 0
              ds == IF neg THEN Tail(result) ELSE result
          IN /\ neg => Head(result) = Minus
             /\ Value(ds, call.radix) = IF call.sign THEN (IF neg THEN -call.xx ELSE call.xx)
                                       ELSE ToUint(call.xx)
             /\ call.sign /\ call.radix = 10 => Atoi(result) = IF neg THEN 0 ELSE call.xx
    /\ Called("printf") =>
          \/ result[1] = result[2]
          \/ \E i \in DOMAIN call.fmt : call.fmt[i] = LetterC /\ OddPercents(call.fmt, i)

(* The string routines of the kernel and of the library, the path elements *)
(* built from them and the printers return what a definition without loops *)
(* says, for overlapping buffers, strings as long as their buffer, names   *)
(* of DIRSIZ characters that have no terminator, and the most negative     *)
(* number: Copies, Compares, Names and Prints.                             *)
LibraryExact == Copies /\ Compares /\ Names /\ Prints

(* The heap stays in order: blocks in use and free blocks share no header  *)
(* and together are all that morecore got; the list goes through all free  *)
(* blocks in the order of their addresses; no two free blocks touch; a     *)
(* block has room for the bytes asked for; and malloc returns 0 only when  *)
(* no free block is large enough and sbrk fails (umalloc.c).               *)
Span(a, n) == a..(a + n - 1)
HeapSound ==
    Called("heap") =>
        LET h == result.heap
            used == [b \in result.live |-> Span(b[1], nunits(b[2]))]
            avail == [a \in Headers(h) |-> Span(a, h.size[a])]
        IN /\ h.mine = UNION {used[b] : b \in result.live} \cup UNION {avail[a] : a \in Headers(h)}
           /\ Cardinality(h.mine) = FoldSet(LAMBDA b, n : n + nunits(b[2]), 0, result.live)
                                    + FoldSet(LAMBDA a, n : n + h.size[a], 0, Headers(h))
           /\ h.freep \in Headers(h)
           /\ \A a \in Headers(h) :
                 LET above == {b \in Headers(h) : b > a}
                 IN /\ h.ptr[a] = MinOf(IF above = {} THEN Headers(h) ELSE above)
                    /\ a + h.size[a] \notin Headers(h) \ {a}
           /\ \A b \in result.live : (nunits(b[2]) - 1) * HeaderSize >= b[2]
           /\ result.refused # 0 =>
                 /\ \A a \in Headers(h) : h.size[a] < nunits(result.refused)
                 /\ SbrkFails(h, nunits(result.refused))

(* The checks of user addresses: for a size that is not negative argptr,   *)
(* and fetchint for an int, accept a range exactly when all of it lies     *)
(* below sz, wrapping addresses included, and fetchstr a string that ends  *)
(* there.  A negative size, which sys_read and sys_write pass on from the  *)
(* caller, says nothing about the bytes from the address on: argptr        *)
(* accepts it exactly when the address lies below sz and the sum of both   *)
(* does not fall below 0.  sys_sleep sleeps n ticks wherever the tick      *)
(* counter wraps, a negative n being a number above 2^(Width-1).           *)
UnsignedChecks ==
    /\ Called("args") =>
          /\ result[1] = (call.i + 4 <= call.sz)
          /\ result[2] = (/\ call.i < call.sz
                          /\ IF call.size >= 0 THEN call.i + call.size <= call.sz
                             ELSE call.i + call.size >= 0)
    /\ Called("fetchstr") =>
          IF \E k \in call.addr..(call.sz - 1) : call.m[k] = NUL
          THEN /\ call.addr + result < call.sz
               /\ call.m[call.addr + result] = NUL
               /\ \A k \in 0..(result - 1) : call.m[call.addr + k] # NUL
          ELSE result = -1
    /\ Called("sleep") => result = IF call.n >= 0 THEN call.n ELSE 2^Width + call.n

(* No modifier stays on after its keys are up: after any sequence of key   *)
(* presses and releases a modifier is on only while a key for it is held,  *)
(* caps lock is on after an odd number of presses, and no escape prefix is *)
(* left over (kbdgetc).                                                    *)
Held(h) == {k \in Keys : Cardinality({n \in DOMAIN h : h[n] = k}) % 2 = 1}
Presses(h, k) == Cardinality({n \in DOMAIN h : h[n] = k /\ ~Ups(h)[n]})
NoStuckModifier ==
    Called("kbd") =>
        /\ "CTL" \in result => Held(call.h) \cap {<<29>>, <<224, 29>>} # {}
        /\ ("SHIFT" \in result) = (<<42>> \in Held(call.h))
        /\ ("CAPSLOCK" \in result) = (Presses(call.h, <<58>>) % 2 = 1)
        /\ "E0ESC" \notin result

(* The backtracking matcher of grep finds a match exactly when a set of    *)
(* reachable text positions, carried over the units of the expression from *)
(* left to right, is not empty at the end.                                 *)
Units(re) ==
    LET u[i \in 1..(Len(re) + 2)] ==
            IF i > Len(re) THEN <<>>
            ELSE IF i < Len(re) /\ re[i + 1] = Star THEN <<<<re[i], TRUE>>>> \o u[i + 2]
            ELSE <<<<re[i], FALSE>>>> \o u[i + 1]
    IN u[1]
Reach(unit, last, text, S) ==
    LET n == Len(text)
    IN IF unit[2] THEN {k \in 0..n : \E j \in S : j <= k /\ \A l \in (j + 1)..k : Accepts(unit[1], text[l])}
       ELSE IF last /\ unit[1] = Dollar THEN S \cap {n}
       ELSE {j + 1 : j \in {j \in S : j < n /\ Accepts(unit[1], text[j + 1])}}
MatchesRegex ==
    Called("match") =>
        LET anchored == call.re # <<>> /\ Head(call.re) = Caret
            us == Units(IF anchored THEN Tail(call.re) ELSE call.re)
            starts == IF anchored THEN {0} ELSE 0..Len(call.text)
            ends == FoldLeft(LAMBDA S, k : Reach(us[k], k = Len(us), call.text, S),
                             starts, [k \in DOMAIN us |-> k])
        IN result = (ends # {})

(* parsecmd accepts exactly the lines of the shell's grammar, returns the  *)
(* one command each of them stands for, and nulterminate ends every word   *)
(* of the line; every other line makes it panic.  gettoken cuts a line     *)
(* into tokens as long as they can be, which lie one after the other and   *)
(* leave out only whitespace.                                              *)
Spans(t) == t.q..(t.eq - 1)
ParserIsGrammar ==
    /\ Called("gettoken") =>
          /\ UNION {Spans(t) : t \in Range(result)} = {k \in DOMAIN call.line : call.line[k] # White}
          /\ \A t \in Range(result) :
                /\ t.q < t.eq /\ (t.eq - t.q > 1 => t.ret \in {Word, "+"})
                /\ \A k \in Spans(t) : call.line[k] = IF t.ret = "+" THEN ">" ELSE t.ret
          /\ \A k \in 1..(Len(result) - 1) :
                LET t == result[k] u == result[k + 1]
                IN t.eq <= u.q /\ (t.eq = u.q => <<t.ret, u.ret>> \notin
                                       {<<Word, Word>>, <<">", ">">>, <<">", "+">>})
    /\ Called("parsecmd") =>
          LET trees == LineTrees(call.ts, 1, Len(call.ts))
          IN IF Failed(result) THEN trees = {}
             ELSE /\ trees = {result.cmd}
                  /\ nulterminate(result.cmd) = At(call.ts, 1, Len(call.ts), Word)
=============================================================================
