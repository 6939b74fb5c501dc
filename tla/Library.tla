------------------------------ MODULE Library ------------------------------
(***************************************************************************)
(* The pure routines that the kernel and the user programs share: the      *)
(* memory and string routines of string.c and ulib.c, the path elements of *)
(* fs.c, the number and format printers of printf.c and console.c, the     *)
(* system-call argument checks of syscall.c, the loop test of sys_sleep,   *)
(* the keyboard decoder of kbd.c and the matcher of grep.c.  Memory is a   *)
(* function from addresses to bytes, a pointer is an address, and a loop   *)
(* over a buffer is a fold.                                                *)
(***************************************************************************)
EXTENDS Integers, Sequences, FiniteSets, SequencesExt

CONSTANTS DIRSIZ,   \* bytes of a name in a directory entry
          Width     \* bits of an unsigned int

ASSUME LibraryAssumption == DIRSIZ \in Nat \ {0} /\ Width \in Nat \ {0}

NUL == 0
Offsets(n) == [k \in 1..n |-> k - 1]
MinOf(S) == CHOOSE x \in S : \A y \in S : x <= y
ToUint(x) == x % 2^Width

(* ------------------- string.c and ulib.c: raw memory ------------------- *)
CopyUp(m, d, s, n) ==
    FoldLeft(LAMBDA mm, k : [mm EXCEPT ![d + k] = mm[s + k]], m, Offsets(n))
CopyDown(m, d, s, n) ==
    FoldRight(LAMBDA k, mm : [mm EXCEPT ![d + k] = mm[s + k]], Offsets(n), m)

Overlap(d, s, n) == s < d /\ s + n > d

KernelMemmove(m, d, s, n) ==
    IF Overlap(d, s, n) THEN CopyDown(m, d, s, n) ELSE CopyUp(m, d, s, n)
UserMemmove(m, d, s, n) == CopyUp(m, d, s, n)

(* The kernel stores words when address and length allow it. *)
KernelMemset(m, d, c, n) ==
    IF d % 4 = 0 /\ n % 4 = 0
    THEN FoldLeft(LAMBDA mm, w : [a \in DOMAIN mm |->
                      IF a \div 4 = (d \div 4) + w THEN c % 256 ELSE mm[a]],
                  m, Offsets(n \div 4))
    ELSE FoldLeft(LAMBDA mm, k : [mm EXCEPT ![d + k] = c % 256], m, Offsets(n))

Memcmp(m, p, q, n) ==
    LET diff == {k \in 0..(n - 1) : m[p + k] # m[q + k]}
    IN IF diff = {} THEN 0 ELSE m[p + MinOf(diff)] - m[q + MinOf(diff)]

(* ------------------- string.c and ulib.c: C strings -------------------- *)
Strlen(m, p) == MinOf({k \in 0..Cardinality(DOMAIN m) :
                          p + k \in DOMAIN m /\ m[p + k] = NUL})

(* The loop of strcmp and strncmp stops at the first byte that is the end  *)
(* of p, differs, or is the n-th.                                          *)
Strncmp(m, p, q, n) ==
    LET k == MinOf({n} \cup {j \in 0..(n - 1) :
                    /\ p + j \in DOMAIN m /\ q + j \in DOMAIN m
                    /\ m[p + j] = NUL \/ m[p + j] # m[q + j]})
    IN IF k = n THEN 0 ELSE m[p + k] - m[q + k]
Strcmp(m, p, q) == Strncmp(m, p, q, Strlen(m, p) + 1)

Strchr(m, p, c) ==
    LET at == {k \in 0..(Strlen(m, p) - 1) : m[p + k] = c}
    IN IF at = {} THEN -1 ELSE p + MinOf(at)

Strncpy(m, s, t, n) ==
    FoldLeft(LAMBDA x, k :
                 LET c == IF x.ended THEN NUL ELSE x.m[t + k]
                 IN [m |-> [x.m EXCEPT ![s + k] = c], ended |-> c = NUL],
             [m |-> m, ended |-> FALSE], Offsets(n)).m
Strcpy(m, s, t) == CopyUp(m, s, t, Strlen(m, t) + 1)

(* safestrcpy copies at most n-1 bytes and then stores one more NUL, which *)
(* is the second one when the string was shorter than the buffer.          *)
Safestrcpy(m, s, t, n) ==
    IF n <= 0 THEN m
    ELSE LET copied == MinOf({n - 1, Strlen(m, t) + 1})
         IN [CopyUp(m, s, t, copied) EXCEPT ![s + copied] = NUL]

Newline == 10
Return == 13
(* gets: one byte at a time from file descriptor 0, until a line end, the  *)
(* end of the input or max-1 bytes.                                        *)
Gets(input, max) ==
    LET ends == {k \in 1..Len(input) : input[k] \in {Newline, Return}}
        stop == MinOf({max - 1, Len(input)} \cup ends)
    IN SubSeq(input, 1, IF stop < 0 THEN 0 ELSE stop)

(* -------------------------- fs.c: path elements ------------------------ *)
Slash == 47
AfterSlashes(path) ==
    LET ks == {k \in 1..Len(path) : path[k] # Slash}
    IN IF ks = {} THEN <<>> ELSE SubSeq(path, MinOf(ks), Len(path))
ElemLen(path) == MinOf({Len(path)} \cup {k \in 0..(Len(path) - 1) : path[k + 1] = Slash})

Terminated_never(len) == FALSE
Terminated(len) == len < DIRSIZ

(* What skipelem leaves in the buffer `name', whose old bytes stay where   *)
(* it writes nothing.                                                      *)
NameOf(elem, name) ==
    [i \in 0..(DIRSIZ - 1) |->
        IF i < Len(elem) THEN elem[i + 1]
        ELSE IF i = Len(elem) /\ Terminated(Len(elem)) THEN NUL ELSE name[i]]
Skipelem(path, name) ==
    LET p == AfterSlashes(path)
        len == ElemLen(p)
    IN IF p = <<>> THEN [found |-> FALSE, name |-> name, rest |-> <<>>]
       ELSE [found |-> TRUE, name |-> NameOf(SubSeq(p, 1, len), name),
             rest |-> AfterSlashes(SubSeq(p, len + 1, Len(p)))]

(* Two name buffers side by side: what dirlink stores in a directory entry *)
(* for `name', and how dirlookup compares a buffer with an entry.          *)
Pair(a, b) == [i \in 0..(2 * DIRSIZ - 1) |-> IF i < DIRSIZ THEN a[i] ELSE b[i - DIRSIZ]]
EntryName(name) ==
    LET m == Strncpy(Pair(name, name), 0, DIRSIZ, DIRSIZ) IN [i \in 0..(DIRSIZ - 1) |-> m[i]]
Namecmp(name, entry) == Strncmp(Pair(name, entry), 0, DIRSIZ, DIRSIZ)

(* --------------- printf.c, console.c, ulib.c: numbers ------------------ *)
Minus == 45
Zero == 48
(* The digits of x, the most significant first, as the reversed buffer.    *)
Digits(x, base) ==
    LET d[y \in 0..x] == IF y \div base = 0 THEN <<y % base>>
                         ELSE Append(d[y \div base], y % base)
    IN d[x]
Magnitude(xx, sign) == IF sign /\ xx < 0 THEN ToUint(-xx) ELSE ToUint(xx)

Printint(xx, base, sign) ==
    LET ds == Digits(Magnitude(xx, sign), base)
        text == [i \in DOMAIN ds |-> Zero + ds[i]]
    IN IF sign /\ xx < 0 THEN <<Minus>> \o text ELSE text
Atoi(s) ==
    LET stop == MinOf({Len(s)} \cup {k \in 0..(Len(s) - 1) : s[k + 1] \notin Zero..(Zero + 9)})
    IN FoldLeft(LAMBDA n, c : n * 10 + c - Zero, 0, SubSeq(s, 1, stop))

(* ---------------- printf.c, console.c: format strings ------------------ *)
Percent == 37
LetterC == 99
LetterD == 100
LetterS == 115
LetterX == 120
Number(a, base) == <<"int", a, base>>
Str(a) == <<"str", IF a = 0 THEN "(null)" ELSE a>>
Char(c) == <<"char", c>>
(* The item a directive prints, for the arguments args from index ap on.   *)
Directive(c, args, ap) ==
    CASE c = LetterD -> <<Number(args[ap], 10)>>
      [] c = LetterX -> <<Number(args[ap], 16)>>
      [] c = LetterS -> <<Str(args[ap])>>
      [] c = Percent -> <<Char(c)>>
      [] OTHER -> <<Char(Percent), Char(c)>>
Consumes(c) == c \in {LetterD, LetterX, LetterS}
Start == [pending |-> FALSE, ap |-> 1, out |-> <<>>]

(* User printf: a state flag over the characters; %c is understood.        *)
Printf(fmt, args) ==
    FoldLeft(LAMBDA x, c :
        IF ~x.pending
        THEN IF c = Percent THEN [x EXCEPT !.pending = TRUE]
             ELSE [x EXCEPT !.out = Append(@, Char(c))]
        ELSE IF c = LetterC
        THEN [pending |-> FALSE, ap |-> x.ap + 1, out |-> Append(x.out, Char(args[x.ap]))]
        ELSE [pending |-> FALSE, ap |-> IF Consumes(c) THEN x.ap + 1 ELSE x.ap,
              out |-> x.out \o Directive(c, args, x.ap)],
        Start, fmt)

(* Kernel cprintf: an index that jumps over the character after a %.       *)
Cprintf(fmt, args) ==
    LET step[i \in 1..(Len(fmt) + 2), ap \in 1..(Len(args) + 1)] ==
            IF i > Len(fmt) THEN <<>>
            ELSE IF fmt[i] # Percent THEN <<Char(fmt[i])>> \o step[i + 1, ap]
            ELSE IF i = Len(fmt) THEN <<>>
            ELSE Directive(fmt[i + 1], args, ap)
                 \o step[i + 2, IF Consumes(fmt[i + 1]) THEN ap + 1 ELSE ap]
    IN step[1, 1]

(* ------------------- syscall.c: arguments in user memory --------------- *)
(* The checks of fetchint, argptr and fetchstr against the process size,   *)
(* in unsigned arithmetic of the machine's width.                          *)
FetchintOk(addr, sz) == ~(addr >= sz \/ ToUint(addr + 4) > sz)
ArgptrOk_start(i, size, sz) == ~(ToUint(i) >= sz)
ArgptrOk(i, size, sz) == ~(ToUint(i) >= sz \/ ToUint(ToUint(i) + size) > sz)

(* The length of the string at addr, or -1 when it does not end below sz.  *)
Fetchstr(m, addr, sz) ==
    LET nuls == {k \in 0..(sz - 1) : addr + k < sz /\ m[addr + k] = NUL}
    IN IF addr >= sz \/ nuls = {} THEN -1 ELSE MinOf(nuls)

(* ---------------------- sysproc.c: time to sleep ----------------------- *)
(* The ticks that pass before the loop of sys_sleep ends: the difference   *)
(* is unsigned, and so is n in the comparison.                             *)
Elapsed(ticks, ticks0) == ToUint(ticks - ticks0)
SleepTicks(ticks0, n) ==
    MinOf({k \in 0..(2^Width - 1) : ~(Elapsed(ToUint(ticks0 + k), ticks0) < ToUint(n))})

(* ------------------------- kbd.c: scan codes --------------------------- *)
(* A scan code is a key number below 128, plus 128 when the key goes up;   *)
(* 224 announces a code of the second set, whose keys are 128 higher.      *)
Up == 128
Escape == 224
ShiftCode(k) == CASE k \in {29, 157} -> {"CTL"}
                  [] k \in {42, 54} -> {"SHIFT"}
                  [] k \in {56, 184} -> {"ALT"}
                  [] OTHER -> {}
ToggleCode(k) == CASE k = 58 -> {"CAPSLOCK"} [] k = 69 -> {"NUMLOCK"}
                   [] k = 70 -> {"SCROLLLOCK"} [] OTHER -> {}
Released(data, shift) == IF "E0ESC" \in shift THEN data ELSE data % Up
Cleared_keepEscape(data, shift) == ShiftCode(Released(data, shift))
Cleared(data, shift) == ShiftCode(Released(data, shift)) \cup {"E0ESC"}

Toggle(A, B) == (A \ B) \cup (B \ A)
Kbdgetc(shift, data) ==
    IF data = Escape THEN shift \cup {"E0ESC"}
    ELSE IF data >= Up
    THEN shift \ Cleared(data, shift)
    ELSE LET key == IF "E0ESC" \in shift THEN data + Up ELSE data
         IN Toggle((shift \ {"E0ESC"}) \cup ShiftCode(key), ToggleCode(key))

(* --------------------------- grep.c: matcher --------------------------- *)
Caret == 94
Dollar == 36
Dot == 46
Star == 42
Rest(s, k) == SubSeq(s, k + 1, Len(s))
Accepts(c, ch) == c = Dot \/ c = ch
(* matchhere and matchstar over suffixes, as one table: here[i, j] matches *)
(* the expression from its i-th character at the text's j-th.              *)
AtEnd_loose(re, i) == re[i] = Dollar
AtEnd(re, i) == re[i] = Dollar /\ i = Len(re)

Matchhere(re, text) ==
    LET n == Len(text)
        here[i \in 1..(Len(re) + 1), j \in 1..(n + 1)] ==
            IF i > Len(re) THEN TRUE
            ELSE IF i < Len(re) /\ re[i + 1] = Star
            THEN \E k \in j..(n + 1) : /\ \A l \in j..(k - 1) : Accepts(re[i], text[l])
                                       /\ here[i + 2, k]
            ELSE IF AtEnd(re, i) THEN j = n + 1
            ELSE j <= n /\ Accepts(re[i], text[j]) /\ here[i + 1, j + 1]
    IN here[1, 1]
Match(re, text) ==
    IF re # <<>> /\ Head(re) = Caret THEN Matchhere(Tail(re), text)
    ELSE \E k \in 0..Len(text) : Matchhere(re, Rest(text, k))
=============================================================================
