---------------------------- MODULE MachineData ----------------------------
(***************************************************************************)
(* What the commands compute, apart from who runs them: references to      *)
(* addresses (ops.py, symbols.py), the search of memory (ops.py) and the   *)
(* stack frame call_routine builds.  The text of a reference is a sequence *)
(* of tokens: names, numbers, "+" and "-".                                 *)
(***************************************************************************)
EXTENDS Integers, Sequences

CONSTANTS
    AddressSpace,           \* 65536 in the code
    Values,                 \* of a byte
    Patterns, Limits,       \* what is searched for, and how many are wanted
    LabelMaps,              \* maps of labels to addresses
    Addends, Addresses,     \* offsets in references, and addresses to be named
    Traps                   \* call_routine's trap addresses

ASSUME AddressSpaceAssumption == AddressSpace \in Nat \ {0}

ASSUME SearchAssumption == Patterns \subseteq Seq(Values) \ {<<>>} /\ Limits \subseteq Nat

ASSUME StackAssumption ==
    Values \subseteq 0 .. 255 /\ \A trap \in Traps : trap \in Nat /\ trap < 65536

Least(S) == CHOOSE x \in S : \A y \in S : x <= y

-----------------------------------------------------------------------------
(***************************************************************************)
(* find_bytes: one read of the window, then bytes.find from one past each  *)
(* match, until there is none or limit have been taken.                    *)
(***************************************************************************)
Window(start, length) ==
    LET room == AddressSpace - start
        n    == IF length < room THEN length ELSE room
    IN  IF n < 0 THEN 0 ELSE n

AtOffset(data, pattern, i) ==
    /\ i + Len(pattern) <= Len(data)
    /\ \A j \in 1 .. Len(pattern) : data[i + j] = pattern[j]

BytesFind(data, pattern, from) ==
    LET found == {i \in from .. Len(data) : AtOffset(data, pattern, i)}
    IN  IF found = {} THEN -1 ELSE Least(found)

BeyondMatch(pattern, i) == i + Len(pattern)     \* mutant: matches do not overlap
NextFrom(pattern, i) == i + 1

(* The loop from match i on, or from -1, where it ends.                    *)
Scanned(data, start, pattern, limit, scan, i, matches) ==
    IF i = -1 THEN [matches |-> matches, truncated |-> FALSE]
    ELSE IF Len(matches) >= limit THEN [matches |-> matches, truncated |-> TRUE]
    ELSE scan[<<BytesFind(data, pattern, NextFrom(pattern, i)), Append(matches, start + i)>>]

Scan(data, start, pattern, limit) ==
    LET scan[at \in (Nat \cup {-1}) \X Seq(Nat)] ==
            Scanned(data, start, pattern, limit, scan, at[1], at[2])
    IN  scan

(* What memory_read may return for n bytes from start.  It asks for start  *)
(* to start + n - 1: for no bytes at address 0 that cannot be packed, and  *)
(* elsewhere it is upside down and VICE has nothing to answer.  An answer  *)
(* tells its length in 16 bits, so that all of memory is no bytes.         *)
MemoryRead(memory, start, n) ==
    IF n = 0 /\ start = 0 THEN {}
    ELSE {[i \in 1 .. n % AddressSpace |-> memory[start + i - 1]]}

(* What the search may return: nothing if the read fails.                  *)
FindBytes(memory, start, length, pattern, limit) ==
    {Scan(data, start, pattern, limit)[<<BytesFind(data, pattern, 0), <<>>>>]
        : data \in MemoryRead(memory, start, Window(start, length))}

-----------------------------------------------------------------------------
(***************************************************************************)
(* Labels map names to addresses; the linker's own (__x__) are left out,   *)
(* as nearest leaves them out, and so is resolve's folding of case.        *)
(* nearest: the closest at or below addr, within a page; format: the name, *)
(* and the offset unless it is 0.                                          *)
(***************************************************************************)
Near(labels, addr) == {n \in DOMAIN labels : addr - labels[n] \in 0 .. 255}

Nearest(labels, addr) ==
    {n \in Near(labels, addr) : \A m \in Near(labels, addr) : labels[m] <= labels[n]}

Name(n)   == <<"name", n>>
Number(v) == <<"number", v>>
Plus      == <<"plus", 0>>
Minus     == <<"minus", 0>>
Token     == {"name", "number", "plus", "minus"} \X Int

PcSymbol(labels, addr) ==
    {IF addr = labels[n] THEN n ELSE n \o <<Plus, Number(addr - labels[n])>>
        : n \in Nearest(labels, addr)}

(***************************************************************************)
(* parse_ref, without its @row,col form.  The last "+", else the last "-", *)
(* with a number behind it and an address before it makes an offset; else  *)
(* the whole is a number or a symbol, or there is no address (KeyError).   *)
(***************************************************************************)
Signed(sign, n) == IF sign = Plus THEN n ELSE -n

Unsigned(text) == Len(text) = 1 /\ text[1][1] = "number"

ParseNumber(text) ==
    IF Unsigned(text) THEN {text[1][2]}
    ELSE IF Len(text) = 2 /\ Unsigned(Tail(text)) /\ text[1] \in {Plus, Minus}
    THEN {Signed(text[1], text[2][2])}
    ELSE {}

FirstSeparator(text, sep) == {i \in 2 .. Len(text) : text[i] = sep          \* mutant: split
                                /\ \A j \in 2 .. i - 1 : text[j] # sep}
LastSeparator(text, sep)  == {i \in 2 .. Len(text) : text[i] = sep
                                /\ \A j \in i + 1 .. Len(text) : text[j] # sep}

(* A label has no "+" and does not end in a number of its own: "a-1" would *)
(* be read as an offset from "a".                                          *)
IsSymbol(text) == /\ text \in Seq(Token) /\ text # <<>>
                  /\ text[Len(text)][1] # "number"
                  /\ \A i \in 1 .. Len(text) : text[i] # Plus

ASSUME LabelsAssumption ==
    \A labels \in LabelMaps :
        \A name \in DOMAIN labels : IsSymbol(name) /\ labels[name] \in Int

ASSUME NumbersAssumption == Addends \subseteq Int /\ Addresses \subseteq Int

Resolve(labels, text) == {labels[n] : n \in DOMAIN labels \cap {text}}

(* Base and offset at a separator, given how the text before it parses.    *)
Offset(parse, text, sep) ==
    UNION {{base + Signed(sep, off) :
                base \in parse[SubSeq(text, 1, i - 1)],
                off \in ParseNumber(SubSeq(text, i + 1, Len(text)))}
            : i \in LastSeparator(text, sep)}

Parsed(labels, parse, text) ==
    IF Offset(parse, text, Plus) # {} THEN Offset(parse, text, Plus)
    ELSE IF Offset(parse, text, Minus) # {} THEN Offset(parse, text, Minus)
    ELSE IF Unsigned(text) THEN ParseNumber(text)
    ELSE Resolve(labels, text)

Parser(labels) ==
    LET parse[text \in Seq(Token)] == Parsed(labels, parse, text) IN parse

ParseRef(labels, ref) == Parser(labels)[ref]

-----------------------------------------------------------------------------
(***************************************************************************)
(* call_routine: trap - 1 is pushed at the stack pointer, high byte first. *)
(* RTS, the processor's own, pulls it and adds 1.                          *)
(***************************************************************************)
ReturnAddress(trap) == (trap - 1) % 65536

(* Mutant: the frame does not wrap within the page.                        *)
PushedFlat(stack, sp, trap) ==
    [[stack EXCEPT ![sp] = ReturnAddress(trap) \div 256]
            EXCEPT ![sp - 1] = ReturnAddress(trap) % 256]

Pushed(stack, sp, trap) ==
    [[stack EXCEPT ![sp] = ReturnAddress(trap) \div 256]
            EXCEPT ![(sp - 1) % 256] = ReturnAddress(trap) % 256]

Lowered(sp) == (sp - 2) % 256

RtsGoesTo(stack, sp) ==
    (stack[(sp + 1) % 256] + 256 * stack[(sp + 2) % 256] + 1) % 65536

-----------------------------------------------------------------------------
(***************************************************************************)
(* Properties, over inputs that a model gives.                             *)
(***************************************************************************)
Occurrences(memory, start, length, pattern) ==
    {a \in start .. start + length - Len(pattern) :
        /\ a + Len(pattern) <= AddressSpace
        /\ \A j \in 1 .. Len(pattern) : memory[a + j - 1] = pattern[j]}

(* The search returns the first occurrences, each once, however they       *)
(* overlap and wherever the window ends, and says that it was clipped just *)
(* when there are more (find_bytes).                                       *)
FindsFirst(found, there, limit) ==
    LET taken == {found.matches[i] : i \in 1 .. Len(found.matches)}
    IN  /\ taken \subseteq there
        /\ \A a \in taken, b \in there : b < a => b \in taken
        /\ \A i, j \in 1 .. Len(found.matches) : i < j => found.matches[i] < found.matches[j]
        /\ IF found.truncated THEN taken # there /\ Len(found.matches) = limit
           ELSE taken = there

(* A symbol with offsets is where adding them up leads, hyphens in the     *)
(* symbol or not; and what pc_symbol writes for an address reads as that   *)
(* address again (parse_ref, nearest).                                     *)
Term(v) == IF v < 0 THEN <<Minus, Number(-v)>> ELSE <<Plus, Number(v)>>

AddsUp(labels, name, d, e) ==
    ParseRef(labels, name \o Term(d) \o Term(e)) = {labels[name] + d + e}

ReadsBack(labels, addr) ==
    \A text \in PcSymbol(labels, addr) : ParseRef(labels, text) = {addr}

(* A window with an address in it and short of all of memory is answered;  *)
(* and what a search of any window but all of memory answers is right.     *)
AnswersRight(memory, start, length, pattern, limit) ==
    LET n       == Window(start, length)
        answers == FindBytes(memory, start, length, pattern, limit)
    IN  /\ n \in 1 .. AddressSpace - 1 => answers # {}
        /\ n # AddressSpace =>
             \A found \in answers :
                FindsFirst(found, Occurrences(memory, start, length, pattern), limit)

(* Every memory, patterns that overlap themselves, windows that end at and *)
(* beyond the last address, and windows of no address, which may only fail:*)
(* short of all of memory the search is right (find_bytes).                *)
SearchIsExact ==
    \A memory \in [0 .. AddressSpace - 1 -> Values], start \in 0 .. AddressSpace - 1,
       length \in 0 .. AddressSpace + 1, pattern \in Patterns, limit \in Limits :
        AnswersRight(memory, start, length, pattern, limit)

(* The search of all of memory, the default, is right too (docs/cli.md:233,*)
(* "Defaults: `--start $0000`, `--length $10000` (clamped to the 64 KB     *)
(* space)").                                                               *)
WholeSearchIsExact ==
    \A memory \in [0 .. AddressSpace - 1 -> Values], pattern \in Patterns, limit \in Limits :
        \A found \in FindBytes(memory, 0, AddressSpace, pattern, limit) :
            FindsFirst(found, Occurrences(memory, 0, AddressSpace, pattern), limit)

(* Labels with and without a hyphen, at one address or apart, addresses on *)
(* both sides of a page's reach: references mean what they say             *)
(* (parse_ref, nearest).                                                   *)
ReferencesRead ==
    \A labels \in LabelMaps :
        /\ \A name \in DOMAIN labels, d, e \in Addends : AddsUp(labels, name, d, e)
        /\ \A addr \in Addresses : ReadsBack(labels, addr)

(* Wherever the stack pointer is, 0 and 1 included, and whatever the trap, *)
(* 0 included, the routine's own RTS ends at the trap, and the frame has   *)
(* overwritten no other byte of the stack (call_routine).                  *)
RoutinesLand ==
    \A fill \in Values, sp \in 0 .. 255, trap \in Traps :
        LET stack == [i \in 0 .. 255 |-> fill]
            after == Pushed(stack, sp, trap)
        IN  /\ RtsGoesTo(after, Lowered(sp)) = trap
            /\ \A i \in 0 .. 255 : i \notin {sp, (sp - 1) % 256} => after[i] = stack[i]
=============================================================================
