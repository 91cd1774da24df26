------------------------------ MODULE GeaStart ------------------------------
(****************************************************************************)
(* gea_start -i and -c (gea/src/utils/gea_start.cc): commands are read from *)
(* a descriptor in small pieces, by a handler of the event loop, and every  *)
(* complete one starts a module.                                            *)
(*                                                                          *)
(* Bytes fall into four classes: "d" (newline and semicolon), "#", " "      *)
(* (blank and tab) and "c" (any other).  The input is a text: no NUL bytes. *)
(****************************************************************************)
EXTENDS Integers, Sequences, FiniteSets

CONSTANTS Inputs,  \* the texts the descriptor may deliver
          bsize    \* the size of the read buffer

Bytes == {"d", "#", " ", "c"}

ASSUME InputAssumption == Inputs \subseteq Seq(Bytes) /\ bsize \in Nat \ {0}

VARIABLES input,    \* the text of this execution
          pos,      \* bytes of it read so far
          line,     \* the static buffer up to its NUL
          length,   \* the static variable
          eof,      \* how read ended: "no", "end" (it returned 0) or "error"
          pc,       \* "off", "wait" (registered), "split" (in new_input), "closed"
          parsed,   \* what parse_cmd was given so far, each with a delimiter
          started   \* the commands that reached run_gea_main

vars == <<input, pos, line, length, eof, pc, parsed, started>>

Init == /\ input \in Inputs
        /\ pos = 0 /\ line = <<>> /\ length = 0 /\ eof = "no"
        /\ pc = "off"
        /\ parsed = <<>> /\ started = <<>>

\* interactive: the first waitFor.
interactive ==
    /\ pc = "off"
    /\ pc' = "wait"
    /\ UNCHANGED <<input, pos, line, length, eof, parsed, started>>

\* new_input after a timeout: waitFor once more.
timedOut ==
    /\ pc = "wait"
    /\ UNCHANGED vars

\* A slip: the piece replaces what was left of the last one.
Appended_Overwrites(buf) ==
    /\ line' = buf
    /\ length' = Len(buf)
    /\ pc' = "split"

\* realloc, memcpy and the new length.
Appended(buf) ==
    /\ line' = SubSeq(line, 1, length) \o buf
    /\ length' = length + Len(buf)
    /\ pc' = "split"

\* new_input: read returns n bytes, at most what there is.
new_input(n) ==
    /\ pc = "wait"
    /\ pos + n <= Len(input)
    /\ pos' = pos + n
    /\ Appended(SubSeq(input, pos + 1, pos + n))
    /\ UNCHANGED <<input, eof, parsed, started>>

\* A slip: only -1 is the end, 0 is a piece without bytes.
endOfInput_NotAtZero(why) ==
    /\ pc = "wait"
    /\ why = "end" => pos = Len(input)
    /\ eof' = IF why = "end" THEN "no" ELSE why
    /\ Appended(IF why = "end" THEN <<>> ELSE <<"d">>)
    /\ UNCHANGED <<input, pos, parsed, started>>

\* new_input: read returns 0, or -1 before the end; either way a newline is faked.
endOfInput(why) ==
    /\ pc = "wait"
    /\ why = "end" => pos = Len(input)
    /\ eof' = why
    /\ Appended(<<"d">>)
    /\ UNCHANGED <<input, pos, parsed, started>>

\* A slip: every command is a module.
Starts_Always(cmd) == cmd # <<>>

\* parse_cmd: comments and blank commands start nothing.
Starts(cmd) == /\ cmd # <<>>
               /\ cmd[1] # "#"
               /\ \E i \in 1..Len(cmd) : cmd[i] # " "

\* strpbrk(line, "\n;")
IsFirstDelim(d) == /\ d \in 1..Len(line)
                   /\ line[d] = "d"
                   /\ \A i \in 1..d - 1 : line[i] # "d"

\* A slip: the length of the rest is one too small.
split_OffByOne(d) ==
    /\ pc = "split"
    /\ IsFirstDelim(d)
    /\ parsed' = parsed \o SubSeq(line, 1, d)
    /\ line' = SubSeq(line, d + 1, Len(line))
    /\ length' = length - d - 1
    /\ UNCHANGED <<input, pos, eof, pc, started>>

\* One round of the loop over the commands in the buffer.
split(d) ==
    /\ pc = "split"
    /\ IsFirstDelim(d)
    /\ parsed' = parsed \o SubSeq(line, 1, d)
    /\ started' = IF Starts(SubSeq(line, 1, d - 1))
                  THEN Append(started, SubSeq(line, 1, d - 1)) ELSE started
    /\ line' = SubSeq(line, d + 1, Len(line))
    /\ length' = length - d
    /\ UNCHANGED <<input, pos, eof, pc>>

\* A slip: only the first command of a piece is taken.
finish_Early ==
    /\ pc = "split"
    /\ pc' = IF eof = "no" THEN "wait" ELSE "closed"
    /\ UNCHANGED <<input, pos, line, length, eof, parsed, started>>

\* A slip: an empty buffer is taken for the end.
finish_WhenEmpty ==
    /\ pc = "split"
    /\ \A d \in 1..Len(line) : line[d] # "d"
    /\ pc' = IF line # <<>> THEN "wait" ELSE "closed"
    /\ UNCHANGED <<input, pos, line, length, eof, parsed, started>>

\* The end of new_input: close the descriptor or wait for more.
finish ==
    /\ pc = "split"
    /\ \A d \in 1..Len(line) : line[d] # "d"
    /\ pc' = IF eof = "no" THEN "wait" ELSE "closed"
    /\ UNCHANGED <<input, pos, line, length, eof, parsed, started>>

Next == \/ interactive \/ timedOut \/ finish
        \/ \E why \in {"end", "error"} : endOfInput(why)
        \/ \E n \in 1..bsize : new_input(n)
        \/ \E d \in 1..Len(line) : split(d)

Spec == Init /\ [][Next]_vars

\* The event loop serves a readable descriptor, and a handler comes to its end.
\* Nothing says that read must fail.
FairSpec == /\ Spec
            /\ WF_vars(interactive)
            /\ WF_vars(\E n \in 1..bsize : new_input(n))
            /\ WF_vars(endOfInput("end"))
            /\ WF_vars(finish)
            /\ WF_vars(\E d \in 1..Len(line) : split(d))
-----------------------------------------------------------------------------
TypeOK == /\ input \in Inputs
          /\ pos \in 0..Len(input)
          /\ line \in Seq(Bytes) /\ parsed \in Seq(Bytes)
          /\ started \in Seq(Seq(Bytes))
          /\ length \in Nat
          /\ eof \in {"no", "end", "error"}
          /\ pc \in {"off", "wait", "split", "closed"}

\* What the descriptor has delivered, with the line end new_input adds.
Consumed == SubSeq(input, 1, pos) \o (IF eof = "no" THEN <<>> ELSE <<"d">>)

\* new_input: however the text is cut into pieces, what was parsed and what is
\* still in the buffer are the bytes read so far, none lost, doubled or moved,
\* and length is the string length that realloc and malloc rely on.
NothingLost == parsed \o line = Consumed /\ length = Len(line)

\* new_input: no complete command is left in the buffer while the loop waits for
\* more input, and nothing at all once the descriptor is closed.
NoneLeftBehind ==
    /\ pc = "wait" => \A i \in 1..Len(line) : line[i] # "d"
    /\ pc = "closed" => line = <<>>

\* The commands of a text: what stands between two delimiters, in order, without
\* comments and blank ones.
CommandAt(text, e) ==
    SubSeq(text, 1 + (CHOOSE s \in 0..e - 1 : /\ s # 0 => text[s] = "d"
                                             /\ \A r \in s + 1..e - 1 : text[r] # "d"), e - 1)

NamesModule(cmd) ==
    {"c", "#"} \cap {cmd[i] : i \in 1..Len(cmd)} # {} /\ cmd[1] # "#"

CommandEnds(text) ==
    {e \in 1..Len(text) : text[e] = "d" /\ NamesModule(CommandAt(text, e))}

Nth(S, k) == CHOOSE e \in S : Cardinality({r \in S : r <= e}) = k

Commands(text) ==
    [k \in 1..Cardinality(CommandEnds(text)) |-> CommandAt(text, Nth(CommandEnds(text), k))]

\* parse_cmd: the modules started are those the text read so far names, in its
\* order, each once; pieces of commands start nothing.
StartedInOrder == pc \in {"wait", "closed"} => started = Commands(Consumed)

\* The code has no bound on its loops: while (strpbrk) goes on as long as there are
\* delimiters, and new_input registers itself again.  Every step but the timeout
\* uses something up, of the bytes to be read, the buffer, or the way to the end.
Left == 3 * (Len(input) - pos + IF eof = "no" THEN 1 ELSE 0) + Len(line)
            + (IF pc \in {"off", "split"} THEN 1 ELSE 0)
ReaderEnds == [][Left' < Left]_vars

\* Every command of the text is started in the end, unless read fails.
AllStarted == <>(pc = "closed" /\ (eof = "error" \/ started = Commands(input \o <<"d">>)))
=============================================================================
