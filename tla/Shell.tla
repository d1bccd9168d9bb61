------------------------------- MODULE Shell --------------------------------
(***************************************************************************)
(* The shell, user/bin/sh.c: the line editor with history and completion,  *)
(* and the parser, which works in place in the line's buffer.  What is     *)
(* drawn on the terminal is left out.                                      *)
(*                                                                         *)
(* A line is a sequence of bytes, of which the editor tells apart blanks,  *)
(* quotes, slashes and the continuation bytes of UTF-8.                    *)
(***************************************************************************)
EXTENDS Integers, Sequences, FiniteSets, SequencesExt, FiniteSetsExt

CONSTANTS
    nbuf,              \* size of the line's buffer
    HISTSIZE, MAXARGS, DIRSIZ,
    Chars,             \* characters that can be typed, as sequences of bytes
    Blanks, Quotes, Conts, SLASH, NL, NUL,    \* bytes
    Names, Commands,   \* file_entry() and command_entry() names of the directory
    MaxKeys            \* bound on the keys typed

ASSUME ShellAssumption ==
    /\ nbuf \in Nat /\ HISTSIZE \in Nat /\ MAXARGS \in Nat /\ DIRSIZ \in Nat /\ MaxKeys \in Nat
    /\ nbuf > 1 /\ HISTSIZE > 0 /\ MAXARGS > 0
    /\ NL \in Blanks
    /\ \A s \in Chars : s # <<>> /\ \A k \in 1 .. Len(s) : s[k] \in Conts <=> k > 1
    /\ Commands \subseteq Names
    /\ \A n \in Names : n # <<>> /\ Range(n) \cap (Blanks \cup Quotes \cup {SLASH, NUL}) = {}

VARIABLES
    buf, cursor,       \* the line up to len; cursor from 0 to len
    history,
    hpos, saved, draft,
    raw,               \* the console's mode
    argv,              \* the strings parsecmd() returns
    keys,              \* keys typed
    pc

line == <<buf, cursor, hpos, saved, draft>>
vars == <<line, history, raw, argv, keys, pc>>

Init ==
    /\ buf = <<>> /\ cursor = 0
    /\ history = <<>>
    /\ hpos = 0 /\ saved = FALSE /\ draft = <<>>
    /\ raw = FALSE
    /\ argv = <<>>
    /\ keys = 0
    /\ pc = "main"

----------------------------------------------------------------------------
(* utf8.c: positions are counted from 0 *)

(* Wrong variant: one byte at a time. *)
utf8_next_byte(s, pos) == IF pos >= Len(s) THEN Len(s) ELSE pos + 1

utf8_next(s, pos) ==
    IF pos >= Len(s) THEN Len(s)
    ELSE Min({k \in pos + 1 .. Len(s) : k = Len(s) \/ s[k + 1] \notin Conts})

utf8_prev(s, pos) ==
    IF pos <= 0 THEN 0
    ELSE Max({k \in 0 .. pos - 1 : k = 0 \/ s[k + 1] \notin Conts})

----------------------------------------------------------------------------
(* Changing the line *)

Fits(n) == Len(buf) + n < nbuf

insert_bytes(s) ==
    IF Fits(Len(s))
    THEN /\ buf' = SubSeq(buf, 1, cursor) \o s \o SubSeq(buf, cursor + 1, Len(buf))
         /\ cursor' = cursor + Len(s)
    ELSE UNCHANGED <<buf, cursor>>

delete_range(start, end) ==
    buf' = SubSeq(buf, 1, start) \o SubSeq(buf, end + 1, Len(buf))

set_line(s) ==
    /\ buf' = SubSeq(s, 1, Min({Len(s), nbuf - 1}))
    /\ cursor' = Len(buf')

----------------------------------------------------------------------------
(* getcmd(): one action for each key, while there is room *)

getcmd ==
    /\ pc = "main"
    /\ raw' = TRUE
    /\ buf' = <<>> /\ cursor' = 0
    /\ hpos' = Len(history) /\ saved' = FALSE /\ draft' = <<>>
    /\ pc' = "getcmd"
    /\ UNCHANGED <<history, argv, keys>>

Reading == pc = "getcmd" /\ Len(buf) + 1 < nbuf

Key ==
    /\ Reading
    /\ keys < MaxKeys
    /\ keys' = keys + 1
    /\ UNCHANGED <<history, raw, argv, pc>>

Up ==
    /\ Key
    /\ hpos > 0
    /\ draft' = IF saved THEN draft ELSE buf
    /\ saved' = TRUE
    /\ hpos' = hpos - 1
    /\ set_line(history[hpos])

Down ==
    /\ Key
    /\ hpos < Len(history)
    /\ hpos' = hpos + 1
    /\ set_line(IF hpos + 1 = Len(history) THEN draft ELSE history[hpos + 2])
    /\ UNCHANGED <<saved, draft>>

Right == Key /\ cursor' = utf8_next(buf, cursor) /\ UNCHANGED <<buf, hpos, saved, draft>>

Left == Key /\ cursor' = utf8_prev(buf, cursor) /\ UNCHANGED <<buf, hpos, saved, draft>>

Delete ==
    /\ Key
    /\ cursor < Len(buf)
    /\ delete_range(cursor, utf8_next(buf, cursor))
    /\ UNCHANGED <<cursor, hpos, saved, draft>>

Backspace ==
    /\ Key
    /\ cursor > 0
    /\ delete_range(utf8_prev(buf, cursor), cursor)
    /\ cursor' = utf8_prev(buf, cursor)
    /\ UNCHANGED <<hpos, saved, draft>>

KillLine == Key /\ buf' = <<>> /\ cursor' = 0 /\ UNCHANGED <<hpos, saved, draft>>

Type(s) == Key /\ insert_bytes(s) /\ UNCHANGED <<hpos, saved, draft>>

(* Completion: where the token begins, without its quote. *)
token_start ==
    Max({k \in 0 .. cursor : k = 0 \/ buf[k] \in Blanks})

Quoted == token_start < Len(buf) /\ buf[token_start + 1] \in Quotes

prefix_start == IF Quoted THEN token_start + 1 ELSE token_start

(* -1 if the cursor is on the quote that begins the token. *)
token_len == cursor - prefix_start

Prefix == SubSeq(buf, prefix_start + 1, cursor)

first_token == \A k \in 1 .. token_start : buf[k] \in Blanks

Candidates == IF first_token THEN Commands ELSE Names

(* Wrong variant: any of several will do. *)
MatchesAny == {n \in Candidates : IsPrefix(Prefix, n) /\ n = CHOOSE x \in Candidates : IsPrefix(Prefix, x)}

Matches == {n \in Candidates : IsPrefix(Prefix, n)}

(* The cursor is at the end of a token, or on its quote. *)
CanComplete ==
    /\ cursor < Len(buf) => buf[cursor + 1] \in Blanks \cup Quotes
    /\ Quoted /\ cursor < Len(buf) => buf[cursor + 1] = buf[token_start + 1]
    /\ token_len < DIRSIZ
    /\ SLASH \notin Range(Prefix)

(* What is left of the name n: match + token_len, which for -1 begins with *)
(* whatever byte lies before match, and is empty if that is NUL.           *)
Suffix(n) ==
    IF token_len >= 0 THEN {SubSeq(n, token_len + 1, Len(n))}
    ELSE {<<>>} \cup {<<b>> \o n : b \in Blanks \cup Quotes \cup Conts \cup {SLASH}}

Tab ==
    /\ Key
    /\ IF CanComplete /\ Cardinality(Matches) = 1
       THEN \E n \in Matches : \E s \in Suffix(n) : insert_bytes(s)
       ELSE UNCHANGED <<buf, cursor>>
    /\ UNCHANGED <<hpos, saved, draft>>

----------------------------------------------------------------------------
(* The end of getcmd() *)

(* Wrong variant: the newline is kept. *)
save_history_nl(s) == history' = Append(history, s)

save_history(s) ==
    LET n == Len(s)
        l == IF n > 0 /\ s[n] = NL THEN SubSeq(s, 1, n - 1) ELSE s
        h == IF Len(history) = HISTSIZE THEN Tail(history) ELSE history
    IN  history' = IF \/ \A k \in 1 .. Len(l) : l[k] \in Blanks
                      \/ history # <<>> /\ Last(history) = l
                   THEN history ELSE Append(h, l)

Submit(s) ==
    /\ buf' = s
    /\ save_history(s)
    /\ raw' = FALSE
    /\ pc' = "parse"
    /\ UNCHANGED <<cursor, hpos, saved, draft, argv, keys>>

Enter == Reading /\ Submit(Append(buf, NL))

(* The buffer is full: the line ends without Enter. *)
Full == pc = "getcmd" /\ ~Reading /\ Submit(buf)

(* Control-D.  read() fails only in a process that is being killed, which  *)
(* does not come back from it.                                             *)
End == Reading /\ raw' = FALSE /\ pc' = "exit" /\ UNCHANGED <<line, history, argv, keys>>

----------------------------------------------------------------------------
(* parsecmd(): mem is the buffer, positions are counted from 1 *)

RECURSIVE Token(_, _, _, _)

(* Copies a token from src to dst; q is the quote it is in, or NUL. *)
Token(mem, src, dst, q) ==
    LET b == mem[src]
    IN  CASE b = NUL \/ (q = NUL /\ b \in Blanks) -> [mem |-> mem, src |-> src, dst |-> dst]
          [] b # NUL /\ q # NUL /\ b = q -> Token(mem, src + 1, dst, NUL)
          [] b # NUL /\ q = NUL /\ b \in Quotes -> Token(mem, src + 1, dst, b)
          [] OTHER -> Token([mem EXCEPT ![dst] = b], src + 1, dst + 1, q)

(* Wrong variant: the blank after a token is not skipped. *)
AfterTokenBlank(mem, src) == src

AfterToken(mem, src) == IF mem[src] \in Blanks THEN src + 1 ELSE src

RECURSIVE Tokens(_, _, _, _)

(* The loop of parsecmd(): args has the positions in argv. *)
Tokens(mem, src, dst, args) ==
    LET s == Min({k \in src .. Len(mem) : mem[k] \notin Blanks})
        t == Token(mem, s, dst, NUL)
    IN  IF mem[s] = NUL THEN [panic |-> FALSE, mem |-> mem, args |-> args]
        ELSE IF Len(args) >= MAXARGS - 1 THEN [panic |-> TRUE, mem |-> mem, args |-> args]
        ELSE Tokens([t.mem EXCEPT ![t.dst] = NUL], AfterToken(t.mem, t.src), t.dst + 1,
                    Append(args, dst))

String(mem, a) == SubSeq(mem, a, Min({k \in a .. Len(mem) : mem[k] = NUL}) - 1)

parsecmd ==
    LET r == Tokens(buf \o [k \in 1 .. nbuf - Len(buf) |-> NUL], 1, 1, <<>>)
    IN  /\ pc = "parse"
        /\ argv' = IF r.panic THEN <<>> ELSE [k \in 1 .. Len(r.args) |-> String(r.mem, r.args[k])]
        /\ pc' = IF r.panic THEN "exit" ELSE IF r.args = <<>> THEN "main" ELSE "fork"
        /\ UNCHANGED <<line, history, raw, keys>>

(* fork1(), and wait() for the command; or the shell exits. *)
RunCommand ==
    /\ pc = "fork"
    /\ pc' \in {"main", "exit"}
    /\ UNCHANGED <<line, history, raw, argv, keys>>

Next ==
    \/ getcmd \/ Up \/ Down \/ Right \/ Left \/ Delete \/ Backspace \/ KillLine \/ Tab
    \/ \E s \in Chars : Type(s)
    \/ Enter \/ Full \/ End \/ parsecmd \/ RunCommand

Spec == Init /\ [][Next]_vars

----------------------------------------------------------------------------
(* Every byte of a character that can be typed is part of such a one in s. *)
Whole(s) ==
    \A k \in 1 .. Len(s) :
        s[k] \in UNION {Range(c) : c \in Chars} =>
            \E c \in Chars, j \in 1 .. k :
                j + Len(c) \in k + 1 .. Len(s) + 1 /\ SubSeq(s, j, j + Len(c) - 1) = c

(* However a line is edited and wherever it comes from, it fits the buffer *)
(* together with its NUL, as does the draft kept of it, and the cursor is  *)
(* between two characters of it: no key leaves half a character behind.    *)
LineSound ==
    /\ Len(buf) < nbuf /\ Len(draft) < nbuf
    /\ cursor \in 0 .. Len(buf)
    /\ Whole(SubSeq(buf, 1, cursor)) /\ Whole(SubSeq(buf, cursor + 1, Len(buf)))

(* The history has at most HISTSIZE lines, each of which fits the buffer,  *)
(* is not blank and not the same as the one before, and has no newline;    *)
(* the line shown is one of them or the one after the last.                *)
HistorySound ==
    /\ Len(history) <= HISTSIZE /\ hpos \in 0 .. Len(history)
    /\ \A k \in 1 .. Len(history) :
           /\ Len(history[k]) < nbuf
           /\ NL \notin Range(history[k])
           /\ \E b \in Range(history[k]) : b \notin Blanks
           /\ k > 1 => history[k] # history[k - 1]

(* A completed token is a name, and the only one that begins with what was *)
(* typed of it.                                                            *)
CompletesToName ==
    [][Tab => \/ UNCHANGED buf
              \/ /\ Prefix' \in Candidates
                 /\ \A n \in Candidates : IsPrefix(Prefix, n) => n = Prefix']_vars

(* The words of a line: a reference for parsecmd(). *)
Word(w, b) ==
    CASE w.q # NUL -> IF b = w.q THEN [w EXCEPT !.q = NUL] ELSE [w EXCEPT !.cur = Append(@, b)]
      [] w.q = NUL /\ b \in Quotes -> [w EXCEPT !.q = b, !.in = TRUE]
      [] w.q = NUL /\ b \in Blanks ->
             IF w.in THEN [q |-> NUL, in |-> FALSE, cur |-> <<>>, out |-> Append(w.out, w.cur)] ELSE w
      [] OTHER -> [w EXCEPT !.cur = Append(@, b), !.in = TRUE]

Words(s) ==
    LET w == FoldLeft(Word, [q |-> NUL, in |-> FALSE, cur |-> <<>>, out |-> <<>>], s)
    IN  IF w.in THEN Append(w.out, w.cur) ELSE w.out

(* parsecmd(), which writes the words over the line it reads, finds the    *)
(* line's words, quotes removed, if argv has room for them and a null      *)
(* pointer; the shell exits there only if it has not.                      *)
ParsesWords ==
    [][pc = "parse" => IF Len(Words(buf)) < MAXARGS
                       THEN argv' = Words(buf) /\ pc' # "exit"
                       ELSE pc' = "exit"]_vars
=============================================================================
