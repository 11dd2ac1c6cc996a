----------------------------- MODULE Protocols ------------------------------
(***************************************************************************)
(* The two protocols that clients speak: what sd_journal_sendv() makes of  *)
(* fields (lib/journal-send.c) and what core/journald-native.c reads from  *)
(* it, and what core/journald-syslog.c reads from a line of syslog(3).     *)
(*                                                                         *)
(* Text is a sequence of tokens: "nl", "=" and " " are the characters the  *)
(* code looks for, digits are tokens, a name or a word is one token, and   *)
(* so is the 64 bit length of a binary field.                              *)
(***************************************************************************)
EXTENDS Integers, Sequences, SequencesExt

CONSTANTS Names,      \* names of fields that clients may set
          Program     \* program_invocation_short_name

LOG_INFO == 6
LOG_USER == 8

\* LOG_PRI(), and the rest
Level(priority) == priority % 8
Facility(priority) == (priority \div 8) * 8

\* memchr(): where t is in s; 0 if nowhere
Find(s, t) == SelectInSeq(s, LAMBDA x : x = t)

From(s, i) == SubSeq(s, i, Len(s))

Digits == <<"0", "1", "2", "3", "4", "5", "6", "7", "8", "9">>
IsDigit(t) == t \in Range(Digits)
Undecchar(t) == Find(Digits, t) - 1

\* htole64(), le64toh(): 8 bytes, of which no other token is the beginning
Lengths == <<"len0", "len1", "len2", "len3", "len4", "len5", "len6", "len7", "len8", "len9">>
Htole64(n) == Lengths[n + 1]
Le64toh(t) == Find(Lengths, t) - 1

-----------------------------------------------------------------------------
(* lib/journal-send.c                                                      *)

\* sd_journal_sendv() refuses a field without name, and a name with a newline.
Sendable(f) ==
    LET c == Find(f, "=") IN Len(f) > 1 /\ c > 1 /\ Find(SubSeq(f, 1, c), "nl") = 0

\* Mutant: a newline in a value is not looked for.
EncodeFieldAsLine(f) == Append(f, "nl")

\* A field as a line, or, if its value has a newline, as a name and a block.
EncodeField(f) ==
    LET c == Find(f, "=") IN
    IF Find(f, "nl") = 0 THEN Append(f, "nl")
    ELSE SubSeq(f, 1, c - 1) \o <<"nl", Htole64(Len(f) - c)>> \o From(f, c + 1) \o <<"nl">>

HasIdentifier(iov) == \E i \in DOMAIN iov : iov[i][1] = "SYSLOG_IDENTIFIER"
Complete(iov) ==
    IF HasIdentifier(iov) THEN iov ELSE Append(iov, <<"SYSLOG_IDENTIFIER", "=", Program>>)

\* The datagram that sd_journal_sendv() sends
Sendv(iov) ==
    LET all == Complete(iov)
    IN  FlattenSeq([i \in DOMAIN all |-> EncodeField(all[i])])

\* sd_journal_printv()
JournalPrintv(priority, text) == <<<<"MESSAGE", "=">> \o text, <<"PRIORITY", "=", Digits[priority + 1]>>>>

-----------------------------------------------------------------------------
(* core/journald-native.c                                                  *)

\* valid_user_field(), for names that clients may not set protected fields with
ValidUserField(name) == Len(name) = 1 /\ name[1] \in Names

\* What a line tells about the priority
PriorityOf(priority, f) ==
    LET n == FoldLeft(LAMBDA v, d : (10 * v) + Undecchar(d), 0, From(f, 3))
        digits == \A i \in 3 .. Len(f) : IsDigit(f[i])
    IN  CASE f[1] = "PRIORITY" /\ Len(f) = 3 /\ digits ->
               IF n < 8 THEN Facility(priority) + n ELSE (Facility(priority) \div 16) * 16 + n
          [] f[1] = "SYSLOG_FACILITY" /\ Len(f) \in {3, 4} /\ digits -> Level(priority) + 8 * n
          [] OTHER -> priority

\* One property, as a line
TextProperty(r, f) ==
    IF ~ValidUserField(SubSeq(f, 1, Find(f, "=") - 1)) THEN r
    ELSE [r EXCEPT !.fields = Append(@, f), !.priority = PriorityOf(@, f),
                   !.message = IF f[1] = "MESSAGE" THEN From(f, 3) ELSE @,
                   !.identifier = IF f[1] = "SYSLOG_IDENTIFIER" /\ Len(f) > 2 THEN From(f, 3) ELSE @]

\* A name and a block: an error ends the datagram.
BinaryLen(p, e) == Le64toh(p[e + 1])
BinaryFits(p, e) ==
    /\ Len(p) >= e + 2
    /\ Len(p) >= e + 2 + BinaryLen(p, e)
    /\ p[e + 2 + BinaryLen(p, e)] = "nl"
BinaryProperty(r, p, e) ==
    LET name == SubSeq(p, 1, e - 1) IN
    IF ~ValidUserField(name) THEN r
    ELSE [r EXCEPT !.fields = Append(@, name \o <<"=">> \o SubSeq(p, e + 2, e + 1 + BinaryLen(p, e)))]

Dispatched(r, transport) ==
    [r EXCEPT !.entries = Append(@, [fields |-> r.fields, priority |-> r.priority,
                                     transport |-> transport])]

\* One turn of the loop of server_process_native_message(): s.p is what remains.
NativeTurn(s) ==
    LET p == s.p
        e == Find(p, "nl")
        then(r, rest) == [r |-> r, p |-> rest]
    IN
    IF e = 0 THEN then(s.r, <<>>)
    ELSE IF e = 1
    THEN then([Dispatched(s.r, "") EXCEPT !.fields = <<>>, !.priority = LOG_INFO], Tail(p))
    ELSE IF p[1] \in {".", "#"} THEN then(s.r, From(p, e + 1))
    ELSE IF Find(SubSeq(p, 1, e - 1), "=") # 0
    THEN then(TextProperty(s.r, SubSeq(p, 1, e - 1)), From(p, e + 1))
    ELSE IF BinaryFits(p, e)
    THEN then(BinaryProperty(s.r, p, e), From(p, e + 3 + BinaryLen(p, e)))
    ELSE then(s.r, <<>>)

\* The loop: every turn takes a token at least.
NativeLoop(r, p) ==
    LET turn[n \in 0 .. Len(p)] ==
          IF n = 0 THEN [r |-> r, p |-> p] ELSE NativeTurn(turn[n - 1])
    IN  turn[Len(p)].r

NativeStart == [fields |-> <<>>, priority |-> LOG_INFO, message |-> <<>>, identifier |-> <<>>,
                entries |-> <<>>]

\* server_process_native_message(): the entries, and what is forwarded.
NativeMessage(p) ==
    LET r == NativeLoop(NativeStart, p) IN
    IF r.fields = <<>> THEN [entries |-> r.entries, forward |-> <<>>]
    ELSE [entries |-> Dispatched(r, "journal").entries,
          forward |-> IF r.message = <<>> THEN <<>>
                      ELSE <<[priority |-> r.priority, identifier |-> r.identifier,
                              message |-> r.message]>>]

-----------------------------------------------------------------------------
(* core/journald-syslog.c                                                  *)

\* syslog_parse_priority(), facility included: the priority and what follows
ParsePriority(b) ==
    LET k == CHOOSE i \in {0, 3, 4, 5} :
               IF \E j \in {3, 4, 5} : j <= Len(b) /\ b[j] = ">"
               THEN i # 0 /\ i <= Len(b) /\ b[i] = ">" /\ \A j \in 3 .. i - 1 : b[j] # ">"
               ELSE i = 0
        digits == SubSeq(b, 2, k - 1)
    IN  IF b = <<>> \/ b[1] # "<" \/ k = 0 \/ \E i \in DOMAIN digits : ~IsDigit(digits[i])
        THEN [priority |-> LOG_USER + LOG_INFO, rest |-> b]
        ELSE [priority |-> FoldLeft(LAMBDA n, d : (10 * n) + Undecchar(d), 0, digits), rest |-> From(b, k + 1)]

\* syslog_skip_date(): a date is one token.
SkipDate(b) == IF b # <<>> /\ b[1] = "date" THEN Tail(b) ELSE b

\* Leading whitespace
Strip(b) == From(b, SelectInSeq(Append(b, "end"), LAMBDA t : t # " "))

\* syslog_parse_identifier(): "word[pid]:", or "word:", up to whitespace
ParseIdentifier(b) ==
    LET p == Strip(b)
        l == Find(Append(p, " "), " ") - 1
        w == SubSeq(p, 1, l - 1)
        k == SelectLastInSeq(w, LAMBDA t : t = "[")
    IN  IF l <= 0 \/ p[l] # ":" THEN [identifier |-> <<>>, pid |-> <<>>, rest |-> b]
        ELSE IF w # <<>> /\ Last(w) = "]" /\ k > 0
        THEN [identifier |-> SubSeq(w, 1, k - 1), pid |-> SubSeq(w, k + 1, Len(w) - 1),
              rest |-> Strip(From(p, l + 1))]
        ELSE [identifier |-> w, pid |-> <<>>, rest |-> Strip(From(p, l + 1))]

\* server_process_syslog_message(): the entry, and what is forwarded, which is the
\* line as it came.
SyslogMessage(line) ==
    LET b  == Strip(line)
        pr == ParsePriority(b)
        id == ParseIdentifier(SkipDate(pr.rest))
    IN  [entries |-> <<[fields |-> id, priority |-> pr.priority, transport |-> "syslog"]>>,
         forward |-> <<[priority |-> pr.priority, identifier |-> <<>>, message |-> b]>>]

\* External: what syslog(3) sends for a priority, a word, a process id and a text.
Decimal(n) ==
    LET d(k) == Digits[k + 1]
    IN  IF n < 10 THEN <<d(n)>>
        ELSE IF n < 100 THEN <<d(n \div 10), d(n % 10)>>
        ELSE <<d(n \div 100), d((n \div 10) % 10), d(n % 10)>>
SyslogLine(m) ==
    <<"<">> \o Decimal(m.priority) \o <<">", "date">> \o m.word
      \o (IF m.pid = <<>> THEN <<>> ELSE <<"[">> \o m.pid \o <<"]">>) \o <<":", " ">> \o m.text
=============================================================================
