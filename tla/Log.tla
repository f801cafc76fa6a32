--------------------------------- MODULE Log ---------------------------------
(***************************************************************************)
(* The log: a line is numbered, redacted and put in the ring under the     *)
(* log's lock, and goes to the file after it; the file rotates at its cap; *)
(* a dying process appends one line with no lock at all.                   *)
(*                                                                         *)
(* A line's detail is a sequence of lexical tokens, which is what the      *)
(* redaction tells apart: "sec" is a stretch of a credential's bytes,      *)
(* "key" a name in kSecretKeys, "col" a colon or an equals sign.  Past the *)
(* redaction a line is its ordinal, its size and whether a credential is   *)
(* still in it.                                                            *)
(***************************************************************************)
EXTENDS Integers, Sequences, FiniteSets, SequencesExt

CONSTANTS
    Writers,                  \* the threads that log
    kTailLines, kMaxLineBytes, kMaxFileBytes,
    Silent,                   \* a thread with no line in hand
    MaxLines, MaxCardFaults

ASSUME LogAssumption ==
    /\ {kTailLines, kMaxLineBytes, kMaxFileBytes, MaxLines} \subseteq Nat \ {0}
    /\ kMaxLineBytes <= kMaxFileBytes /\ MaxCardFaults \in Nat

VARIABLES
    logState,      \* written, ring, next, filled, enabled
    toSink,        \* per thread, the line on its way to the sink
    logFile,       \* the sink's bytes_ and measured_
    onCard,        \* the live file's lines and the rotated one's
    cardFaults, lastSaid, grown

logVars == <<logState, toSink, logFile, onCard, cardFaults, lastSaid, grown>>

--------------------------------------------------------------------------
(* Redaction.                                                              *)

Blank == {"sp"}
Quotes == {"quote"}
KeyBytes == {"key", "word", "sec", "bearer"}

\* What an unquoted value stops at.
Stops == {"sp", "comma", "quote"}

Red == "red"

Last2(text) == text[Len(text) - 1]

\* The text up to its last token that is no blank.
TrimBlank(text) ==
    SubSeq(text, 1, CHOOSE n \in 0 .. Len(text) :
                        /\ n = 0 \/ text[n] \notin Blank
                        /\ \A k \in n + 1 .. Len(text) : text[k] \in Blank)

\* The text ends in a separator, and the word before it is a secret's name.
AfterSecretKey(text) ==
    /\ text # <<>> /\ Last(text) = "col"
    /\ LET trimmed == TrimBlank(Front(text))
           named == IF trimmed # <<>> /\ Last(trimmed) \in Quotes THEN Front(trimmed) ELSE trimmed
       IN  /\ named # <<>> /\ Last(named) = "key"
           /\ Len(named) > 1 => Last2(named) \notin KeyBytes

\* A header's value, not the middle of a sentence.
StartsAValue(text) ==
    LET before == TrimBlank(text)
    IN  before = <<>> \/ Last(before) \in {"col", "comma"} \cup Quotes

AfterBearer(text) ==
    /\ Len(text) >= 2 /\ Last(text) = "sp" /\ Last2(text) = "bearer"
    /\ StartsAValue(SubSeq(text, 1, Len(text) - 2))

ValueBegins(rule, text) == IF rule = "bearer" THEN AfterBearer(text) ELSE AfterSecretKey(text)

\* One token of a text whose values are replaced where the rule says one begins:
\* copying, at the blanks before a value, in a bare one or in a quoted one.
RedactValueAt(rule, s, t) ==
    LET out == Append(s.out, t)
        copied == [out |-> out, mode |-> IF ValueBegins(rule, out) THEN "lead" ELSE "copy"]
    IN  CASE s.mode = "copy" -> copied
          [] s.mode = "lead" /\ t \in Blank -> [s EXCEPT !.out = out]
          [] s.mode = "lead" /\ t \in Quotes -> [out |-> out, mode |-> "open"]
          [] s.mode \in {"lead", "open"} /\ t \in (IF s.mode = "open" THEN Quotes ELSE Stops) -> copied
          [] s.mode = "lead" -> [out |-> Append(s.out, Red), mode |-> "bare"]
          [] s.mode = "open" -> [out |-> Append(s.out, Red), mode |-> "quoted"]
          [] s.mode = "bare" -> IF t \in Stops THEN copied ELSE s
          [] s.mode = "quoted" -> IF t \in Quotes THEN copied ELSE s

RedactValues(rule, text) ==
    FoldLeft(LAMBDA s, t : RedactValueAt(rule, s, t), [out |-> <<>>, mode |-> "copy"], text).out

RedactBearer(text) == RedactValues("bearer", text)
RedactKeyedValues(text) == RedactValues("keyed", text)

\* Everything from "://" to the last "@" of the authority.
RedactUserInfo(text) ==
    LET Authority(i) == {k \in i + 1 .. Len(text) :
                            \A n \in i + 1 .. k : text[n] \notin {"slash", "sp"}}
        Marks(i) == {k \in Authority(i) : text[k] = "at"}
        Gone == UNION {{k \in Authority(i) : \E mark \in Marks(i) : k < mark} :
                           i \in {n \in DOMAIN text : text[n] = "scheme"}}
        Step(out, k) == IF k \notin Gone THEN Append(out, text[k])
                        ELSE IF k - 1 \in Gone THEN out ELSE Append(out, Red)
    IN  FoldLeft(Step, <<>>, [k \in DOMAIN text |-> k])

\* Mutant: the keyed rule goes before the header's, and takes "Bearer" for the value.
RedactKeyedFirst(text) == RedactBearer(RedactKeyedValues(RedactUserInfo(text)))

Redact(text) == RedactKeyedValues(RedactBearer(RedactUserInfo(text)))

\* The forms a credential takes in the messages the subsystems build.
Utterances == {
    <<"word">>,
    <<"key", "col", "sec">>,
    <<"key", "sp", "col", "sp", "sec", "comma", "word">>,
    <<"quote", "key", "quote", "col", "sp", "quote", "sec", "sp", "sec", "quote">>,
    <<"key", "col", "sp", "bearer", "sp", "sec">>,
    <<"quote", "bearer", "sp", "sec", "quote">>,
    <<"key", "col", "quote", "bearer", "sp", "sec", "quote">>,
    <<"word", "scheme", "sec", "col", "sec", "at", "word", "slash", "word">>,
    <<"word", "scheme", "sec", "at", "sec", "at", "word">>,
    <<"word", "scheme", "word", "slash", "key", "col", "sec", "comma", "key", "col", "sec">>}

Details == Utterances \cup {a \o <<"sp">> \o b : a, b \in Utterances}

Leaks(text) == "sec" \in ToSet(text)

--------------------------------------------------------------------------
(* A line.                                                                 *)

\* Redacted, flattened and cut at the bound, in that order.
LineOf(detail) ==
    LET text == Redact(detail)
    IN  [leaks |-> Leaks(text), size |-> IF Len(text) < kMaxLineBytes THEN Len(text) ELSE kMaxLineBytes]

\* Of the details only what the line comes to is told apart.
Lines == {LineOf(detail) : detail \in Details}

\* Mutant: the ring stays at its last slot instead of coming round.
NextSlotStays == IF logState.next + 1 < kTailLines THEN logState.next + 1 ELSE logState.next

NextSlot == (logState.next + 1) % kTailLines

\* Two threads may take their lines here and reach the sink the other way round.
Write(w) ==
    /\ toSink[w] = Silent /\ logState.written < MaxLines
    /\ \E made \in Lines :
         LET line == [ordinal |-> logState.written + 1, leaks |-> made.leaks, size |-> made.size]
         IN  /\ logState' = [logState EXCEPT
                    !.written = @ + 1,
                    !.ring = [@ EXCEPT ![logState.next] = line],
                    !.next = NextSlot,
                    !.filled = IF @ < kTailLines THEN @ + 1 ELSE @]
             /\ toSink' = IF logState.enabled THEN [toSink EXCEPT ![w] = line] ELSE toSink
    /\ UNCHANGED <<logFile, onCard, cardFaults, lastSaid, grown>>

SetSinkEnabled ==
    /\ logState' = [logState EXCEPT !.enabled = ~@]
    /\ UNCHANGED <<toSink, logFile, onCard, cardFaults, lastSaid, grown>>

SizeOf(lines) == FoldLeft(LAMBDA n, line : n + line.size, 0, lines)

\* Mutant: the count is not taken from the file a restarted process finds.
MeasuredNever == logFile.bytes

Measured == IF logFile.measured THEN logFile.bytes ELSE SizeOf(onCard.live)

\* The live file becomes the previous one; only a rename that worked starts the
\* count again, and the previous one is gone either way.
RotateLocked ==
    {[card |-> [live |-> <<>>, old |-> onCard.live], bytes |-> 0, stuck |-> 0],
     [card |-> [onCard EXCEPT !.old = <<>>], bytes |-> Measured, stuck |-> 1]}

\* The sink takes one thread's line: rotated first if it would pass the cap, then
\* appended, unless the card would not open the file.
SinkRotates(w) ==
    /\ toSink[w] # Silent
    /\ Measured # 0 /\ Measured + toSink[w].size > kMaxFileBytes
    /\ \E turned \in RotateLocked :
         /\ cardFaults + turned.stuck <= MaxCardFaults /\ cardFaults' = cardFaults + turned.stuck
         /\ onCard' = [turned.card EXCEPT !.live = Append(@, toSink[w])]
         /\ logFile' = [measured |-> TRUE, bytes |-> turned.bytes + toSink[w].size]
         /\ grown' = (grown \/ turned.stuck = 1)
    /\ toSink' = [toSink EXCEPT ![w] = Silent]
    /\ UNCHANGED <<logState, lastSaid>>

SinkAppends(w) ==
    /\ toSink[w] # Silent
    /\ Measured = 0 \/ Measured + toSink[w].size <= kMaxFileBytes
    /\ logFile' = [measured |-> TRUE, bytes |-> Measured + toSink[w].size]
    /\ onCard' = [onCard EXCEPT !.live = Append(@, toSink[w])]
    /\ toSink' = [toSink EXCEPT ![w] = Silent]
    /\ UNCHANGED <<logState, cardFaults, lastSaid, grown>>

\* A card that would not open the file costs the line and nothing else.
SinkFails(w) ==
    /\ toSink[w] # Silent
    /\ cardFaults < MaxCardFaults /\ cardFaults' = cardFaults + 1
    /\ logFile' = [measured |-> TRUE, bytes |-> Measured]
    /\ toSink' = [toSink EXCEPT ![w] = Silent]
    /\ UNCHANGED <<logState, onCard, lastSaid, grown>>

EmptyLog == [written |-> 0, ring |-> [i \in 0 .. kTailLines - 1 |-> Silent],
             next |-> 0, filled |-> 0, enabled |-> TRUE]

\* Written by a process that is ending: no lock, no rotation, and nothing but a
\* reason the process names itself.  The next process starts from an empty log.
WriteLast ==
    /\ ~lastSaid /\ logState.enabled
    /\ lastSaid' = TRUE
    /\ onCard' = [onCard EXCEPT !.live =
                      Append(@, [ordinal |-> logState.written + 1, leaks |-> FALSE, size |-> 1])]
    /\ logState' = EmptyLog
    /\ toSink' = [w \in Writers |-> Silent]
    /\ logFile' = [measured |-> FALSE, bytes |-> 0]
    /\ UNCHANGED <<cardFaults, grown>>

\* The last count lines, oldest first.
Tail_(count) ==
    LET want == IF count < logState.filled THEN count ELSE logState.filled
    IN  [i \in 1 .. want |-> logState.ring[(logState.next + kTailLines - (want - i + 1)) % kTailLines]]

LogInit ==
    /\ logState = EmptyLog
    /\ toSink = [w \in Writers |-> Silent]
    /\ logFile = [measured |-> FALSE, bytes |-> 0]
    /\ onCard = [live |-> <<>>, old |-> <<>>]
    /\ cardFaults = 0 /\ lastSaid = FALSE /\ grown = FALSE

LogNext ==
    \/ \E w \in Writers : Write(w) \/ SinkRotates(w) \/ SinkAppends(w) \/ SinkFails(w)
    \/ SetSinkEnabled \/ WriteLast

LogSpec == LogInit /\ [][LogNext]_logVars

LinesAnywhere ==
    ToSet(onCard.live) \cup ToSet(onCard.old) \cup ToSet(Tail_(kTailLines))
        \cup ({toSink[w] : w \in Writers} \ {Silent})

--------------------------------------------------------------------------
(* The ring holds lines up to its size, and the sink counts bytes (State,  *)
(* FileSink).                                                              *)
LogTypeOK ==
    /\ logState.written \in 0 .. MaxLines /\ logState.filled \in 0 .. kTailLines
    /\ logState.next \in 0 .. kTailLines - 1 /\ logFile.bytes \in Nat
    /\ \A line \in LinesAnywhere : line.size \in 1 .. kMaxLineBytes

(* No credential is written down: not in the ring GetLog answers from, not *)
(* on its way to the sink, not in either file on the card, whatever        *)
(* message a subsystem built around it (Redact inside Write).              *)
NoSecretWritten == \A line \in LinesAnywhere : ~line.leaks

(* The tail the overlay reads is the newest lines, oldest first, with no   *)
(* gap, as the ring goes round (Tail).                                     *)
TailIsNewest ==
    \A count \in 0 .. kTailLines :
        LET tail == Tail_(count)
        IN  \A i \in DOMAIN tail : tail[i].ordinal = logState.written - Len(tail) + i

(* The two files together never pass twice the cap, across rotations,      *)
(* restarts and lines lost to the card, but for the one line a dying       *)
(* process appends; a card that will not rename is the exception (FileSink).*)
FilesAreBounded ==
    grown \/ SizeOf(onCard.live) + SizeOf(onCard.old)
                 <= 2 * kMaxFileBytes + (IF lastSaid THEN 1 ELSE 0)
=============================================================================
