----------------------------- MODULE LongMessage -----------------------------
(***************************************************************************)
(* Sending a text that may be longer than a Discord message: the bundling  *)
(* loops of printLongMessage, printLongQuotedMessage and                   *)
(* printLongMarkupMessage (bercon.js) and of ZBot.printLongMessage         *)
(* (zbot.js).  A text is the sequence of the lengths of its lines; what is *)
(* sent is kept as line numbers and a length in characters.                *)
(*                                                                         *)
(* One iteration of forEach is one action.                                 *)
(***************************************************************************)
EXTENDS Integers, Sequences, SequencesExt

CONSTANTS
    Texts       \* the texts to print: [lines, length], lines being lengths

\* A text has at least one line, and one or two characters between two lines.
ASSUME TextsAssumption ==
    \A t \in Texts : t.lines \in Seq(Nat) /\ t.lines # <<>> /\ t.length \in Nat
ASSUME TextLengthAssumption ==
    \A t \in Texts : \E break \in {1, 2} :
        t.length = FoldSeq(+, 0, t.lines) + break * (Len(t.lines) - 1)

DiscordMax == 2000
Style == {"plain", "quoted", "markup", "zbot"}

\* Mutant: the fences are forgotten in the comparison.
LimitOfDiscord(s) == 2000

\* The length compared with, and the lengths of the code fences.
Limit(s) == IF s \in {"quoted", "markup"} THEN 1980 ELSE 2000
Open(s) == CASE s = "quoted" -> 4 [] s = "markup" -> 12 [] OTHER -> 0
Close(s) == IF s \in {"quoted", "markup"} THEN 3 ELSE 0
ShortClose(s) == IF s \in {"quoted", "markup"} THEN 4 ELSE 0

VARIABLES
    style,              \* which of the functions runs
    messages,           \* the lengths of the lines it goes through
    textLength,         \* text.length
    index,              \* iterations done
    bundledMessage,     \* line numbers
    bundledLength,      \* bundledMessage.length
    newLength,          \* newBundledMessage.length
    sent                \* the messages sent: line numbers and length

vars == <<style, messages, textLength, index, bundledMessage, bundledLength,
          newLength, sent>>

Message == [lines : Seq(Nat), length : Nat]

TypeOK ==
    /\ style \in Style
    /\ messages \in Seq(Nat)
    /\ textLength \in Nat
    /\ index \in 0..Len(messages)
    /\ bundledMessage \in Seq(Nat)
    /\ bundledLength \in Nat
    /\ newLength \in Nat
    /\ sent \in Seq(Message)

\* text.match(/.{1,1999}/g): pieces of 1999 characters, the last one shorter.
Pieces(n) == [k \in 1..((n + 1998) \div 1999) |->
                IF k * 1999 <= n THEN 1999 ELSE n % 1999]

\* text.split(/\r?\n/), with ZBot's cut of a long text that is one line.
Split(s, text) ==
    IF s = "zbot" /\ Len(text) = 1 /\ text[1] > Limit(s) THEN Pieces(text[1]) ELSE text

Init ==
    \E s \in Style, text \in Texts :
        /\ style = s
        /\ textLength = text.length
        /\ messages = Split(s, text.lines)
        /\ index = 0
        /\ bundledMessage = <<>>
        /\ bundledLength = 0
        /\ newLength = 0
        /\ sent = <<>>

Finished == index = Len(messages)

Sent(lines, length) == [lines |-> lines, length |-> length]

(* The whole text fits into one message; ZBot's version sends no empty text. *)
Short ==
    /\ index = 0 /\ ~Finished
    /\ textLength <= Limit(style)
    /\ sent' = IF style = "zbot" /\ textLength = 0 THEN <<>>
               ELSE <<Sent([k \in 1..Len(messages) |-> k],
                           Open(style) + textLength + ShortClose(style))>>
    /\ index' = Len(messages)
    /\ UNCHANGED <<style, messages, textLength, bundledMessage, bundledLength,
                   newLength>>

\* The next line with its newline.
LineLength == messages[index + 1] + 1

\* Mutant: a bundle that would just fit is taken for too long.
FullTooEarly == newLength + LineLength >= Limit(style)

\* newBundledMessage has become too long.
Full == newLength + LineLength > Limit(style)

\* Mutant: the line that did not fit is dropped.
BundleDropsLine == IF Full THEN <<>> ELSE Append(bundledMessage, index + 1)

\* The bundle after this line: started anew with the line, or with it added.
Bundle == IF Full THEN <<index + 1>> ELSE Append(bundledMessage, index + 1)
BundleLength == IF Full THEN LineLength ELSE bundledLength + LineLength

Fenced(lines, length) == Sent(lines, Open(style) + length + Close(style))

(* One line of a text that is too long: it joins the bundle, or the bundle *)
(* is sent and the line starts the next one; the last line sends the rest. *)
Line ==
    /\ textLength > Limit(style)
    /\ ~Finished
    /\ index' = index + 1
    /\ bundledMessage' = Bundle
    /\ bundledLength' = BundleLength
    /\ newLength' = IF Full THEN LineLength ELSE newLength + LineLength
    /\ LET flushed == IF Full THEN Append(sent, Fenced(bundledMessage, bundledLength))
                      ELSE sent
       IN  sent' = IF index + 1 = Len(messages)
                   THEN Append(flushed, Fenced(Bundle, BundleLength)) ELSE flushed
    /\ UNCHANGED <<style, messages, textLength>>

Next == Short \/ Line

Spec == Init /\ [][Next]_vars

-----------------------------------------------------------------------------
(* Properties. *)

\* Every line fits into a message of its own.
LinesFit == \A k \in DOMAIN messages : messages[k] + 1 <= Limit(style)

\* The lines of each message sent and, before the end, of the bundle.
Parts ==
    [k \in 1..(IF Finished THEN Len(sent) ELSE Len(sent) + 1) |->
        IF k <= Len(sent) THEN sent[k].lines ELSE bundledMessage]

(* What was sent and what is bundled are the lines seen so far, each once  *)
(* and in order; at the end nothing is left in the bundle.  Only an empty  *)
(* text of ZBot is not sent.                                               *)
NothingLost ==
    \/ Finished /\ style = "zbot" /\ textLength = 0
    \/ /\ \A line \in 1..index : \E k \in DOMAIN Parts : \E i \in DOMAIN Parts[k] :
             Parts[k][i] = line
       /\ \A k \in DOMAIN Parts : \A i \in DOMAIN Parts[k] : Parts[k][i] \in 1..index
       /\ \A k, m \in DOMAIN Parts : \A i \in DOMAIN Parts[k], j \in DOMAIN Parts[m] :
             k < m \/ (k = m /\ i < j) => Parts[k][i] < Parts[m][j]

(* Every message, fences included, is one Discord takes: not longer than   *)
(* its maximum and never an empty bundle, as long as every line fits.      *)
MessagesFit ==
    LinesFit => \A k \in DOMAIN sent :
        sent[k].length <= DiscordMax /\ sent[k].lines # <<>>

(* "bundle them to the max": a message is only closed because the first    *)
(* line of the next one does not fit into it any more.                     *)
BundledToTheMax ==
    \A k \in 1..(Len(sent) - 1) :
        sent[k].length - Open(style) - Close(style)
            + messages[Head(sent[k + 1].lines)] + 1 > Limit(style)

\* The two strings of the loop agree, are empty before the first line and not
\* after it, and are no longer than a message that fits.
BundleInv ==
    /\ newLength = bundledLength
    /\ index = 0 => bundledLength = 0 /\ bundledMessage = <<>> /\ sent = <<>>
    /\ index > 0 /\ textLength > Limit(style) => bundledMessage # <<>>
    /\ \A k \in DOMAIN bundledMessage : bundledMessage[k] \in 1..index
    /\ LinesFit => bundledLength <= Limit(style)
    /\ ~Finished /\ sent # <<>> =>
          sent[Len(sent)].length - Open(style) - Close(style)
              + messages[Head(bundledMessage)] + 1 > Limit(style)

LongMessageInv ==
    TypeOK /\ BundleInv /\ MessagesFit /\ BundledToTheMax /\ NothingLost
=============================================================================
