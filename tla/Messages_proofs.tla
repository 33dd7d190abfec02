--------------------------- MODULE Messages_proofs ----------------------------
(***************************************************************************)
(* Proofs about what the bot sends.  LongMessage, for every set of texts:  *)
(* no line is lost, sent twice or out of order; as long as each line fits  *)
(* into a message, so does every message that is sent and none is an empty *)
(* bundle; and no message is closed while the next line still fits.        *)
(* Relay, for any servers, channels and automatic replies: what comes from *)
(* the game never becomes a command.                                       *)
(***************************************************************************)
EXTENDS LongMessage, Relay, SequenceTheorems, FiniteSetTheorems, WellFoundedInduction, TLAPS

\* The limits and fences of the four functions.
LEMMA StyleFacts ==
    ASSUME NEW s \in Style
    PROVE  /\ Limit(s) \in Nat /\ Open(s) \in Nat /\ Close(s) \in Nat /\ ShortClose(s) \in Nat
           /\ Limit(s) > 0
           /\ Limit(s) + Open(s) + Close(s) <= DiscordMax
           /\ Limit(s) + Open(s) + ShortClose(s) <= DiscordMax
    BY DEF Style, Limit, Open, Close, ShortClose, DiscordMax

\* What Append returns, element by element.
LEMMA AppendFacts ==
    ASSUME NEW S, NEW seq \in Seq(S), NEW e \in S
    PROVE  /\ Append(seq, e) \in Seq(S)
           /\ Append(seq, e) # <<>>
           /\ Len(Append(seq, e)) = Len(seq) + 1
           /\ DOMAIN Append(seq, e) = 1..(Len(seq) + 1)
           /\ \A k \in 1..Len(seq) : Append(seq, e)[k] = seq[k]
           /\ Append(seq, e)[Len(seq) + 1] = e
    OBVIOUS

\* The sequence of one element.
LEMMA OneElement ==
    ASSUME NEW S, NEW e \in S
    PROVE  <<e>> \in Seq(S) /\ Len(<<e>>) = 1 /\ <<e>>[1] = e
    OBVIOUS

\* The lines a text is split into are lengths again.
LEMMA SplitType ==
    ASSUME NEW s \in Style, NEW text \in Seq(Nat), text # <<>>
    PROVE  Split(s, text) \in Seq(Nat)
<1>1. CASE s = "zbot" /\ Len(text) = 1 /\ text[1] > Limit(s)
    <2> DEFINE n == text[1]
               m == (n + 1998) \div 1999
    <2>1. n \in Nat /\ m \in Nat
        BY <1>1
    <2>2. \A k \in 1..m : (IF k * 1999 <= n THEN 1999 ELSE n % 1999) \in Nat
        BY <2>1
    <2>3. Pieces(n) \in Seq(Nat)
        <3> HIDE DEF n, m
        <3> QED BY <2>1, <2>2 DEF Pieces, m
    <2> QED
        BY <1>1, <2>3 DEF Split
<1>2. CASE ~(s = "zbot" /\ Len(text) = 1 /\ text[1] > Limit(s))
    BY <1>2 DEF Split
<1> QED
    BY <1>1, <1>2

(* The invariant holds before the first line. *)
LEMMA InitInv == Init => LongMessageInv
<1> SUFFICES ASSUME Init PROVE LongMessageInv
    OBVIOUS
<1> PICK s \in Style, text \in Texts :
        /\ style = s /\ textLength = text.length /\ messages = Split(s, text.lines)
        /\ index = 0 /\ bundledMessage = <<>> /\ bundledLength = 0 /\ newLength = 0
        /\ sent = <<>>
    BY DEF Init
<1>1. messages \in Seq(Nat) /\ textLength \in Nat
    BY SplitType, TextsAssumption
<1>2. TypeOK
    BY <1>1 DEF TypeOK, Message
<1>3. BundleInv
    BY <1>1, StyleFacts DEF BundleInv
<1>4. MessagesFit /\ BundledToTheMax
    BY DEF MessagesFit, BundledToTheMax
<1>5. NothingLost
    <2>1. Len(sent) = 0 /\ DOMAIN bundledMessage = {} /\ index = 0
        OBVIOUS
    <2>2. \A k \in DOMAIN Parts : DOMAIN Parts[k] = {}
        BY <2>1 DEF Parts
    <2> QED
        BY <2>1, <2>2 DEF NothingLost
<1> QED
    BY <1>2, <1>3, <1>4, <1>5 DEF LongMessageInv

(* A text that fits goes out whole, fences included. *)
LEMMA ShortInv ==
    ASSUME LongMessageInv, Short
    PROVE  LongMessageInv'
<1> USE DEF LongMessageInv
<1> DEFINE all == [k \in 1..Len(messages) |-> k]
           whole == Sent(all, Open(style) + textLength + ShortClose(style))
<1>0. /\ style \in Style /\ messages \in Seq(Nat) /\ textLength \in Nat
      /\ index = 0 /\ Len(messages) # 0 /\ textLength <= Limit(style)
      /\ bundledMessage = <<>> /\ bundledLength = 0 /\ newLength = 0
    BY DEF TypeOK, BundleInv, Short, Finished
<1>1. all \in Seq(Nat) /\ Len(all) = Len(messages) /\ all # <<>>
    BY <1>0
<1>2. whole \in Message /\ whole.lines # <<>> /\ whole.length <= DiscordMax
    <2>1. whole.lines = all /\ whole.length = Open(style) + textLength + ShortClose(style)
        BY DEF Sent
    <2>2. Open(style) + textLength + ShortClose(style) \in Nat
        BY <1>0, StyleFacts
    <2>3. Open(style) + textLength + ShortClose(style) <= DiscordMax
        BY <1>0, StyleFacts DEF DiscordMax
    <2>4. whole \in Message
        BY <1>1, <2>2 DEF Sent, Message
    <2> QED
        BY <1>1, <2>1, <2>3, <2>4
<1>3. sent' = <<>> \/ sent' = <<whole>>
    BY DEF Short
<1>4. TypeOK'
    <2> HIDE DEF whole
    <2>1. sent' \in Seq(Message)
        <3>1. <<whole>> \in Seq(Message)
            BY <1>2, OneElement
        <3>2. <<>> \in Seq(Message)
            OBVIOUS
        <3> QED
            BY <1>3, <3>1, <3>2, Zenon
    <2>2. /\ style' = style /\ messages' = messages /\ textLength' = textLength
          /\ index' = Len(messages) /\ bundledMessage' = <<>> /\ bundledLength' = 0
          /\ newLength' = 0
        BY <1>0 DEF Short
    <2> QED
        BY <1>0, <2>1, <2>2 DEF TypeOK
<1>5. BundleInv'
    BY <1>0, StyleFacts DEF BundleInv, Short, Finished, LinesFit
<1>6. MessagesFit'
    <2> HIDE DEF whole
    <2> QED BY <1>2, <1>3 DEF MessagesFit
<1>7. BundledToTheMax'
    <2> HIDE DEF whole
    <2>1. Len(sent)' \in {0, 1}
        BY <1>3
    <2> QED BY <2>1 DEF BundledToTheMax
<1>8. NothingLost'
    <2>1. CASE style = "zbot" /\ textLength = 0
        BY <2>1 DEF NothingLost, Short, Finished
    <2>2. CASE ~(style = "zbot" /\ textLength = 0)
        <3>1. sent' = <<whole>> /\ Finished' /\ index' = Len(messages)
            BY <2>2 DEF Short, Finished
        <3>2. whole.lines = all
            BY DEF Sent
        <3> HIDE DEF whole
        <3>3. Parts' = [k \in {1} |-> all]
            <4>1. Len(sent') = 1 /\ sent'[1] = whole /\ 1..1 = {1}
                BY <3>1
            <4> QED
                BY <3>1, <3>2, <4>1 DEF Parts
        <3>4. /\ DOMAIN Parts' = {1} /\ DOMAIN Parts'[1] = 1..index'
              /\ \A i \in 1..index' : Parts'[1][i] = i
            BY <3>1, <3>3
        <3>5. index' \in Nat
            BY <1>0, <3>1
        <3> QED
            <4> DEFINE P == Parts'
            <4>1. /\ \A line \in 1..index' : \E k \in DOMAIN P : \E i \in DOMAIN P[k] :
                        P[k][i] = line
                  /\ \A k \in DOMAIN P : \A i \in DOMAIN P[k] : P[k][i] \in 1..index'
                BY <3>4
            <4>2. \A k, m \in DOMAIN P : \A i \in DOMAIN P[k], j \in DOMAIN P[m] :
                     k < m \/ (k = m /\ i < j) => P[k][i] < P[m][j]
                BY <3>4, <3>5
            <4> QED
                BY <4>1, <4>2 DEF NothingLost
    <2> QED
        BY <2>1, <2>2
<1> QED
    BY <1>4, <1>5, <1>6, <1>7, <1>8

(* The line joins the last part, or is a part of its own behind it. *)
LEMMA PartsOfLine ==
    ASSUME LongMessageInv, Line
    PROVE  LET n == Len(sent) + 1
           IN  /\ n \in Nat /\ DOMAIN Parts = 1..n
               /\ Parts[n] = bundledMessage
               /\ IF Full
                  THEN /\ DOMAIN Parts' = 1..(n + 1)
                       /\ \A k \in 1..n : Parts'[k] = Parts[k]
                       /\ Parts'[n + 1] = <<index + 1>>
                  ELSE /\ DOMAIN Parts' = 1..n
                       /\ \A k \in 1..(n - 1) : Parts'[k] = Parts[k]
                       /\ Parts'[n] = Append(bundledMessage, index + 1)
<1> DEFINE n == Len(sent) + 1
           closed == Fenced(bundledMessage, bundledLength)
           rest == Fenced(Bundle, BundleLength)
           flushed == IF Full THEN Append(sent, closed) ELSE sent
           last == index + 1 = Len(messages)
<1>1. /\ sent \in Seq(Message) /\ Len(sent) \in Nat /\ ~Finished
      /\ DOMAIN sent = 1..Len(sent)
    BY DEF LongMessageInv, TypeOK, Line
<1>2. DOMAIN Parts = 1..n /\ Parts[n] = bundledMessage
      /\ \A k \in 1..Len(sent) : Parts[k] = sent[k].lines
    BY <1>1 DEF Parts
<1>3. closed.lines = bundledMessage /\ rest.lines = Bundle
    BY DEF Fenced, Sent
<1>4. /\ sent' = IF last THEN Append(flushed, rest) ELSE flushed
      /\ bundledMessage' = Bundle /\ (Finished' <=> last)
    BY DEF Line, Finished
<1> HIDE DEF closed, rest
<1>5. /\ Len(flushed) \in Nat /\ Len(flushed) = (IF Full THEN n ELSE Len(sent))
      /\ \A k \in 1..Len(sent) : flushed[k] = sent[k]
      /\ Full => flushed[n] = closed
    BY <1>1
<1>6. /\ DOMAIN Parts' = 1..(Len(flushed) + 1)
      /\ \A k \in 1..Len(flushed) : Parts'[k] = flushed[k].lines
      /\ Parts'[Len(flushed) + 1] = Bundle
    <2>1. CASE last
        <3>1. flushed = sent \/ flushed = Append(sent, closed)
            OBVIOUS
        <3>2. /\ Len(sent') = Len(flushed) + 1
              /\ \A k \in 1..Len(flushed) : sent'[k] = flushed[k]
              /\ sent'[Len(flushed) + 1] = rest
            BY <1>1, <1>4, <2>1
        <3> HIDE DEF flushed
        <3> QED
            BY <1>3, <1>4, <1>5, <2>1, <3>2 DEF Parts
    <2>2. CASE ~last
        <3> HIDE DEF flushed
        <3>1. sent' = flushed
            BY <1>4, <2>2
        <3>2. Parts' = [k \in 1..(Len(flushed) + 1) |->
                          IF k <= Len(flushed) THEN flushed[k].lines ELSE Bundle]
            <4>1. ~Finished' /\ bundledMessage' = Bundle
                BY <1>4, <2>2
            <4> HIDE DEF last
            <4> QED
                BY <3>1, <4>1 DEF Parts
        <3>3. Len(flushed) \in Nat
            BY <1>5
        <3> QED
            BY <3>2, <3>3
    <2> QED
        BY <2>1, <2>2
<1>7. CASE Full
    <2>1. Bundle = <<index + 1>>
        BY <1>7 DEF Bundle
    <2>2. \A k \in 1..n : Parts'[k] = Parts[k]
        BY <1>1, <1>2, <1>3, <1>5, <1>6, <1>7
    <2> HIDE DEF flushed
    <2> QED
        BY <1>1, <1>2, <1>5, <1>6, <1>7, <2>1, <2>2
<1>8. CASE ~Full
    <2>1. Bundle = Append(bundledMessage, index + 1) /\ flushed = sent
        BY <1>8 DEF Bundle
    <2> HIDE DEF flushed
    <2> QED
        BY <1>1, <1>2, <1>6, <1>8, <2>1
<1> QED
    BY <1>7, <1>8

(* One iteration loses no line: the new one is the largest and comes last. *)
LEMMA LineNothingLost ==
    ASSUME LongMessageInv, Line
    PROVE  NothingLost'
<1> DEFINE n == Len(sent) + 1
<1>0. /\ index \in Nat /\ index' = index + 1 /\ ~Finished
      /\ bundledMessage \in Seq(Nat) /\ n \in Nat /\ n > 0
    BY DEF LongMessageInv, TypeOK, Line
<1>1. /\ DOMAIN Parts = 1..n /\ Parts[n] = bundledMessage
      /\ Full => /\ DOMAIN Parts' = 1..(n + 1)
                 /\ \A k \in 1..n : Parts'[k] = Parts[k]
                 /\ Parts'[n + 1] = <<index + 1>>
      /\ ~Full => /\ DOMAIN Parts' = 1..n
                  /\ \A k \in 1..(n - 1) : Parts'[k] = Parts[k]
                  /\ Parts'[n] = Append(bundledMessage, index + 1)
    BY PartsOfLine
<1>2. /\ \A line \in 1..index : \E k \in 1..n : \E i \in DOMAIN Parts[k] : Parts[k][i] = line
      /\ \A k \in 1..n : \A i \in DOMAIN Parts[k] : Parts[k][i] \in 1..index
      /\ \A k, m \in 1..n : \A i \in DOMAIN Parts[k], j \in DOMAIN Parts[m] :
            k < m \/ (k = m /\ i < j) => Parts[k][i] < Parts[m][j]
    BY <1>0, <1>1 DEF LongMessageInv, NothingLost
<1> HIDE DEF n
\* Where the new line is, and that everything else is where it was.
<1>3. PICK last \in DOMAIN Parts', at \in Nat :
        /\ DOMAIN Parts' = 1..last /\ n <= last /\ last \in Nat
        /\ DOMAIN Parts'[last] = 1..at /\ at > 0 /\ Parts'[last][at] = index + 1
        /\ \A k \in 1..n : \A i \in DOMAIN Parts[k] :
              i \in DOMAIN Parts'[k] /\ Parts'[k][i] = Parts[k][i]
        /\ \A k \in 1..last : \A i \in DOMAIN Parts'[k] :
              \/ k = last /\ i = at
              \/ k \in 1..n /\ i \in DOMAIN Parts[k] /\ Parts'[k][i] = Parts[k][i]
    <2>1. CASE Full
        <3>1. DOMAIN <<index + 1>> = 1..1 /\ <<index + 1>>[1] = index + 1
            OBVIOUS
        <3> n + 1 \in DOMAIN Parts'
            BY <1>0, <1>1, <2>1
        <3> WITNESS n + 1 \in DOMAIN Parts', 1 \in Nat
        <3> QED
            BY <1>0, <1>1, <2>1, <3>1
    <2>2. CASE ~Full
        <3> DEFINE b == Append(bundledMessage, index + 1)
        <3>1. /\ DOMAIN b = 1..(Len(bundledMessage) + 1) /\ Len(bundledMessage) \in Nat
              /\ DOMAIN bundledMessage = 1..Len(bundledMessage)
              /\ \A i \in 1..Len(bundledMessage) : b[i] = bundledMessage[i]
              /\ b[Len(bundledMessage) + 1] = index + 1
            BY <1>0, AppendFacts
        <3> HIDE DEF b
        <3>2. Parts'[n] = b
            BY <1>1, <2>2 DEF b
        <3> n \in DOMAIN Parts' /\ Len(bundledMessage) + 1 \in Nat
            BY <1>0, <1>1, <2>2, <3>1
        <3> WITNESS n \in DOMAIN Parts', Len(bundledMessage) + 1 \in Nat
        <3>3. \A k \in 1..n : \A i \in DOMAIN Parts[k] :
                 i \in DOMAIN Parts'[k] /\ Parts'[k][i] = Parts[k][i]
            <4> TAKE k \in 1..n
            <4>1. CASE k = n
                BY <1>1, <3>1, <3>2, <4>1
            <4>2. CASE k # n
                BY <1>0, <1>1, <2>2, <4>2
            <4> QED
                BY <4>1, <4>2
        <3>4. \A k \in 1..n : \A i \in DOMAIN Parts'[k] :
                 \/ k = n /\ i = Len(bundledMessage) + 1
                 \/ k \in 1..n /\ i \in DOMAIN Parts[k] /\ Parts'[k][i] = Parts[k][i]
            <4> TAKE k \in 1..n
            <4>1. CASE k = n
                BY <1>1, <3>1, <3>2, <4>1
            <4>2. CASE k # n
                BY <1>0, <1>1, <2>2, <4>2
            <4> QED
                BY <4>1, <4>2
        <3> QED
            BY <1>0, <1>1, <2>2, <3>1, <3>2, <3>3, <3>4
    <2> QED
        BY <2>1, <2>2
<1>4. \A line \in 1..(index + 1) : \E k \in 1..last : \E i \in DOMAIN Parts'[k] :
         Parts'[k][i] = line
    <2> TAKE line \in 1..(index + 1)
    <2>1. CASE line = index + 1
        BY <1>3, <2>1
    <2>2. CASE line \in 1..index
        <3> PICK k \in 1..n : \E i \in DOMAIN Parts[k] : Parts[k][i] = line
            BY <1>2, <2>2
        <3>1. k \in 1..last
            BY <1>0, <1>3
        <3> QED
            BY <1>3, <3>1
    <2> QED
        BY <1>0, <2>1, <2>2
<1>5. \A k \in 1..last : \A i \in DOMAIN Parts'[k] : Parts'[k][i] \in 1..(index + 1)
    <2> TAKE k \in 1..last
    <2> TAKE i \in DOMAIN Parts'[k]
    <2>1. CASE k = last /\ i = at
        BY <1>0, <1>3, <2>1
    <2>2. CASE k \in 1..n /\ i \in DOMAIN Parts[k] /\ Parts'[k][i] = Parts[k][i]
        <3>1. Parts[k][i] \in 1..index
            BY <1>2, <2>2
        <3> QED
            BY <1>0, <2>2, <3>1
    <2> QED
        BY <1>3, <2>1, <2>2
<1>6. ASSUME NEW k \in 1..last, NEW m \in 1..last,
             NEW i \in DOMAIN Parts'[k], NEW j \in DOMAIN Parts'[m],
             k < m \/ (k = m /\ i < j)
      PROVE  Parts'[k][i] < Parts'[m][j]
    <2>1. CASE k = last /\ i = at
        BY <1>0, <1>3, <1>6, <2>1
    <2>2. CASE k \in 1..n /\ i \in DOMAIN Parts[k] /\ Parts'[k][i] = Parts[k][i]
        <3>1. CASE m = last /\ j = at
            BY <1>0, <1>2, <1>3, <2>2, <3>1
        <3>2. CASE m \in 1..n /\ j \in DOMAIN Parts[m] /\ Parts'[m][j] = Parts[m][j]
            BY <1>2, <1>6, <2>2, <3>2
        <3> QED
            BY <1>3, <3>1, <3>2
    <2> QED
        BY <1>3, <2>1, <2>2
<1> QED
    BY <1>0, <1>3, <1>4, <1>5, <1>6 DEF NothingLost

(* One iteration of the loop. *)
LEMMA LineInv ==
    ASSUME LongMessageInv, Line
    PROVE  LongMessageInv'
<1> USE DEF LongMessageInv
<1> DEFINE flushed == IF Full THEN Append(sent, Fenced(bundledMessage, bundledLength)) ELSE sent
           last == index + 1 = Len(messages)
           body(m) == m.length - Open(style) - Close(style)
<1>0. /\ style \in Style /\ messages \in Seq(Nat) /\ textLength \in Nat
      /\ textLength > Limit(style)
      /\ index \in Nat /\ index < Len(messages)
      /\ bundledMessage \in Seq(Nat) /\ bundledLength \in Nat /\ newLength = bundledLength
      /\ sent \in Seq(Message)
    BY DEF TypeOK, BundleInv, Line, Finished
<1>1. LineLength \in Nat /\ messages[index + 1] \in Nat /\ index + 1 \in 1..Len(messages)
    BY <1>0 DEF LineLength
<1>2. Full <=> bundledLength + LineLength > Limit(style)
    BY <1>0 DEF Full
<1>3. /\ Bundle \in Seq(Nat) /\ Bundle # <<>> /\ BundleLength \in Nat
      /\ \A k \in DOMAIN Bundle : Bundle[k] \in 1..(index + 1)
    <2>1. CASE Full
        BY <1>0, <1>1, <2>1 DEF Bundle, BundleLength
    <2>2. CASE ~Full
        <3>1. Bundle = Append(bundledMessage, index + 1) /\ BundleLength \in Nat
            BY <1>0, <1>1, <2>2 DEF Bundle, BundleLength
        <3>2. bundledMessage \in Seq(Nat) /\ index + 1 \in Nat
              /\ DOMAIN bundledMessage = 1..Len(bundledMessage) /\ Len(bundledMessage) \in Nat
            BY <1>0
        <3>3. \A k \in DOMAIN bundledMessage : bundledMessage[k] \in 1..index
            BY Zenon DEF BundleInv
        <3>4. DOMAIN Bundle = 1..(Len(bundledMessage) + 1) /\ Bundle \in Seq(Nat)
              /\ Bundle # <<>>
              /\ (\A k \in 1..Len(bundledMessage) : Bundle[k] = bundledMessage[k])
              /\ Bundle[Len(bundledMessage) + 1] = index + 1
            BY <3>1, <3>2, AppendFacts
        <3>5. \A k \in 1..(Len(bundledMessage) + 1) : Bundle[k] \in 1..(index + 1)
            <4> SUFFICES ASSUME NEW k \in 1..(Len(bundledMessage) + 1)
                         PROVE  Bundle[k] \in 1..(index + 1)
                OBVIOUS
            <4>1. CASE k = Len(bundledMessage) + 1
                BY <1>0, <3>4, <4>1
            <4>2. CASE k \in 1..Len(bundledMessage)
                <5>1. bundledMessage[k] \in 1..index
                    BY <3>2, <3>3, <4>2
                <5>2. Bundle[k] = bundledMessage[k]
                    BY <3>4, <4>2
                <5>3. Bundle[k] \in 1..index
                    BY <5>1, <5>2
                <5> QED
                    BY <1>0, <5>3
            <4> QED
                BY <3>2, <4>1, <4>2
        <3> QED
            BY <3>1, <3>4, <3>5
    <2> QED
        BY <2>1, <2>2
<1>4. ASSUME LinesFit
      PROVE  /\ BundleLength <= Limit(style)
             /\ bundledLength <= Limit(style)
             /\ Full => bundledMessage # <<>>
    <2>1. LineLength <= Limit(style)
        BY <1>0, <1>1, <1>4 DEF LinesFit, LineLength
    <2>2. index = 0 => ~Full
        BY <1>0, <1>1, <1>2, <2>1, StyleFacts DEF BundleInv
    <2>3. Limit(style) \in Nat
        BY <1>0, StyleFacts
    <2>4. bundledLength <= Limit(style)
        BY <1>4 DEF BundleInv
    <2>5. BundleLength <= Limit(style)
        BY <1>0, <1>1, <1>2, <2>1, <2>3 DEF BundleLength
    <2>6. Full => bundledMessage # <<>>
        BY <1>0, <2>2 DEF BundleInv
    <2> QED
        BY <2>4, <2>5, <2>6
<1>5. \A lines \in Seq(Nat), length \in Nat :
        /\ Fenced(lines, length) \in Message
        /\ Fenced(lines, length).lines = lines
        /\ body(Fenced(lines, length)) = length
        /\ length <= Limit(style) => Fenced(lines, length).length <= DiscordMax
    <2> SUFFICES ASSUME NEW lines \in Seq(Nat), NEW length \in Nat
                 PROVE  /\ Fenced(lines, length) \in Message
                        /\ Fenced(lines, length).lines = lines
                        /\ body(Fenced(lines, length)) = length
                        /\ length <= Limit(style) =>
                                Fenced(lines, length).length <= DiscordMax
        OBVIOUS
    <2>1. /\ Open(style) \in Nat /\ Close(style) \in Nat /\ Limit(style) \in Nat
          /\ Limit(style) + Open(style) + Close(style) <= 2000
        BY <1>0, StyleFacts DEF DiscordMax
    <2>2. Fenced(lines, length) =
            [lines |-> lines, length |-> Open(style) + length + Close(style)]
        BY DEF Fenced, Sent
    <2>3. Open(style) + length + Close(style) \in Nat
        BY <2>1
    <2>4. (Open(style) + length + Close(style)) - Open(style) - Close(style) = length
        BY <2>1
    <2>5. length <= Limit(style) => Open(style) + length + Close(style) <= 2000
        BY <2>1
    <2> QED
        BY <2>2, <2>3, <2>4, <2>5 DEF Message, DiscordMax
<1>6. flushed \in Seq(Message) /\ sent' \in Seq(Message)
      /\ sent' = IF last THEN Append(flushed, Fenced(Bundle, BundleLength)) ELSE flushed
    BY <1>0, <1>3, <1>5 DEF Line
<1>7. /\ index' = index + 1 /\ bundledMessage' = Bundle /\ bundledLength' = BundleLength
      /\ newLength' = BundleLength
      /\ style' = style /\ messages' = messages /\ textLength' = textLength
    BY <1>0, <1>1 DEF Line, BundleLength
<1>8. TypeOK'
    BY <1>0, <1>3, <1>6, <1>7 DEF TypeOK
<1>9. MessagesFit'
    <2> SUFFICES ASSUME LinesFit PROVE \A k \in DOMAIN sent' :
            sent'[k].length <= DiscordMax /\ sent'[k].lines # <<>>
        BY <1>7 DEF MessagesFit, LinesFit
    <2>1. \A k \in DOMAIN sent : sent[k].length <= DiscordMax /\ sent[k].lines # <<>>
        BY DEF MessagesFit
    <2>2. \A k \in DOMAIN flushed :
            flushed[k].length <= DiscordMax /\ flushed[k].lines # <<>>
        BY <1>0, <1>4, <1>5, <2>1
    <2> HIDE DEF flushed
    <2> QED
        BY <1>3, <1>4, <1>5, <1>6, <2>2
<1>10. flushed # <<>> =>
            body(flushed[Len(flushed)]) + messages[Head(Bundle)] + 1 > Limit(style)
    <2>1. CASE Full
        <3>1. Fenced(bundledMessage, bundledLength) \in Message
              /\ body(Fenced(bundledMessage, bundledLength)) = bundledLength
            BY <1>0, <1>5
        <3>2. flushed[Len(flushed)] = Fenced(bundledMessage, bundledLength)
            BY <1>0, <2>1, <3>1, AppendFacts
        <3>3. Head(Bundle) = index + 1
            BY <2>1 DEF Bundle
        <3>4. bundledLength + messages[index + 1] + 1 > Limit(style)
            <4>1. Limit(style) \in Nat /\ bundledLength \in Nat /\ messages[index + 1] \in Nat
                BY <1>0, <1>1, StyleFacts
            <4>2. bundledLength + (messages[index + 1] + 1) > Limit(style)
                BY <1>2, <2>1 DEF LineLength
            <4> QED
                BY <4>1, <4>2
        <3> QED
            BY <3>1, <3>2, <3>3, <3>4
    <2>2. CASE ~Full
        <3>1. flushed = sent
            BY <2>2
        <3>2. sent # <<>> => index # 0 /\ bundledMessage # <<>>
            BY <1>0 DEF BundleInv
        <3>3. sent # <<>> => Head(Bundle) = Head(bundledMessage)
            BY <1>0, <2>2, <3>2 DEF Bundle
        <3>4. sent # <<>> =>
                body(sent[Len(sent)]) + messages[Head(bundledMessage)] + 1 > Limit(style)
            BY <1>0 DEF BundleInv, Finished
        <3> QED
            BY <3>1, <3>3, <3>4
    <2> QED
        BY <2>1, <2>2
<1>11. \A k \in 1..(Len(flushed) - 1) :
            body(flushed[k]) + messages[Head(flushed[k + 1].lines)] + 1 > Limit(style)
    <2>1. \A k \in 1..(Len(sent) - 1) :
            body(sent[k]) + messages[Head(sent[k + 1].lines)] + 1 > Limit(style)
        BY DEF BundledToTheMax
    <2>2. CASE ~Full
        BY <2>1, <2>2
    <2>3. CASE Full
        <3> DEFINE m == Fenced(bundledMessage, bundledLength)
        <3>1. m \in Message /\ m.lines = bundledMessage
            BY <1>0, <1>5
        <3>2. /\ flushed = Append(sent, m) /\ Len(flushed) = Len(sent) + 1
              /\ \A k \in 1..Len(sent) : flushed[k] = sent[k]
              /\ flushed[Len(sent) + 1] = m
            BY <1>0, <2>3, <3>1, AppendFacts
        <3>3. sent # <<>> =>
                body(sent[Len(sent)]) + messages[Head(bundledMessage)] + 1 > Limit(style)
            BY <1>0 DEF BundleInv, Finished
        <3> HIDE DEF m, flushed
        <3> SUFFICES ASSUME NEW k \in 1..(Len(flushed) - 1)
                     PROVE  body(flushed[k]) + messages[Head(flushed[k + 1].lines)] + 1
                                > Limit(style)
            OBVIOUS
        <3>4. CASE k = Len(sent)
            <4>1. sent # <<>> /\ k \in 1..Len(sent) /\ Len(sent) \in Nat
                BY <1>0, <3>2, <3>4
            <4>2. flushed[k] = sent[Len(sent)] /\ flushed[k + 1] = m
                BY <3>2, <3>4, <4>1
            <4> QED
                BY <3>1, <3>3, <4>1, <4>2
        <3>5. CASE k \in 1..(Len(sent) - 1)
            <4>1. k \in 1..Len(sent) /\ k + 1 \in 1..Len(sent)
                BY <1>0, <3>5
            <4>2. flushed[k] = sent[k] /\ flushed[k + 1] = sent[k + 1]
                BY <3>2, <4>1
            <4>3. body(sent[k]) + messages[Head(sent[k + 1].lines)] + 1 > Limit(style)
                BY <2>1, <3>5
            <4> HIDE DEF body
            <4> QED
                BY <4>2, <4>3, Zenon
        <3> QED
            BY <1>0, <3>2, <3>4, <3>5
    <2> QED
        BY <2>2, <2>3
<1>12. BundledToTheMax'
    <2> SUFFICES ASSUME NEW k \in 1..(Len(sent') - 1)
                 PROVE  body(sent'[k]) + messages[Head(sent'[k + 1].lines)] + 1 > Limit(style)
        BY <1>7 DEF BundledToTheMax
    <2>1. CASE ~last
        <3>1. sent' = flushed
            BY <1>6, <2>1
        <3> HIDE DEF flushed, body
        <3> QED
            BY <1>11, <3>1
    <2>2. CASE last
        <3> DEFINE m == Fenced(Bundle, BundleLength)
        <3>1. m \in Message /\ m.lines = Bundle
            BY <1>3, <1>5
        <3> HIDE DEF flushed, m
        <3>2. /\ Len(sent') = Len(flushed) + 1
              /\ \A j \in 1..Len(flushed) : sent'[j] = flushed[j]
              /\ sent'[Len(flushed) + 1] = m
            BY <1>6, <2>2, <3>1, AppendFacts DEF m
        <3>3. CASE k = Len(flushed)
            BY <1>6, <1>10, <3>1, <3>2, <3>3
        <3>4. CASE k \in 1..(Len(flushed) - 1)
            <4>1. k \in 1..Len(flushed) /\ k + 1 \in 1..Len(flushed)
                BY <1>6, <3>4
            <4>2. sent'[k] = flushed[k] /\ sent'[k + 1] = flushed[k + 1]
                BY <3>2, <4>1
            <4>3. body(flushed[k]) + messages[Head(flushed[k + 1].lines)] + 1 > Limit(style)
                BY <1>11, <3>4
            <4> HIDE DEF body
            <4> QED
                BY <4>2, <4>3, Zenon
        <3> QED
            BY <1>6, <3>2, <3>3, <3>4
    <2> QED
        BY <2>1, <2>2
<1>13. BundleInv'
    <2>1. ~Finished' /\ sent' # <<>> =>
            body(sent'[Len(sent')]) + messages[Head(Bundle)] + 1 > Limit(style)
        <3>1. ~Finished' => sent' = flushed
            BY <1>6, <1>7 DEF Finished
        <3> HIDE DEF flushed, body
        <3> QED
            BY <1>10, <3>1
    <2>2. LinesFit' => bundledLength' <= Limit(style)
        BY <1>4, <1>7 DEF LinesFit
    <2>3. index' # 0 /\ bundledMessage' # <<>>
        BY <1>0, <1>3, <1>7
    <2>4. \A k \in DOMAIN bundledMessage' : bundledMessage'[k] \in 1..index'
        BY <1>3, <1>7
    <2> QED
        BY <1>7, <2>1, <2>2, <2>3, <2>4 DEF BundleInv
<1> QED
    BY <1>8, <1>9, <1>12, <1>13, LineNothingLost

(* Every step preserves the inductive invariant. *)
LEMMA NextInv == LongMessageInv /\ [Next]_vars => LongMessageInv'
<1> SUFFICES ASSUME LongMessageInv, [Next]_vars PROVE LongMessageInv'
    OBVIOUS
<1>1. CASE Short
    BY <1>1, ShortInv
<1>2. CASE Line
    BY <1>2, LineInv
<1>3. CASE UNCHANGED vars
    <2>1. (TypeOK /\ BundleInv /\ MessagesFit /\ BundledToTheMax)'
        BY <1>3 DEF vars, LongMessageInv, TypeOK, BundleInv, MessagesFit, BundledToTheMax,
                    LinesFit, Finished
    <2>2. Parts' = Parts /\ Finished' = Finished
        BY <1>3 DEF vars, Parts, Finished
    <2>3. NothingLost'
        BY <1>3, <2>2 DEF vars, LongMessageInv, NothingLost
    <2> QED
        BY <2>1, <2>3 DEF LongMessageInv
<1> QED
    BY <1>1, <1>2, <1>3 DEF Next

(* The two strings of the loop agree and are bounded, whatever the text,   *)
(* and with that the properties below are invariants.                      *)
THEOREM LongMessageInvariant == Spec => []LongMessageInv
    BY InitInv, NextInv, PTL DEF Spec

(* Every line of a text is sent, once and in order, whatever the lengths   *)
(* of the lines.                                                           *)
THEOREM NothingLostEver == Spec => []NothingLost
    BY LongMessageInvariant, PTL DEF LongMessageInv

(* When every line of a text fits into a message of its own, each message  *)
(* sent, fences included, is within Discord's maximum and none is an empty *)
(* bundle, for every text and each of the four functions.                  *)
THEOREM MessagesFitAlways == Spec => []MessagesFit
    BY LongMessageInvariant, PTL DEF LongMessageInv

(* Messages are bundled to the max: none is closed while the line that     *)
(* follows would still fit.                                                *)
THEOREM BundledToTheMaxAlways == Spec => []BundledToTheMax
    BY LongMessageInvariant, PTL DEF LongMessageInv

-----------------------------------------------------------------------------
(* Relay: sequences first. *)

\* A set of numbers has a smallest one.
LEMMA Smallest ==
    ASSUME NEW I \in SUBSET Nat, I # {}
    PROVE  \E m \in I : \A k \in I : m <= k
<1>1. \E m \in I : \A k \in I : ~(<<k, m>> \in OpToRel(<, Nat))
    <2> HIDE DEF OpToRel
    <2> QED
        BY NatLessThanWellFounded, WFMin
<1>2. \A k, m \in Nat : k < m => <<k, m>> \in OpToRel(<, Nat)
    BY DEF OpToRel
<1>3. PICK m \in I : \A k \in I : ~(k < m)
    BY <1>1, <1>2, Zenon
<1> QED
    BY <1>3

(* Induction over the natural numbers, with a set in place of a predicate. *)
LEMMA Induction ==
    ASSUME NEW S \in SUBSET Nat, 0 \in S, \A n \in S : n + 1 \in S
    PROVE  \A n \in Nat : n \in S
<1>1. SUFFICES ASSUME Nat \ S # {} PROVE FALSE
    OBVIOUS
<1>2. PICK m \in Nat \ S : \A k \in Nat \ S : m <= k
    BY <1>1, Smallest
<1>3. m # 0 /\ m - 1 \in Nat /\ (m - 1) + 1 = m /\ ~(m <= m - 1)
    BY <1>2
<1> QED
    BY <1>2, <1>3

\* Joining the first n parts of q, one after the other.
Joins(q, g, n) == g = [i \in 1..n |-> IF i = 1 THEN q[i] ELSE g[i - 1] \o q[i]]

LEMMA JoinsExist ==
    ASSUME NEW q
    PROVE  \A n \in Nat : \E g : Joins(q, g, n)
<1> DEFINE S == {n \in Nat : \E g : Joins(q, g, n)}
<1>1. 0 \in S
    <2>1. Joins(q, [i \in 1..0 |-> 0], 0)
        BY DEF Joins
    <2> QED
        BY <2>1
<1>2. ASSUME NEW n \in S PROVE n + 1 \in S
    <2>1. PICK g : Joins(q, g, n)
        BY <1>2
    <2> DEFINE h == [i \in 1..(n + 1) |-> IF i <= n THEN g[i]
                                          ELSE IF i = 1 THEN q[i] ELSE g[n] \o q[i]]
    <2>2. n \in Nat
        BY <1>2
    <2>3. ASSUME NEW i \in 1..(n + 1)
          PROVE  h[i] = IF i = 1 THEN q[i] ELSE h[i - 1] \o q[i]
        <3>1. CASE i <= n
            <4>1. i \in 1..n /\ (i # 1 => i - 1 \in 1..(n + 1) /\ i - 1 <= n)
                BY <2>2, <2>3, <3>1
            <4>2. h[i] = g[i] /\ (i # 1 => h[i - 1] = g[i - 1])
                BY <2>3, <3>1, <4>1
            <4>3. g[i] = IF i = 1 THEN q[i] ELSE g[i - 1] \o q[i]
                BY <2>1, <4>1, Zenon DEF Joins
            <4> QED
                BY <4>2, <4>3, Zenon
        <3>2. CASE ~(i <= n)
            <4>1. i = n + 1 /\ i - 1 = n /\ (i # 1 => n \in 1..(n + 1) /\ n <= n)
                BY <2>2, <2>3, <3>2
            <4>2. i # 1 => h[i - 1] = g[n]
                BY <4>1
            <4>3. h[i] = IF i = 1 THEN q[i] ELSE g[n] \o q[i]
                BY <2>3, <3>2, Zenon
            <4> QED
                BY <4>2, <4>3, Zenon
        <3> QED
            BY <3>1, <3>2
    <2>4. Joins(q, h, n + 1)
        BY <2>3, Zenon DEF Joins
    <2> QED
        BY <2>2, <2>4
<1> HIDE DEF S
<1>3. \A n \in Nat : n \in S
    BY <1>1, <1>2, Induction DEF S
<1> QED
    BY <1>3 DEF S

\* Sequences joined are a sequence of the same elements.
LEMMA FlattenType ==
    ASSUME NEW E, NEW q \in Seq(Seq(E))
    PROVE  FlattenSeq(q) \in Seq(E)
<1>1. CASE Len(q) = 0
    <2>1. q = <<>>
        BY <1>1
    <2>2. FlattenSeq(q) = q
        BY <1>1 DEF FlattenSeq
    <2>3. <<>> \in Seq(E)
        OBVIOUS
    <2> QED
        BY <2>1, <2>2, <2>3, Zenon
<1>2. CASE Len(q) # 0
    <2> DEFINE g == CHOOSE g : Joins(q, g, Len(q))
    <2>1. FlattenSeq(q) = g[Len(q)]
        BY <1>2, Zenon DEF FlattenSeq, Joins
    <2>2. Joins(q, g, Len(q))
        <3>1. Len(q) \in Nat
            OBVIOUS
        <3> QED
            BY <3>1, JoinsExist, Zenon
    <2> HIDE DEF g
    <2>3. \A i \in 1..Len(q) : g[i] = IF i = 1 THEN q[i] ELSE g[i - 1] \o q[i]
        BY <2>2, Zenon DEF Joins
    <2> DEFINE S == {n \in Nat : n + 1 \in 1..Len(q) => g[n + 1] \in Seq(E)}
    <2>4. 0 \in S
        BY <1>2, <2>3
    <2>5. ASSUME NEW n \in S PROVE n + 1 \in S
        <3>1. n \in Nat
            BY <2>5
        <3>2. SUFFICES ASSUME (n + 1) + 1 \in 1..Len(q) PROVE g[(n + 1) + 1] \in Seq(E)
            BY <3>1
        <3>3. n + 1 \in 1..Len(q) /\ (n + 1) + 1 # 1 /\ ((n + 1) + 1) - 1 = n + 1
            BY <3>1, <3>2
        <3>4. g[n + 1] \in Seq(E)
            BY <2>5, <3>3
        <3>5. g[(n + 1) + 1] = g[n + 1] \o q[(n + 1) + 1]
            BY <2>3, <3>2, <3>3, Zenon
        <3>6. q[(n + 1) + 1] \in Seq(E)
            BY <3>2
        <3> QED
            BY <3>4, <3>5, <3>6
    <2> HIDE DEF S
    <2>6. \A n \in Nat : n \in S
        BY <2>4, <2>5, Induction DEF S
    <2>7. Len(q) - 1 \in Nat /\ (Len(q) - 1) + 1 = Len(q) /\ Len(q) \in 1..Len(q)
        BY <1>2
    <2> QED
        BY <2>1, <2>6, <2>7 DEF S
<1> QED
    BY <1>1, <1>2

\* The parts of a queue that is not empty, and two queues in a row.
LEMMA HeadTailType ==
    ASSUME NEW E, NEW s \in Seq(E), s # <<>>
    PROVE  Head(s) \in E /\ Tail(s) \in Seq(E)
    OBVIOUS

LEMMA ConcatType ==
    ASSUME NEW E, NEW s \in Seq(E), NEW t \in Seq(E)
    PROVE  s \o t \in Seq(E)
    OBVIOUS

\* What is left when the first e is taken out of a sequence is one.
LEMMA RemoveType ==
    ASSUME NEW E, NEW s \in Seq(E), NEW e
    PROVE  RemoveFirst(s, e) \in Seq(E)
<1>1. CASE ~\E i \in 1..Len(s) : s[i] = e
    BY <1>1 DEF RemoveFirst
<1>2. CASE \E i \in 1..Len(s) : s[i] = e
    <2> DEFINE I == {i \in 1..Len(s) : s[i] = e}
    <2>1. I # {} /\ I \in SUBSET Nat
        BY <1>2
    <2>2. \E m \in I : \A k \in I : m <= k
        BY <2>1, Smallest
    <2>3. Min(I) \in I
        BY <2>2 DEF Min
    <2>4. RemoveFirst(s, e) = RemoveAt(s, Min(I))
        BY <1>2, <2>1, Zenon DEF RemoveFirst, SelectInSeq
    <2> DEFINE m == Min(I)
    <2>5. m \in 1..Len(s)
        BY <2>3
    <2> HIDE DEF m
    <2>6. SubSeq(s, 1, m - 1) \in Seq(E) /\ SubSeq(s, m + 1, Len(s)) \in Seq(E)
        BY <2>5
    <2>7. RemoveAt(s, m) \in Seq(E)
        BY <2>6 DEF RemoveAt
    <2> QED
        BY <2>4, <2>7 DEF m
<1> QED
    BY <1>1, <1>2

-----------------------------------------------------------------------------
(* The invariant: what is in the queues, a command of a server being one a *)
(* user wrote or an action says.                                           *)

Posting == [author : Author, channel : Channel, text : RelayTexts, roles : SUBSET Role]
Deeds == {Cases[i].do : i \in DOMAIN Cases}
Order == [name : Names, do : Deeds, by : {"user", "action"}, text : RelayTexts]
GameMessage == [prefix : Prefix, text : RelayTexts]

RelayInv ==
    /\ inbox \in Seq(Posting)
    /\ commands \in [Rcon -> Seq(Order)]
    /\ feed \in [Rcon -> Seq(GameMessage)]
    /\ posts \in 0..MaxPosts
    /\ chats \in 0..MaxChats

LEMMA CaseFacts ==
    /\ DOMAIN Cases \in SUBSET Nat
    /\ \A i \in DOMAIN Cases : Cases[i].name \in Names /\ Cases[i].do \in Deeds
    /\ "say all" \in Names /\ "rcon" \in Names /\ "tell" \in Deeds
<1>1. DOMAIN Cases = 1..24
    BY DEF Cases
<1>2. 9 \in 1..24 /\ 24 \in 1..24
    OBVIOUS
<1>3. Cases[9] = Case("say all", "say", "tell") /\ Cases[24] = Case("rcon", NoKey, "help")
    BY DEF Cases
<1>4. /\ Case("say all", "say", "tell").name = "say all"
      /\ Case("say all", "say", "tell").do = "tell"
      /\ Case("rcon", NoKey, "help").name = "rcon"
    BY DEF Case
<1>5. Cases[9].name = "say all" /\ Cases[9].do = "tell" /\ Cases[24].name = "rcon"
    BY <1>3, <1>4, Zenon
<1>6. \A i \in DOMAIN Cases : Cases[i].name \in Names /\ Cases[i].do \in Deeds
    BY Zenon DEF Names, Deeds
<1>7. 9 \in DOMAIN Cases /\ 24 \in DOMAIN Cases
    BY <1>1, <1>2, Zenon
<1>8. "say all" \in Names /\ "rcon" \in Names /\ "tell" \in Deeds
    BY <1>5, <1>6, <1>7, Zenon
<1>9. DOMAIN Cases \in SUBSET Nat
    BY <1>1
<1> QED
    BY <1>6, <1>8, <1>9

LEMMA TextFacts == NoText \in RelayTexts /\ <<"rcon">> \in RelayTexts
<1> DEFINE W == Names \cup Triggers
<1>1. "rcon" \in W
    BY CaseFacts
<1> HIDE DEF W
<1>2. <<>> \in Seq(W) /\ <<"rcon">> \in Seq(W)
    BY <1>1
<1> QED
    BY <1>2 DEF NoText, RelayTexts, W

LEMMA PostType ==
    ASSUME NEW channel \in Channel \cup {NoChannel}, NEW text \in RelayTexts
    PROVE  Post(channel, text) \in Seq(Posting)
<1>1. CASE channel = NoChannel
    BY <1>1 DEF Post
<1>2. CASE channel # NoChannel
    <2>1. [author |-> "bot", channel |-> channel, text |-> text, roles |-> Role] \in Posting
        BY <1>2 DEF Posting, Author
    <2> QED
        BY <1>2, <2>1 DEF Post
<1> QED
    BY <1>1, <1>2

LEMMA EachType ==
    ASSUME NEW n \in Nat, NEW channel \in Channel, NEW text \in RelayTexts
    PROVE  Each(n, channel, text) \in Seq(Posting)
<1>1. Post(channel, text) \in Seq(Posting)
    BY PostType
<1>2. [k \in 1..n |-> Post(channel, text)] \in Seq(Seq(Posting))
    BY <1>1
<1> QED
    BY <1>2, FlattenType DEF Each

LEMMA DispatchType ==
    ASSUME NEW text, Matching(text) # {}
    PROVE  Dispatch(text).name \in Names /\ Dispatch(text).do \in Deeds
<1>1. Matching(text) \in SUBSET Nat /\ Matching(text) \subseteq DOMAIN Cases
    BY CaseFacts DEF Matching
<1>2. \E i \in Matching(text) : \A j \in Matching(text) : i <= j
    BY <1>1, Smallest
<1>3. (CHOOSE i \in Matching(text) : \A j \in Matching(text) : i <= j) \in DOMAIN Cases
    BY <1>1, <1>2
<1> QED
    BY <1>3, CaseFacts DEF Dispatch

LEMMA InitRelayInv == RelayInit => RelayInv
    BY RelayAssumption DEF RelayInit, RelayInv

LEMMA UserPostsInv ==
    ASSUME RelayInv, NEW channel \in Channel, NEW text \in UserTexts, NEW roles \in SUBSET Role,
           UserPosts(channel, text, roles)
    PROVE  RelayInv'
<1>1. [author |-> "user", channel |-> channel, text |-> text, roles |-> roles] \in Posting
    BY RelayAssumption DEF Posting, Author
<1>2. inbox' \in Seq(Posting)
    BY <1>1 DEF UserPosts, RelayInv
<1>3. posts' \in 0..MaxPosts
    BY RelayAssumption DEF UserPosts, RelayInv
<1> QED
    BY <1>2, <1>3 DEF UserPosts, RelayInv

\* The heart of the matter: the guard of the handler decides whose text is
\* a command.
LEMMA OnMessageInv ==
    ASSUME RelayInv, OnMessage
    PROVE  RelayInv'
<1> DEFINE m == Head(inbox)
<1>1. m \in Posting /\ Tail(inbox) \in Seq(Posting)
    BY DEF OnMessage, RelayInv
<1>2. feed' = feed /\ posts' = posts /\ chats' = chats
    BY DEF OnMessage
<1>3. CASE ~(m.author # "bot" /\ Listening(m) # {} /\ Matching(m.text) # {})
    <2>1. inbox' = Tail(inbox) /\ commands' = commands
        BY <1>3 DEF OnMessage
    <2> QED
        BY <1>1, <1>2, <2>1 DEF RelayInv
<1>4. CASE m.author # "bot" /\ Listening(m) # {} /\ Matching(m.text) # {}
    <2> DEFINE case == Dispatch(m.text)
               n == Cardinality(Listening(m))
    <2>1. checkAdminCommand(m)
        BY <1>4 DEF OnMessage
    <2>2. m.author = "user" /\ m.channel \in Channel /\ m.text \in RelayTexts
        BY <1>1, <1>4 DEF Posting, Author
    <2>3. case.name \in Names /\ case.do \in Deeds
        BY <1>4, DispatchType
    <2>4. n \in Nat /\ 2 * n \in Nat
        <3>1. Listening(m) \subseteq Rcon
            BY DEF Listening
        <3>2. IsFiniteSet(Listening(m))
            BY <3>1, RelayAssumption, FS_Subset
        <3> QED
            BY <3>2, FS_CardinalityType
    <2> HIDE DEF m, case, n
    <2>5. Command(case, m) \in Order
        <3>1. RemoveFirst(m.text, case.name) \in RelayTexts
            BY <2>2, RemoveType DEF RelayTexts
        <3> QED
            BY <2>2, <2>3, <3>1, TextFacts DEF Command, Order
    <2>6. \/ commands' = commands
          \/ commands' = [r \in Rcon |-> IF r \in Listening(m)
                                         THEN Append(commands[r], Command(case, m)) ELSE commands[r]]
        BY <2>1, Zenon DEF checkAdminCommand, case
    <2>7. commands' \in [Rcon -> Seq(Order)]
        <3>1. CASE commands' = commands
            BY <3>1 DEF RelayInv
        <3>2. CASE commands' = [r \in Rcon |-> IF r \in Listening(m)
                                    THEN Append(commands[r], Command(case, m)) ELSE commands[r]]
            BY <2>5, <3>2 DEF RelayInv
        <3> QED
            BY <2>6, <3>1, <3>2
    <2>8. \/ inbox' = Tail(inbox)
          \/ inbox' = Tail(inbox) \o Each(n, m.channel, NoText)
          \/ inbox' = Tail(inbox) \o Each(2 * n, m.channel, <<"rcon">>)
        BY <2>1, Zenon DEF checkAdminCommand, n
    <2>9. inbox' \in Seq(Posting)
        <3>1. Each(n, m.channel, NoText) \in Seq(Posting)
            BY <2>2, <2>4, TextFacts, EachType
        <3>2. Each(2 * n, m.channel, <<"rcon">>) \in Seq(Posting)
            BY <2>2, <2>4, TextFacts, EachType
        <3> QED
            BY <1>1, <2>8, <3>1, <3>2, ConcatType
    <2> QED
        BY <1>2, <2>7, <2>9 DEF RelayInv
<1> QED
    BY <1>3, <1>4

LEMMA ServerRunsInv ==
    ASSUME RelayInv, NEW r \in Rcon, ServerRuns(r)
    PROVE  RelayInv'
<1> DEFINE c == Head(commands[r])
<1>1. c \in Order /\ Tail(commands[r]) \in Seq(Order)
    <2>1. commands[r] \in Seq(Order) /\ commands[r] # <<>>
        BY DEF ServerRuns, RelayInv
    <2> QED
        BY <2>1, HeadTailType
<1>2. commands' \in [Rcon -> Seq(Order)]
    BY <1>1 DEF ServerRuns, RelayInv
<1>3. [prefix |-> "admin", text |-> c.text] \in GameMessage
    BY <1>1 DEF Order, GameMessage, Prefix
<1>4. feed' = feed \/ feed' = [feed EXCEPT ![r] = Append(@, [prefix |-> "admin", text |-> c.text])]
    BY Zenon DEF ServerRuns
<1>5. feed' \in [Rcon -> Seq(GameMessage)]
    <2>1. CASE feed' = feed
        BY <2>1 DEF RelayInv
    <2>2. CASE feed' = [feed EXCEPT ![r] = Append(@, [prefix |-> "admin", text |-> c.text])]
        <3> HIDE DEF c
        <3> QED
            BY <1>3, <2>2 DEF RelayInv
    <2> QED
        BY <1>4, <2>1, <2>2
<1>6. inbox' \in Seq(Posting)
    <2>1. CASE inbox' = inbox
        BY <2>1 DEF RelayInv
    <2>2. CASE \E text \in GameTexts : inbox' = inbox \o Post(CommandChannel[r], text)
        <3>1. PICK text \in GameTexts : inbox' = inbox \o Post(CommandChannel[r], text)
            BY <2>2
        <3>2. Post(CommandChannel[r], text) \in Seq(Posting)
            BY RelayAssumption, PostType
        <3> QED
            BY <3>1, <3>2 DEF RelayInv
    <2> QED
        BY <2>1, <2>2 DEF ServerRuns
<1> QED
    BY <1>2, <1>5, <1>6 DEF ServerRuns, RelayInv

LEMMA PlayerChatsInv ==
    ASSUME RelayInv, NEW r \in Rcon, NEW prefix \in Prefix, NEW text \in GameTexts,
           PlayerChats(r, prefix, text)
    PROVE  RelayInv'
<1>1. [prefix |-> prefix, text |-> text] \in GameMessage
    BY RelayAssumption DEF GameMessage
<1>2. feed' \in [Rcon -> Seq(GameMessage)]
    BY <1>1 DEF PlayerChats, RelayInv
<1>3. chats' \in 0..MaxChats
    BY RelayAssumption DEF PlayerChats, RelayInv
<1> QED
    BY <1>2, <1>3 DEF PlayerChats, RelayInv

LEMMA ChatMessageInv ==
    ASSUME RelayInv, NEW r \in Rcon, ChatMessage(r)
    PROVE  RelayInv'
<1> DEFINE m == Head(feed[r])
<1>1. m \in GameMessage /\ Tail(feed[r]) \in Seq(GameMessage)
    BY DEF ChatMessage, RelayInv
<1>2. m.prefix \in Prefix /\ m.text \in RelayTexts
    BY <1>1 DEF GameMessage
<1>3. /\ feed' = [feed EXCEPT ![r] = Tail(@)]
      /\ inbox' = inbox \o Relayed(r, m) \o Notices(r, m)
      /\ commands' = [commands EXCEPT ![r] = @ \o Said(m)]
      /\ posts' = posts /\ chats' = chats
    BY DEF ChatMessage
<1> HIDE DEF m
<1>4. feed' \in [Rcon -> Seq(GameMessage)]
    BY <1>1, <1>3 DEF RelayInv, m
<1>5. Relayed(r, m) \in Seq(Posting)
    <2>1. DefaultChannel[r] \in Channel /\ Route[r][m.prefix] \in Channel \cup {NoChannel}
        BY <1>2, RelayAssumption
    <2>2. Post(DefaultChannel[r], NoText) \in Seq(Posting)
        BY <2>1, TextFacts, PostType
    <2>3. Post(DefaultChannel[r], m.text) \in Seq(Posting)
        BY <1>2, <2>1, PostType
    <2>4. Post(Route[r][m.prefix], m.text) \in Seq(Posting)
        BY <1>2, <2>1, PostType
    <2>5. Post(DefaultChannel[r], NoText) \o Post(DefaultChannel[r], m.text) \in Seq(Posting)
        BY <2>2, <2>3
    <2>6. <<>> \in Seq(Posting)
        OBVIOUS
    <2> QED
        BY <2>3, <2>4, <2>5, <2>6, Zenon DEF Relayed
<1>6. Notices(r, m) \in Seq(Posting)
    <2> DEFINE part(k) == IF Triggered(m, Actions[k]) /\ Actions[k].discordReply
                          THEN Post(Route[r]["admin"], m.text) \o Post(Route[r]["admin"], NoText)
                          ELSE <<>>
    <2>1. Route[r]["admin"] \in Channel \cup {NoChannel}
        BY RelayAssumption DEF Prefix
    <2>2. Post(Route[r]["admin"], m.text) \in Seq(Posting)
        BY <1>2, <2>1, PostType
    <2>3. Post(Route[r]["admin"], NoText) \in Seq(Posting)
        BY <2>1, TextFacts, PostType
    <2>4. \A k \in DOMAIN Actions : part(k) \in Seq(Posting)
        BY <2>2, <2>3
    <2>5. DOMAIN Actions = 1..Len(Actions) /\ Len(Actions) \in Nat
        BY RelayAssumption
    <2>6. Notices(r, m) = FlattenSeq([k \in DOMAIN Actions |-> part(k)])
        BY DEF Notices
    <2> HIDE DEF part
    <2>7. [k \in DOMAIN Actions |-> part(k)] \in Seq(Seq(Posting))
        BY <2>4, <2>5
    <2> QED
        BY <2>6, <2>7, FlattenType
<1>7. Said(m) \in Seq(Order)
    <2> DEFINE order(k) == [name |-> "say all", do |-> "tell", by |-> "action",
                            text |-> Actions[k].reply]
               part(k) == IF Triggered(m, Actions[k]) /\ Actions[k].reply # NoText
                          THEN <<order(k)>> ELSE <<>>
    <2>1. DOMAIN Actions = 1..Len(Actions) /\ Len(Actions) \in Nat
        BY RelayAssumption
    <2>2. \A k \in DOMAIN Actions : Actions[k].reply \in RelayTexts
        <3> DEFINE A == [command : Triggers, reply : RelayTexts, discordReply : BOOLEAN]
        <3>1. \A a \in A : a.reply \in RelayTexts
            OBVIOUS
        <3>2. Actions \in Seq(A)
            BY RelayAssumption
        <3> HIDE DEF A
        <3>3. \A k \in DOMAIN Actions : Actions[k] \in A
            BY <3>2
        <3> QED
            BY <3>1, <3>3
    <2>3. \A k \in DOMAIN Actions : order(k) \in Order
        BY <2>2, CaseFacts DEF Order
    <2>4. Said(m) = FlattenSeq([k \in DOMAIN Actions |-> part(k)])
        BY DEF Said
    <2> HIDE DEF order
    <2>5. \A k \in DOMAIN Actions : part(k) \in Seq(Order)
        BY <2>3
    <2> HIDE DEF part
    <2>6. [k \in DOMAIN Actions |-> part(k)] \in Seq(Seq(Order))
        BY <2>1, <2>5
    <2> QED
        BY <2>4, <2>6, FlattenType
<1>8. inbox' \in Seq(Posting)
    BY <1>3, <1>5, <1>6 DEF RelayInv
<1>9. commands' \in [Rcon -> Seq(Order)]
    BY <1>3, <1>7 DEF RelayInv
<1> QED
    BY <1>3, <1>4, <1>8, <1>9 DEF RelayInv

(* What is in the queues of the relay, for any servers, channels, roles,   *)
(* automatic replies and texts: a command on its way to a server is one    *)
(* that a user wrote or that an action says.                               *)
THEOREM RelayInvariant == RelaySpec => []RelayInv
<1>1. RelayInv /\ [RelayNext]_relayVars => RelayInv'
    <2> SUFFICES ASSUME RelayInv, [RelayNext]_relayVars PROVE RelayInv'
        OBVIOUS
    <2>1. CASE UNCHANGED relayVars
        BY <2>1 DEF RelayInv, relayVars
    <2>2. ASSUME NEW channel \in Channel, NEW text \in UserTexts, NEW roles \in SUBSET Role,
                 UserPosts(channel, text, roles)
          PROVE  RelayInv'
        BY <2>2, UserPostsInv
    <2>3. CASE OnMessage
        BY <2>3, OnMessageInv
    <2>4. ASSUME NEW r \in Rcon, ServerRuns(r) \/ ChatMessage(r) PROVE RelayInv'
        BY <2>4, ServerRunsInv, ChatMessageInv
    <2>5. ASSUME NEW r \in Rcon, NEW prefix \in Prefix, NEW text \in GameTexts,
                 PlayerChats(r, prefix, text)
          PROVE  RelayInv'
        BY <2>5, PlayerChatsInv
    <2> QED
        BY <2>1, <2>2, <2>3, <2>4, <2>5 DEF RelayNext
<1> QED
    BY InitRelayInv, <1>1, PTL DEF RelaySpec

(* A player's text that is relayed into a command channel, or comes back   *)
(* in an answer, is never run as a command, whatever the configuration:    *)
(* channels shared by servers, chat routed into the command channel,       *)
(* replies that contain commands.                                          *)
THEOREM GameTextNeverCommandsHolds == RelaySpec => []GameTextNeverCommands
<1>1. RelayInv => GameTextNeverCommands
    <2>1. \A c \in Order : c.by # "bot"
        BY DEF Order
    <2>2. ASSUME RelayInv, NEW r \in Rcon, NEW i \in DOMAIN commands[r]
          PROVE  commands[r][i] \in Order
        BY <2>2 DEF RelayInv
    <2> QED
        BY <2>1, <2>2 DEF GameTextNeverCommands
<1> QED
    BY RelayInvariant, <1>1, PTL
=============================================================================
