---------------------------- MODULE MessageText ----------------------------
(***************************************************************************)
(* The texts that pass through the adapter: what of an update is refused   *)
(* or ignored (internal/telegram/mapping.go), what the delivery decoder,   *)
(* the client and the store each accept (internal/protocol/validate.go,    *)
(* internal/telegram/client.go, internal/store/store.go), and the loops    *)
(* that fold, cut and truncate.                                            *)
(*                                                                         *)
(* A text is a sequence of runes; a rune is one of the classes the code's  *)
(* conditions tell apart.  A text is valid UTF-8: encoding/json made it.   *)
(***************************************************************************)
EXTENDS Naturals, SequencesExt

CONSTANTS
  MaxTextBytes,      \* 64 KiB
  MaxIdentityBytes,  \* 256, also of a metadata value
  MaxMessageBytes,   \* 1024, of a stored safe message
  MaxCharacters,     \* 4096, of sendMessage
  MaxLength          \* bound on the texts

ASSUME BytesAssumption ==
  MaxTextBytes \in Nat /\ MaxIdentityBytes \in Nat /\ MaxMessageBytes \in Nat
ASSUME CharactersAssumption == MaxCharacters \in Nat /\ MaxCharacters >= 2
\* A limit that the first rune of a name exceeds would leave the name empty.
ASSUME IdentityAssumption == MaxIdentityBytes >= 3

VARIABLE text

\* Runes: the bytes of each in UTF-8.
Width == [letter |-> 1, wide |-> 3, space |-> 1, newline |-> 1, return |-> 1,
          control |-> 1, nel |-> 2, mark |-> 2, joiner |-> 3, filler |-> 3]
Runes == DOMAIN Width

\* The bytes before each rune and after the last.
Offset(t) ==
  LET total[i \in 0..Len(t)] == IF i = 0 THEN 0 ELSE total[i - 1] + Width[t[i]]
  IN  total
Bytes(t) == Offset(t)[Len(t)]
RunesOf(t) == {t[i] : i \in DOMAIN t}

\* What of a text is at the positions P, up to each position.
Collect(t, P) ==
  LET kept[i \in 0..Len(t)] ==
        IF i = 0 THEN <<>>
        ELSE IF i \in P THEN Append(kept[i - 1], t[i]) ELSE kept[i - 1]
  IN  kept
Keep(t, R) == Collect(t, {i \in DOMAIN t : t[i] \in R})[Len(t)]

IsSpace == {"space", "newline", "return", "nel"}
IsControl == {"control", "newline", "return", "nel"}
Unsafe == IsControl \ {"newline", "return"}  \* newline: \n, and \t; return: \r
Formatting == {"joiner", "filler"}          \* Cf, and default ignorables
Invisible == IsSpace \cup IsControl \cup Formatting \cup {"mark"}

TrimSpace(t) ==
  LET seen == {i \in DOMAIN t : t[i] \notin IsSpace}
  IN  IF seen = {} THEN <<>> ELSE SubSeq(t, Min(seen), Max(seen))

-----------------------------------------------------------------------------
(* Inbound: MapUpdate.                                                     *)

WithinBounds(t) == t # <<>> /\ Bytes(t) <= MaxTextBytes
validMessageText(t) ==
  WithinBounds(t) /\ RunesOf(t) \cap Unsafe = {} /\ RunesOf(t) \ Invisible # {}

\* Fault: combining marks count as visible here only.
ignorableUnlessMarked(t) ==
  WithinBounds(t) /\ RunesOf(t) \subseteq Invisible \ (Unsafe \cup {"mark"})

ignorableMessageText(t) == WithinBounds(t) /\ RunesOf(t) \subseteq Invisible \ Unsafe

\* What becomes of a private text message; "invalid" is answered 400.
MapUpdateText(t) ==
  IF t = <<>> \/ ignorableMessageText(t) THEN "unsupported"
  ELSE IF validMessageText(t) THEN "event"
  ELSE "invalid"

\* The state of the loop of SanitizeDisplayName and of sanitizeMetadataText: what
\* is written, whether a space is pending, and whether the loop has been left.
Loop(out, pending, full) == [out |-> out, pending |-> pending, full |-> full]

\* Fault: a rune that does not fit is skipped, and the loop goes on.
FoldAndSkip(acc, r, limit) ==
  IF r \in IsSpace THEN Loop(acc.out, acc.out # <<>>, FALSE)
  ELSE LET out == acc.out \o (IF acc.pending THEN <<"space", r>> ELSE <<r>>)
       IN  IF r \in IsControl \cup Formatting \/ Bytes(out) > limit THEN acc
           ELSE Loop(out, FALSE, FALSE)

\* One rune: whitespace is folded, the space being written with the next rune,
\* and the loop breaks at the first byte that does not fit.
FoldStep(acc, r, limit) ==
  IF acc.full THEN acc
  ELSE IF r \in IsSpace THEN Loop(acc.out, acc.out # <<>>, FALSE)
  ELSE IF r \in IsControl \cup Formatting THEN acc
  ELSE LET spaced == IF acc.pending THEN Append(acc.out, "space") ELSE acc.out
       IN  IF Bytes(spaced) > limit THEN Loop(acc.out, acc.pending, TRUE)
           ELSE IF Bytes(spaced) + Width[r] > limit THEN Loop(spaced, FALSE, TRUE)
           ELSE Loop(Append(spaced, r), FALSE, FALSE)

\* The loop, after each rune.
FoldRun(t, limit) ==
  LET run[i \in 0..Len(t)] ==
        IF i = 0 THEN Loop(<<>>, FALSE, FALSE) ELSE FoldStep(run[i - 1], t[i], limit)
  IN  run
Fold(t, limit) == TrimSpace(FoldRun(t, limit)[Len(t)].out)

\* A user: first and last name, and the username that stands in for them.
DisplayName(first, last, username) ==
  LET name == Fold(TrimSpace(first \o <<"space">> \o last), MaxIdentityBytes)
  IN  IF name = <<>> THEN Fold(username, MaxIdentityBytes) ELSE name

-----------------------------------------------------------------------------
(* Outbound: the decoder, the client, the store.                           *)

containsUnsafeControl(t, allowNewlines) ==
  RunesOf(t) \cap (IF allowNewlines THEN Unsafe ELSE IsControl) # {}

ValidDeliveryText(t) == WithinBounds(t) /\ ~containsUnsafeControl(t, TRUE)

validateRequiredIdentity(t) ==
  /\ t # <<>> /\ t = TrimSpace(t)
  /\ Bytes(t) <= MaxIdentityBytes /\ ~containsUnsafeControl(t, FALSE)

\* Fault: one line only.
validOneLineText(t) == WithinBounds(t) /\ RunesOf(t) \cap IsControl = {}

validOutboundText(t) == WithinBounds(t) /\ RunesOf(t) \cap Unsafe = {}

\* The identity the store files a delivery under; "invalid" is its error.
normalizeIdentity(t) ==
  LET trimmed == TrimSpace(t)
  IN  IF trimmed = <<>> \/ Bytes(trimmed) > MaxIdentityBytes
         \/ RunesOf(trimmed) \cap IsControl # {}
      THEN "invalid" ELSE trimmed

\* Of uniseg: where a grapheme cluster ends, in runes from the start.
Joined(t, i) ==
  \/ t[i] \notin IsControl /\ t[i + 1] \in {"mark", "joiner"}
  \/ t[i] = "return" /\ t[i + 1] = "newline"
ClusterEnds(t) == {i \in 1..Len(t) : i = Len(t) \/ ~Joined(t, i)}

Suffix == <<"newline", "letter">>  \* telegramTruncationSuffix

\* Fault: the text is cut at a rune.
truncateAtRune(t) ==
  IF Len(t) <= MaxCharacters THEN t
  ELSE SubSeq(t, 1, MaxCharacters - Len(Suffix)) \o Suffix

\* How many runes are used, and whether the loop has been left, after each rune:
\* a cluster is written at its end.
Used(t) ==
  LET limit == MaxCharacters - Len(Suffix)
      use[i \in 0..Len(t)] ==
        IF i = 0 THEN [runes |-> 0, full |-> FALSE]
        ELSE IF use[i - 1].full \/ i \notin ClusterEnds(t) THEN use[i - 1]
        ELSE IF i > limit THEN [use[i - 1] EXCEPT !.full = TRUE]
        ELSE [use[i - 1] EXCEPT !.runes = i]
  IN  use
truncateTelegramText(t) ==
  IF Len(t) <= MaxCharacters THEN t
  ELSE SubSeq(t, 1, Used(t)[Len(t)].runes) \o Suffix

\* The bytes of a text, each with its place in its rune.
Encoding(t) ==
  LET bytes[i \in 0..Len(t)] ==
        IF i = 0 THEN <<>>
        ELSE bytes[i - 1] \o [b \in 1..Width[t[i]] |-> <<t[i], b>>]
  IN  bytes
Encoded(t) == Encoding(t)[Len(t)]
ValidString(b) == b = <<>> \/ Last(b)[2] = Width[Last(b)[1]]

\* Fault: the cut is not moved back to the start of a rune.
CutAnywhere(b, limit) == SubSeq(b, 1, IF Len(b) < limit THEN Len(b) ELSE limit)

\* Cut at the limit, then byte by byte until the string is valid.
CutBytes(b, limit) ==
  IF Len(b) <= limit THEN b
  ELSE LET valid == {n \in 0..limit : ValidString(SubSeq(b, 1, n))}
       IN  SubSeq(b, 1, Max(valid))

\* SanitizeMessage and normalizeSafeMessage: the bytes kept of a message.
Printable(t) == Keep(TrimSpace(t), Runes \ (Unsafe \cup {"return"}))
normalizeSafeMessage(t) == CutBytes(Encoded(Printable(t)), MaxMessageBytes)

-----------------------------------------------------------------------------
InitText == text = <<>>
Type(r) == Len(text) < MaxLength /\ text' = Append(text, r)
NextText == \E r \in Runes : Type(r)
TextSpec == InitText /\ [][NextText]_text

-----------------------------------------------------------------------------
(* Properties.                                                             *)

\* Whoever only sends what nobody can see blocks nothing: of the texts within
\* bounds, MapUpdate makes an error (and with it Telegram's next attempt at the
\* same update) of those with an unsafe control alone.
OnlyUnsafeRefused ==
  Bytes(text) <= MaxTextBytes =>
    (MapUpdateText(text) = "invalid" <=> RunesOf(text) \cap Unsafe # {})

\* The legible runes, single-spaced: those of words, and of the whitespace between
\* two words the last.
Folded(t) ==
  LET skipped == {i \in DOMAIN t : t[i] \in (IsControl \cup Formatting) \ IsSpace}
      words == {i \in DOMAIN t : t[i] \notin IsSpace} \ skipped
      spaces == {i \in DOMAIN t : t[i] \in IsSpace /\
                   \E w, v \in words : w < i /\ i < v /\ (i + 1)..(v - 1) \subseteq skipped}
      spaced == [i \in DOMAIN t |-> IF t[i] \in IsSpace THEN "space" ELSE t[i]]
  IN  Collect(spaced, words \cup spaces)[Len(t)]

\* A name or a quote that Orka is given is the longest beginning of the folded
\* one within the limit ("folds whitespace, and bounds the result").
NamesFolded ==
  \A cut \in 0..Len(text) :
    LET first == SubSeq(text, 1, cut)
        last == SubSeq(text, cut + 1, Len(text))
        name == Folded(first \o <<"space">> \o last)
        shown == DisplayName(first, last, <<"letter">>)
        fits == {n \in 0..Len(name) : Bytes(SubSeq(name, 1, n)) <= MaxIdentityBytes}
    IN  IF name = <<>> THEN shown = <<"letter">>
        ELSE shown = TrimSpace(SubSeq(name, 1, Max(fits)))

\* A text that reached Orka may come back: what MapUpdate lets in the decoder
\* of deliveries accepts, and what that accepts the client does not refuse once
\* the delivery is recorded as sending; and two deliveries the decoder tells
\* apart are never one to the store.
AcceptedPasses ==
  /\ MapUpdateText(text) = "event" => ValidDeliveryText(text)
  /\ ValidDeliveryText(text) => validOutboundText(text)
  /\ validateRequiredIdentity(text) => normalizeIdentity(text) = text

\* What is sent is within Telegram's limit and consists of whole grapheme
\* clusters of the text, from the first, as many as fit beside the suffix.
SentWhole ==
  LET sent == truncateTelegramText(text)
      kept == Len(sent) - Len(Suffix)
  IN  /\ Len(sent) <= MaxCharacters
      /\ sent # text =>
           /\ sent = SubSeq(text, 1, kept) \o Suffix
           /\ {e \in ClusterEnds(text) : e <= MaxCharacters - Len(Suffix)} =
                ClusterEnds(SubSeq(text, 1, kept))

\* A stored message is cut between two runes: it consists of the first of what is
\* printable of the text, as many as fit.
CutBetweenRunes ==
  LET message == normalizeSafeMessage(text)
      whole == Printable(text)
  IN  /\ Len(message) <= MaxMessageBytes
      /\ \E n \in 0..Len(whole) :
           /\ message = Encoded(SubSeq(whole, 1, n))
           /\ n < Len(whole) => Len(message) + Width[whole[n + 1]] > MaxMessageBytes

=============================================================================
