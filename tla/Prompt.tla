------------------------------- MODULE Prompt -------------------------------
(***************************************************************************)
(* From a question to the board: build_encoder_input (tokenizer/bpe.py and *)
(* web/bpe.js) encodes the query and the tools and cuts both to the        *)
(* encoder's length; the ids travel as JSON to h_tokens (net.c) or as a    *)
(* "G <n> <ids>" line to the console (fw_main.c), each with a parser of    *)
(* its own.  Clients also send lists they made themselves.                 *)
(***************************************************************************)
EXTENDS BpeMerge

CONSTANTS
  MaxEnc,        \* NE_MAX_ENC and max_enc_len
  ToolsId,       \* <tools>
  Queries, Catalogues,  \* texts; a catalogue is JSON and never empty
  OutOfRange,    \* a number that is no id
  Word,          \* what is no number
  RawLists,      \* lists of ids and these two that clients send themselves
  Refused

ASSUME PromptAssumption ==
  /\ MaxEnc \in Nat /\ MaxEnc > 2
  /\ \A text \in Queries \cup Catalogues : text \in Seq(Letters \cup {Blank} \cup DOMAIN Utf8)
  /\ \A text \in Catalogues : \E k \in DOMAIN text : text[k] # Blank
  /\ \A w \in {OutOfRange, Word} : w # ToolsId /\ w \notin Seq(Letters \cup Bytes)
  /\ \A l \in RawLists : l \in Seq(Range(l))

VARIABLES
  stage, q,
  built,          \* the list was built by build_encoder_input
  sent, declared, \* the list and the console line's n
  ran             \* what the board encodes, or Refused

promptVars == <<stage, q, built, sent, declared, ran>>

PromptInit ==
  /\ Init
  /\ stage = "idle" /\ q = <<>>
  /\ built = FALSE /\ sent = <<>> /\ declared = 0 /\ ran = Refused

Take(s, n) == SubSeq(s, 1, IF n < Len(s) THEN n ELSE Len(s))

-----------------------------------------------------------------------------

EncodeQuery(text) ==
  /\ stage \in {"idle", "done"}
  /\ StartEncode(text)
  /\ stage' = "query" /\ q' = <<>>
  /\ built' = FALSE /\ sent' = <<>> /\ declared' = 0 /\ ran' = Refused

Merges == Merging /\ UNCHANGED promptVars

(* The query keeps all but two places; then the tools are encoded.         *)
EncodeTools(text) ==
  /\ stage = "query" /\ ~merging
  /\ q' = Take(ids, MaxEnc - 2)
  /\ StartEncode(text)
  /\ stage' = "tools"
  /\ UNCHANGED <<built, sent, declared, ran>>

(* MUTANT: the place of the <tools> id is not counted.                     *)
BuildOneMore ==
  /\ stage = "tools" /\ ~merging
  /\ sent' = q \o <<ToolsId>> \o Take(ids, MaxEnc - Len(q))
  /\ declared' = Len(sent')
  /\ built' = TRUE /\ stage' = "send"
  /\ UNCHANGED <<vars, q, ran>>

(* The tools get the places that are left; callers of the console count.   *)
Build ==
  /\ stage = "tools" /\ ~merging
  /\ sent' = q \o <<ToolsId>> \o Take(ids, MaxEnc - Len(q) - 1)
  /\ declared' = Len(sent')
  /\ built' = TRUE /\ stage' = "send"
  /\ UNCHANGED <<vars, q, ran>>

(* A list by hand, with a count by hand.                                   *)
SendRaw(l, n) ==
  /\ stage = "idle" /\ stage' = "send"
  /\ sent' = l /\ declared' = n
  /\ UNCHANGED <<vars, q, built, ran>>

(* h_tokens: elements up to the first that is no number, MaxEnc at most.   *)
(* The body of a list by hand may be larger than the buffer (413); the one *)
(* a page sends for MaxEnc ids, six characters an id, is not.              *)
HttpParse ==
  LET words == {k \in DOMAIN sent : sent[k] = Word}
      before == Take(sent, IF words = {} THEN Len(sent) ELSE Min(words) - 1)
      read == Take(before, MaxEnc)
  IN  /\ stage = "send" /\ stage' = "done"
      /\ \E tooLarge \in BOOLEAN :
           /\ tooLarge => ~built
           /\ ran' = IF tooLarge \/ read = <<>> \/ OutOfRange \in Range(read)
                     THEN Refused ELSE read
      /\ UNCHANGED <<vars, q, built, sent, declared>>

(* The console: exactly n ids, what follows them is not read.              *)
ConsoleParse ==
  LET read == Take(sent, declared)
  IN  /\ stage = "send" /\ stage' = "done"
      /\ ran' = IF \/ declared <= 0 \/ declared > MaxEnc
                   \/ Len(read) < declared \/ {OutOfRange, Word} \cap Range(read) # {}
                THEN Refused ELSE read
      /\ UNCHANGED <<vars, q, built, sent, declared>>

PromptNext ==
  \/ \E text \in Queries : EncodeQuery(text)
  \/ \E text \in Catalogues : EncodeTools(text)
  \/ Merges \/ Build
  \/ \E l \in RawLists, n \in 0 .. MaxEnc + 1 : SendRaw(l, n)
  \/ HttpParse \/ ConsoleParse

PromptSpec == PromptInit /\ [][PromptNext]_<<vars, promptVars>>

-----------------------------------------------------------------------------

(* A built prompt reaches the encoder whole, on either route: no question, *)
(* however long, leaves the tools without an id or the list longer than    *)
(* the board reads, which over HTTP would be cut without a word            *)
(* (net.c:166).  Of other lists the board runs a prefix, if any; the       *)
(* console never pads a short line (fw_main.c:465-468).                    *)
ArrivesWhole ==
  stage = "done" =>
    /\ built => /\ ran = sent
                /\ \E k \in 1 .. Len(sent) - 1 : sent[k] = ToolsId
    /\ ran # Refused => IsPrefix(ran, sent) /\ OutOfRange \notin Range(ran)
=============================================================================
