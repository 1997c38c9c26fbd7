---------------------------- MODULE AscmdResults ----------------------------
(***************************************************************************)
(* How the Rust and the Go helper (utils/server.rs, utils/server.go)       *)
(* decode the answer of an ascmd command: a TLV whose value is a sequence  *)
(* of TLVs, one per field.  Values are told apart by what their decoders   *)
(* look at: their length, their last byte and their encoding.              *)
(***************************************************************************)
EXTENDS Naturals, Sequences

CONSTANTS
    Tags,       \* tags of the fields, those no decoder knows among them
    FileTags,   \* those of the fields given of the files of a directory
    MaxFields   \* bound: TLVs in one answer

ASSUME ResultsAssumption ==
    /\ Tags \subseteq Nat /\ FileTags \subseteq Tags
    /\ MaxFields \in Nat

VARIABLE answer   \* the answer: its tag, the TLVs in it, whether the last is cut

(* The values: ended by a zero byte and valid UTF-8, or not; of 4 bytes;   *)
(* of 8; none of these.                                                    *)
Forms == {"text", "latin", "four", "eight", "bare"}

Stream(tlvs, cut) == [tlvs |-> tlvs, cut |-> cut]
Nothing == Stream(<<>>, FALSE)
Field(t, f) == [tag |-> t, form |-> f, file |-> Nothing]
File(t, s) == [tag |-> t, form |-> "bare", file |-> s]

(* What becomes of an answer: what was taken from it so far, or up to its  *)
(* tag 0; what was made of it in the end, or why nothing was.              *)
Taken(what) == [is |-> "reading", got |-> what]
Over(what)  == [is |-> "over", got |-> what]
Ok(what)    == [is |-> "ok", got |-> what]
Err         == [is |-> "err", got |-> <<>>]
Panic       == [is |-> "panic", got |-> <<>>]

Dir == 2
Mounts == 8

-----------------------------------------------------------------------------
(* The fields of each kind of answer, in the order of their tags.          *)

StatFields ==
    <<"zstr", "u64", "u32", "zstr", "u32", "zstr", "u32", "zstr", "u64", "zstr",
      "u64", "zstr", "u64", "zstr", "zstr", "u32", "zstr">>
InfoFields ==
    <<"zstr", "zstr", "zstr", "zstr", "zstr", "zstr", "zstr", "zstr", "zstr", "zstr",
      "zstr", "u64">>
MountFields == <<"zstr", "zstr", "zstr", "u64", "u64", "u64", "u64", "u32", "zstr">>
SizeFields == <<"u64", "u32", "u32", "u32", "u32">>
ErrorFields == <<"u32", "zstr">>
Md5sumFields == <<"zstr">>

GoStatFields ==
    <<"zstr", "u64", "u32", "zstr", "u32", "zstr", "u32", "zstr", "u64", "zstr",
      "u64", "zstr", "u64", "zstr", "zstr", "u32", "zstr">>
GoInfoFields ==
    <<"zstr", "zstr", "zstr", "zstr", "zstr", "zstr", "zstr", "zstr", "zstr", "dev",
      "zstr", "u64">>
GoMountFieldsWide ==   \* mutant: errno of a mount read as 8 bytes
    <<"zstr", "zstr", "zstr", "u64", "u64", "u64", "u64", "u64", "zstr">>
GoMountFields == <<"zstr", "zstr", "zstr", "u64", "u64", "u64", "u64", "u32", "zstr">>
GoSizeFields == <<"u64", "u32", "u32", "u32", "u32">>
GoErrorFields == <<"u32", "zstr">>
GoMd5sumFields == <<"zstr">>

(* The results whose value is a sequence of fields, by tag.                *)
Results == {1, 3, 4, 5, Mounts, 9}
RustFields ==
    [result \in Results |->
        CASE result = 1 -> StatFields [] result = 3 -> SizeFields [] result = 4 -> ErrorFields
          [] result = 5 -> InfoFields [] result = Mounts -> MountFields
          [] result = 9 -> Md5sumFields]
GoFields ==
    [result \in Results |->
        CASE result = 1 -> GoStatFields [] result = 3 -> GoSizeFields
          [] result = 4 -> GoErrorFields [] result = 5 -> GoInfoFields
          [] result = Mounts -> GoMountFields [] result = 9 -> GoMd5sumFields]

(* decode_zstr, decode_u32, decode_u64: the values they decode.  Rust      *)
(* replaces what is not UTF-8; Go refuses it.  Of a device, Go stores the  *)
(* empty string it gets with the error.                                    *)
RustDecodes == [zstr |-> {"text", "latin"}, u32 |-> {"four"}, u64 |-> {"eight"}]
GoDecodes   == [zstr |-> {"text"}, u32 |-> {"four"}, u64 |-> {"eight"}, dev |-> Forms]

(* The fields that are neither 0 nor empty before they are decoded: the    *)
(* protocol of an Info is 1 in Rust.                                       *)
RustPreset == [result \in Results |-> IF result = 5 THEN {12} ELSE {}]
GoPreset   == [result \in Results |-> {}]

(* An object: the fields taken for it, and those that keep such a value.   *)
Object(got, preset) == [taken |-> got, kept |-> preset \ {got[i].tag : i \in DOMAIN got}]

-----------------------------------------------------------------------------
(* The decoding loops.                                                     *)

(* TLVs are taken one by one: what the last one leaves.                    *)
Decoded(Step(_, _), tlvs) ==
    LET acc[n \in 0..Len(tlvs)] ==
            IF n = 0 THEN Taken(<<>>) ELSE Step(acc[n - 1], tlvs[n])
    IN  acc[Len(tlvs)]

(* Rust, one field.  A field of a mount before its tag 1 has no mount to   *)
(* go to: unwrap on None, once the value is decoded.                       *)
RustField(result, acc, tlv) ==
    IF acc.is # "reading" THEN acc
    ELSE IF tlv.tag = 0 THEN Over(acc.got)
    ELSE IF tlv.tag \notin DOMAIN RustFields[result] THEN Err
    ELSE IF tlv.form \notin RustDecodes[RustFields[result][tlv.tag]] THEN Err
    ELSE IF result = Mounts /\ tlv.tag # 1 /\ acc.got = <<>> THEN Panic
    ELSE Taken(Append(acc.got, tlv))

(* while let Ok(tlv) = read_tlv(...): a TLV that is cut ends the loop too. *)
RustObject(result, stream) ==
    LET last == Decoded(LAMBDA acc, tlv : RustField(result, acc, tlv), stream.tlvs)
    IN  IF last.is \in {"reading", "over"} THEN Ok(Object(last.got, RustPreset[result])) ELSE last

(* Go, one field: the nil pointer is met whatever the value is.            *)
GoField(result, acc, tlv) ==
    IF acc.is # "reading" THEN acc
    ELSE IF tlv.tag = 0 THEN Over(acc.got)
    ELSE IF tlv.tag \notin DOMAIN GoFields[result] THEN Err
    ELSE IF result = Mounts /\ tlv.tag # 1 /\ acc.got = <<>> THEN Panic
    ELSE IF tlv.form \notin GoDecodes[GoFields[result][tlv.tag]] THEN Err
    ELSE Taken(Append(acc.got, tlv))

GoObjectLenient(result, stream) ==   \* mutant: a cut TLV ends the loop
    LET last == Decoded(LAMBDA acc, tlv : GoField(result, acc, tlv), stream.tlvs)
    IN  IF last.is \in {"reading", "over"} THEN Ok(Object(last.got, GoPreset[result])) ELSE last

(* readTLV: a TLV that is cut is an error.                                 *)
GoObject(result, stream) ==
    LET last == Decoded(LAMBDA acc, tlv : GoField(result, acc, tlv), stream.tlvs)
    IN  IF last.is = "reading" /\ stream.cut THEN Err
        ELSE IF last.is \in {"reading", "over"} THEN Ok(Object(last.got, GoPreset[result]))
        ELSE last

(* A directory: one TLV of tag 1 per file.                                 *)
RustFile(acc, tlv) ==
    IF acc.is # "reading" THEN acc
    ELSE IF tlv.tag = 0 THEN Over(acc.got)
    ELSE IF tlv.tag # 1 THEN Err
    ELSE LET stat == RustObject(1, tlv.file) IN
         IF stat.is # "ok" THEN stat
         ELSE Taken(Append(acc.got, stat.got))

GoFile(acc, tlv) ==
    IF acc.is # "reading" THEN acc
    ELSE IF tlv.tag # 1 THEN Err
    ELSE LET stat == GoObject(1, tlv.file) IN
         IF stat.is # "ok" THEN stat
         ELSE Taken(Append(acc.got, stat.got))

(* CommandResult::new and newCommandResult.                                *)
RustResult(a) ==
    CASE a.tag \in DOMAIN RustFields -> RustObject(a.tag, a.value)
      [] a.tag = Dir -> LET last == Decoded(RustFile, a.value.tlvs)
                        IN  IF last.is \in {"reading", "over"} THEN Ok(last.got) ELSE last
      [] a.tag \in {6, 7} -> Ok(<<>>)
      [] OTHER -> Err

GoResult(a) ==
    CASE a.tag \in DOMAIN GoFields -> GoObject(a.tag, a.value)
      [] a.tag = Dir -> LET last == Decoded(GoFile, a.value.tlvs)
                        IN  IF last.is # "reading" THEN last
                            ELSE IF a.value.cut THEN Err
                            ELSE Ok(last.got)
      [] a.tag \in {6, 7} -> Ok(<<>>)
      [] OTHER -> Err

-----------------------------------------------------------------------------
(* The answers: ascmd's, and those of an ascmd that knows other fields or  *)
(* fails while it writes one.                                              *)

AnAnswer == \E t \in 0..10 : answer = [tag |-> t, value |-> Nothing]

Fields == {Field(t, f) : t \in Tags, f \in Forms}

Files == {File(t, Stream(tlvs, cut)) :
             t \in {0, 1, 2}, cut \in BOOLEAN,
             tlvs \in {<<>>} \cup {<<Field(u, f)>> : u \in FileTags, f \in Forms}}

Extend(tlv) ==
    /\ ~answer.value.cut
    /\ Len(answer.value.tlvs) < MaxFields
    /\ answer' = [answer EXCEPT !.value.tlvs = Append(@, tlv)]

(* The first bytes of one more TLV, of which the others are missing.       *)
CutShort ==
    /\ ~answer.value.cut
    /\ answer' = [answer EXCEPT !.value.cut = TRUE]

AnswerGrows ==
    \/ answer.tag # Dir /\ \E tlv \in Fields : Extend(tlv)
    \/ answer.tag = Dir /\ \E tlv \in Files : Extend(tlv)
    \/ CutShort

-----------------------------------------------------------------------------
(* Properties.                                                             *)

Whole(value) == ~value.cut /\ \A i \in DOMAIN value.tlvs : ~value.tlvs[i].file.cut
Plain(tlv) == tlv.form # "latin"

(* An answer in UTF-8 that is whole means the same to the two helpers: the *)
(* same fields, the same error or the same panic.  The exceptions: Go does *)
(* not check the name of a device; of a malformed field of a mount that    *)
(* has not begun Rust returns the error, Go panics; a tag 0 among the      *)
(* files of a directory ends it in Rust and is an error in Go; and an Info *)
(* without its tag 12 has protocol 1 in Rust, 0 in Go.                     *)
SameMeaning ==
    LET rust == RustResult(answer)
        go == GoResult(answer)
        SameButProtocol ==
            /\ answer.tag = 5 /\ go.is = "ok"
            /\ rust = Ok([taken |-> go.got.taken, kept |-> {12}])
    IN  /\ Whole(answer.value)
        /\ \A i \in DOMAIN answer.value.tlvs :
              LET tlv == answer.value.tlvs[i] IN
              /\ Plain(tlv) /\ \A j \in DOMAIN tlv.file.tlvs : Plain(tlv.file.tlvs[j])
              /\ answer.tag = 5 /\ tlv.tag = 10 => tlv.form = "text"
              /\ answer.tag = Mounts /\ i = 1 /\ tlv.tag \in DOMAIN MountFields \ {1} =>
                    tlv.form \in RustDecodes[MountFields[tlv.tag]]
              /\ answer.tag = Dir => tlv.tag # 0
        => rust = go \/ SameButProtocol

(* An answer that ends within a TLV is not taken for a whole one by Go     *)
(* (Rust returns what came before the cut).                                *)
GoRefusesCut ==
    /\ answer.value.cut /\ answer.tag \notin {6, 7}
    /\ \A i \in DOMAIN answer.value.tlvs : answer.value.tlvs[i].tag # 0
    => GoResult(answer).is # "ok"
=============================================================================
