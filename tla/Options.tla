------------------------------- MODULE Options -------------------------------
(***************************************************************************)
(* The option string of ck-client (cmd/ck-client/main.c): "key=value"      *)
(* fields separated by ';', with '\' before a '\', '=' or ';' that is part *)
(* of a key or a value.  The command line overrides and completes it by    *)
(* rewriting the text (conf_set, conf_default), and the library's parser   *)
(* (libcloak-common/src/config_ssv.c) reads the result: two scanners that  *)
(* must agree on every text.                                               *)
(*                                                                         *)
(* A text is a sequence of characters; those without a meaning are letters.*)
(***************************************************************************)
EXTENDS Integers, FiniteSets, SequencesExt

CONSTANTS Letters,     \* characters without a meaning
          OptionKeys,  \* the names the command line sets, sequences of Letters
          Values,      \* the values it gives them
          Texts,       \* the option strings to start from
          VAL_CAP,     \* CLOAK_MAX_PATH_LEN: room for an unescaped value and its end
          MaxSets      \* overrides in a row

VARIABLES text,      \* ck_conf_t's text
          told,      \* key -> the value it should have, << >> if none
          given,     \* the keys written so far
          sets,      \* flags applied so far
          clean      \* the document was well formed

ovars == <<text, told, given, sets, clean>>

Escapable == {"\\", "=", ";"}
Chars == Letters \cup Escapable

(* Position i of s is escaped: an odd number of '\' stands before it, as   *)
(* the scanners skip two characters at a '\'.                              *)
Escaped(s, i) ==
    Cardinality({j \in 1 .. i - 1 : \A h \in j .. i - 1 : s[h] = "\\"}) % 2 = 1

(* Where s has an unescaped c: ssv_field_end and ssv_key_end look for the  *)
(* first one, and the library's two loops do.                              *)
Unescaped(s, c) == {i \in 1 .. Len(s) : s[i] = c /\ ~ Escaped(s, i)}

(* The fields of a text, in order, empty ones included. *)
Fields(s) ==
    LET ends == SetToSortSeq(Unescaped(s, ";") \cup {0, Len(s) + 1}, <)
    IN [f \in 1 .. Len(ends) - 1 |-> SubSeq(s, ends[f] + 1, ends[f + 1] - 1)]

(* ssv_unescape and the library's unescape: one character per escape. *)
Unescape(s) ==
    LET kept == SelectSeq([i \in 1 .. Len(s) |-> i],
                          LAMBDA i : ~ (/\ s[i] = "\\" /\ ~ Escaped(s, i)
                                        /\ i < Len(s) /\ s[i + 1] \in Escapable))
    IN [i \in 1 .. Len(kept) |-> s[kept[i]]]

(* An escape that leaves the escape character itself alone. *)
EscapeSome(s) == FlattenSeq([i \in 1 .. Len(s) |->
                 IF s[i] \in {"=", ";"} THEN <<"\\", s[i]>> ELSE <<s[i]>>])

(* ssv_escape. *)
Escape(s) == FlattenSeq([i \in 1 .. Len(s) |->
                 IF s[i] \in Escapable THEN <<"\\", s[i]>> ELSE <<s[i]>>])

(* A field has a key if it has an unescaped '='. *)
HasKey(f) == Unescaped(f, "=") # {}
KeyOf(f) == Unescape(SubSeq(f, 1, Min(Unescaped(f, "=")) - 1))
ValueOf(f) == Unescape(SubSeq(f, Min(Unescaped(f, "=")) + 1, Len(f)))

(* The fields of s with key k: ssv_key_is. *)
FieldsOf(s, k) == SelectSeq(Fields(s), LAMBDA f : HasKey(f) /\ KeyOf(f) = k)

(* conf_get: the first field with the key, if its value fits; an empty     *)
(* value reads as none.                                                    *)
ConfGet(s, k) ==
    LET fs == FieldsOf(s, k)
    IN IF fs = << >> \/ Len(ValueOf(fs[1])) >= VAL_CAP THEN << >> ELSE ValueOf(fs[1])

Join(fs) == FoldLeft(LAMBDA s, f : IF s = << >> THEN f ELSE s \o <<";">> \o f, << >>, fs)

(* conf_set: every other field is copied through, empty ones are dropped,  *)
(* and the new one is appended.                                            *)
ConfSet(s, k, v) ==
    Join(Append(SelectSeq(Fields(s), LAMBDA f : f # << >> /\ ~ (HasKey(f) /\ KeyOf(f) = k)),
                k \o <<"=">> \o Escape(v)))

(* What cloak_client_config_parse_ssv makes of a text: its options in      *)
(* order, or "malformed" if a field has no '=' or a value does not fit.    *)
Malformed(s) ==
    \E f \in Range(Fields(s)) : f # << >> /\ (~ HasKey(f) \/ Len(ValueOf(f)) >= VAL_CAP)
ParseSsv(s) == [i \in 1 .. Len(SelectSeq(Fields(s), HasKey)) |->
                  LET f == SelectSeq(Fields(s), HasKey)[i]
                  IN [key |-> KeyOf(f), value |-> ValueOf(f)]]

(* What cJSON_GetObjectItem finds in the object built from them: the first *)
(* option of that name.                                                    *)
Option(opts, k) ==
    LET hits == {i \in DOMAIN opts : opts[i].key = k}
    IN IF hits = {} THEN << >> ELSE opts[Min(hits)].value

(* conf_load takes -c for an option string if it has a ';' and a '='. *)
OInit ==
    /\ text \in {s \in Texts : {";", "="} \subseteq Range(s)}
    /\ told = [k \in OptionKeys |-> Option(ParseSsv(text), k)]
    /\ given = {} /\ sets = 0
    /\ clean = ~ Malformed(text)

(* A flag that was given: conf_set. *)
SetOption(k, v) ==
    /\ sets < MaxSets
    /\ text' = ConfSet(text, k, v)
    /\ told' = [told EXCEPT ![k] = v]
    /\ given' = given \cup {k}
    /\ sets' = sets + 1
    /\ UNCHANGED clean

(* conf_default: only where the document says nothing. *)
DefaultOption(k, v) ==
    /\ sets < MaxSets
    /\ v # << >>
    /\ IF ConfGet(text, k) # << >> THEN UNCHANGED <<text, given>>
       ELSE text' = ConfSet(text, k, v) /\ given' = given \cup {k}
    /\ told' = IF told[k] # << >> /\ Len(told[k]) < VAL_CAP THEN told
               ELSE [told EXCEPT ![k] = v]
    /\ sets' = sets + 1
    /\ UNCHANGED clean

ONext == \E k \in OptionKeys, v \in Values : SetOption(k, v) \/ DefaultOption(k, v)

(***************************************************************************)
(* The parser sees what the command line said: after any overrides and     *)
(* defaults, every option the library reads from the text, and every one   *)
(* that ck-client itself reads, is the one that was set last, or else the  *)
(* document's own; a key that was written names one field; and a document  *)
(* that was well formed stays so.                                          *)
(***************************************************************************)
OptionsAreKept ==
    /\ \A k \in OptionKeys :
         Len(told[k]) < VAL_CAP =>
            /\ Option(ParseSsv(text), k) = told[k]
            /\ ConfGet(text, k) = told[k]
    /\ \A k \in given : Len(FieldsOf(text, k)) = 1
    /\ clean => ~ Malformed(text)
=============================================================================
