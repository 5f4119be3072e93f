----------------------------- MODULE BundleFile -----------------------------
(***************************************************************************)
(* The fields of a bundle file in the order save_bundle writes them, those *)
(* of a file without header as save_model writes them, and load_bundle and *)
(* load_model, which read on when the file is at its end.                  *)
(*                                                                         *)
(* A field is opaque, but for the flag that announces a scaler.  A file is *)
(* the sequence of its fields; one that is cut inside a field ends in a    *)
(* Part of it.                                                             *)
(***************************************************************************)
EXTENDS Naturals, Sequences, SequencesExt

Names == <<"act", "in", "hidden", "out", "W1", "b1", "W2", "b2", "temp", "has", "n", "mean", "stdv">>
Fields == ToSet(Names)

\* The parts of a file: from act to has, of these in to b2, and behind them the number
\* of features n, mean and stdv.
Header == SubSeq(Names, 1, 10)
Model  == SubSeq(Names, 2, 8)
Scaler == SubSeq(Names, 11, 13)

\* Stands for what is in a field that was read in part: the first bytes of an
\* integer, the first numbers of a matrix and zeros.
Part == "part"

\* A ModelBundle as it is constructed: every caller hands such a one to
\* load_bundle, and what is not read keeps these values.
Default == [f \in Fields |-> IF f = "has" THEN "0" ELSE "default"]

Record(f, v) == [field |-> f, value |-> v]
Write(b, names) == [i \in DOMAIN names |-> Record(names[i], b[names[i]])]

save_model(b) == Write(b, Model)

save_bundle(b) ==
  <<Record("magic", "NWX3")>> \o Write(b, Header)
    \o (IF b["has"] = "1" THEN Write(b, Scaler) ELSE <<>>)

-----------------------------------------------------------------------------
\* in.read of the fields called names: each takes the next bytes, whatever was
\* written there, and nothing behind the end of the file.
ReadFields(b, file, names) ==
  [f \in Fields |->
     LET i == SelectInSeq(names, LAMBDA n : n = f)
     IN  IF i # 0 /\ i <= Len(file) THEN file[i].value ELSE b[f]]

load_model(b, file) == ReadFields(b, file, Model)

HasMagic(file) == file # <<>> /\ file[1] = Record("magic", "NWX3")

\* Before mean and stdv are read they are n zeros and n ones; without an n there are
\* none of either.
ZeroMeans == "zeros"
UnitDeviations == "ones"
Sized(b) ==
  [f \in Fields |-> IF f = "mean" THEN ZeroMeans ELSE IF f = "stdv" THEN UnitDeviations ELSE b[f]]

HasSize(file) == Len(file) > Len(Header)

\* What is read behind the magic, with the scaler if the flag says so.
ReadBody(b, file) ==
  LET m == ReadFields(b, file, Header)
  IN  IF m["has"] = "1"
      THEN ReadFields(IF HasSize(file) THEN Sized(b) ELSE b, file, Names) ELSE m

\* Slip for load_bundle: has, read into without a value, happens to be 1.
load_bundle_flag_unset(file) ==
  IF HasMagic(file) THEN ReadBody([Default EXCEPT !["has"] = "1"], Tail(file))
  ELSE load_model(Default, file)

\* load_bundle of a file that can be opened.  One that does not begin with the
\* four bytes of the magic is taken for one without header.
load_bundle(file) ==
  IF HasMagic(file) THEN ReadBody(Default, Tail(file)) ELSE load_model(Default, file)

-----------------------------------------------------------------------------
(* What the files promise, of a bundle b that has a value per field.       *)

Bundle(values) ==
  [f \in Fields |-> IF f \in ToSet(Scaler) /\ values["has"] = "0" THEN "default"
                    ELSE values[f]]

\* A bundle comes back as it was saved; of a model saved without header the
\* model comes back, without a scaler.
LoadsBack(b) ==
  /\ load_bundle(save_bundle(b)) = b
  /\ load_bundle(save_model(b)) =
       [f \in Fields |-> IF f \in ToSet(Model) THEN b[f] ELSE Default[f]]

\* The files of a save that is cut after k fields, or inside the next one.
CutFiles(file, k) ==
  {SubSeq(file, 1, k)} \cup
  {SubSeq(file, 1, k) \o <<Record(file[i].field, Part)>> : i \in {k + 1} \cap DOMAIN file}

\* Of a file cut anywhere the fields before the cut are as saved, and those behind it
\* at their defaults, or the zeros and ones of a scaler whose size is known: at most
\* one is none of these.  There is a scaler only if the whole model and its
\* temperature were saved, and none of its deviations without all of its means.
CutLoads(b, k) ==
  \A file \in CutFiles(save_bundle(b), k) :
    LET m == load_bundle(file)
        Unread(f) == {Default[f], Sized(Default)[f]}
    IN  /\ Cardinality({f \in Fields : m[f] \notin Unread(f) \cup {b[f]}}) <= 1
        /\ m["has"] = "1" => \A f \in Fields \ ToSet(Scaler) : m[f] = b[f]
        /\ m["mean"] # b["mean"] => m["stdv"] \in Unread("stdv")
=============================================================================
