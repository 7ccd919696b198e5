---- MODULE MCDecoding ----
(* Every document of a few tokens over one field name in two spellings and
   one question id. *)
EXTENDS Decoding, TLC

mcField == "questions" :> "questions" @@ "Questions" :> "questions" @@ "a" :> "a"
====
