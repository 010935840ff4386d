---------------------------- MODULE MCWebUpload ----------------------------
(* Bounds of WebUpload for TLC. *)
EXTENDS WebUpload

CONSTANTS u1, u2, u3, Text, Html, Png, Docx

Plain(size) ==
    [size |-> size, prefix |-> <<"docs">>, extension |-> "txt", type |-> Text, magic |-> Unknown]

Allowlist == {<<"docs">>, <<Staging>>}

Allowed == {Text, Docx, Png}

\* Files that meet a check of init or of complete.
Special ==
    { [Plain(2) EXCEPT !.prefix = <<Staging>>],
      [Plain(2) EXCEPT !.prefix = <<"docs", "..">>],
      [Plain(2) EXCEPT !.prefix = <<"elsewhere">>],
      [Plain(2) EXCEPT !.extension = "exe"],
      [Plain(2) EXCEPT !.type = Html],
      [Plain(2) EXCEPT !.magic = Html],
      [Plain(2) EXCEPT !.magic = Png],
      [Plain(2) EXCEPT !.type = Docx, !.magic = ZipType],
      Plain(7),
      Plain(9) }

\* One file of up to three parts; one of a special kind; or three files for two
\* slots, refused at init.
MCDrops ==
    {[u \in {u1} |-> Plain(size)] : size \in {1, 2, 5, 6}}
    \union {[u \in {u1} |-> f] : f \in Special}
    \union {[u \in {u1, u2, u3} |-> Plain(0)]}
=============================================================================
