---------------------------- MODULE MCFileServer ----------------------------
(* Requests for FileServer. *)
EXTENDS FileServer

W(ino, sess, append, after) == [ino |-> ino, sess |-> sess, append |-> append, after |-> after]

\* Two writes of one client, the second on a new connection after the first was
\* given up or acknowledged, and an append through another handle of the file.
Overlapping == <<W("i", 1, FALSE, 0), W("i", 2, FALSE, 1), W("i", 1, TRUE, 0)>>

OneStripe == [i |-> 1]
FirstHandle == {<<1, "i">>}
=============================================================================
