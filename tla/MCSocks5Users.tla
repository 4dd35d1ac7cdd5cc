---------------------------- MODULE MCSocks5Users -----------------------------
(***************************************************************************)
(* Two users on the command line, a third name to add, two connections:    *)
(* the smallest instance in which one user has two sessions, and a slot    *)
(* that one of them still points to is given to somebody else.             *)
(***************************************************************************)
EXTENDS Socks5Users

CONSTANTS alice, bob, carol, secret, word, c1, c2

MCName == {alice, bob, carol}
MCPass == {secret, word}
MCConn == {c1, c2}
MCInitial == <<<<alice, secret>>, <<bob, word>>>>
MCUnterminated == {carol}
===============================================================================
