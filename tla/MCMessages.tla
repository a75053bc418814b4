----------------------------- MODULE MCMessages -----------------------------
(* Messages on a small instance: values whose varints take one, two and    *)
(* ten bytes, strings whose lengths do.                                    *)
EXTENDS Messages

AllTypes == DOMAIN Code
IntValues == {0, 1, 300, -1}
TextLengths == {0, 3, 130}
=============================================================================
