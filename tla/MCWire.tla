------------------------------- MODULE MCWire -------------------------------
(***************************************************************************)
(* A small instance of Wire for TLC: bytes of two bits.                    *)
(***************************************************************************)
EXTENDS WireProperties

SomePayloads == {<< 1 >>, << 3, 0 >>, << 2, 1, 3 >>}
=============================================================================
