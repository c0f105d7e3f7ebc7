------------------------------ MODULE MCLoader ------------------------------
(* Small instances of Loader and of the cache it reads.                    *)
EXTENDS Loader, TLC
=============================================================================
