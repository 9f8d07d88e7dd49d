---------------------------- MODULE MCIocpServer ----------------------------
(* Two workers, and one context more than the accepts they keep posted, so *)
(* that a connection is served while the accepts are replaced.  Addresses  *)
(* are interchangeable.                                                    *)
EXTENDS IocpServer, TLC

AnyAddress == Permutations(Ctxs)
=============================================================================
