--------------------------- MODULE MCAirDropServer ---------------------------
(***************************************************************************)
(* AirDropServer on a small instance: two connections that both send the   *)
(* same file name, a feed of two places, archives that are whole, cut off  *)
(* in a file's data after a whole file, or no archive at all.              *)
(***************************************************************************)
EXTENDS AirDropServer, TLC

CONSTANTS c1, c2, n1

\* One sender makes two requests (/Ask and then /Upload among them).
MCRequests == c1 :> 2 @@ c2 :> 1

Entry(kind) == [name |-> n1, kind |-> kind]

MCArchives == {<<Entry("whole")>>,
               <<Entry("whole"), Entry("short")>>,
               <<Entry("badmagic")>>}

=============================================================================
