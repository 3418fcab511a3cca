----------------------------- MODULE MCDagFetch -----------------------------
(***************************************************************************)
(* Instances of DagFetch for TLC.  With two bytes per chunk and two        *)
(* children per node, five bytes make three leaves, two nodes and a root.  *)
(* A span of one byte is fetched inline and one of two or more by a        *)
(* goroutine, as 64 KiB lies between a short last chunk and a full one.    *)
(***************************************************************************)
EXTENDS DagFetch

MCFiles == {<<>>, <<1>>, <<1, 2, 3>>, <<1, 2, 1, 2>>, <<1, 2, 3, 4, 5>>, <<1, 2, 1, 2, 3, 4, 5>>}
=============================================================================
