---------------------------- MODULE MCRestSource ----------------------------
(* Instances of RestSource for TLC.                                          *)
EXTENDS RestSource, TLC

CONSTANTS i1, i2, i3    \* records

(* What each paginator stands: a position shifts when a record on an earlier *)
(* page moves to the end, and a page that was short when it was read is not  *)
(* read again when a record is added to it.                                  *)
MCSetups ==
    [paginator : {"single_page"}, max_pages : {1}, meanwhile : {"update"}]
        \union [paginator : {"page_number"}, max_pages : {1, 2}, meanwhile : {"nothing"}]
        \union [paginator : {"offset"}, max_pages : {1, 2}, meanwhile : {"creation"}]
        \union [paginator : {"link", "cursor"}, max_pages : {1, 2}, meanwhile : {"update"}]
=============================================================================
