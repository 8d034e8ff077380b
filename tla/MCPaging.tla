------------------------------ MODULE MCPaging ------------------------------
(* An instance of Paging for TLC: four links under a prefix that ends with *)
(* the largest byte, one link on either side of it, two captures of one    *)
(* time and one of another in one link.                                    *)
EXTENDS Paging

MCPrefix == <<3, 4>>

Row(id, link, at) == [id |-> id, link |-> link, at |-> at]

MCCaptures ==
    {Row(9, <<3, 3>>, 1),
     Row(1, <<3, 4>>, 2), Row(2, <<3, 4>>, 2), Row(3, <<3, 4>>, 1),
     Row(4, <<3, 4, 2, 3>>, 2), Row(5, <<3, 4, 2, 3>>, 1),
     Row(6, <<3, 4, 2, 4>>, 1), Row(8, <<3, 4, 4>>, 1),
     Row(7, <<4>>, 2)}

MCStanding == {c \in MCCaptures : ~IsPrefix(MCPrefix, c.link) \/ c.id \in {1, 5, 8}}

Conf(p, m, n) == [page_max |-> p, per_link_max |-> m, links_per_page_max |-> n]
MCConfs == {Conf(1, 1, 1), Conf(2, 1, 2)}
=============================================================================
