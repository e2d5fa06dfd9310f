------------------------------- MODULE MCLj2News -------------------------------
(* Two feeds. The first has a title of its own, an item with two titles, two*)
(* categories and a description that begins with a blank line and has a long*)
(* one, and an item that is too old; the second has an item without a title *)
(* and with a description longer than both pipes. More command lines have   *)
(* feeds with an item that lacks what it must have, or with one within      *)
(* another; Feed7 begins with a long line.                                  *)
EXTENDS Lj2News

Open(name) == [kind |-> "open", name |-> name]
Close(name) == [kind |-> "close", name |-> name]
Text(text) == [kind |-> "text", text |-> text]
Simple(name, text) == <<Open(name), Text(text), Close(name)>>

Feed1 ==
    <<Open("rss")>> \o Simple("title", "blog")
    \o <<Open("item")>> \o Simple("guid", "g1") \o Simple("title", "t0")
    \o Simple("title", "t1") \o Simple("pubDate", "new")
    \o Simple("category", "k1") \o Simple("category", "k2")
    \o <<Open("description"), Text("blank"), Text("d1"), Text("long"),
         Text("blank"), Close("description"), Close("item")>>
    \o <<Open("item")>> \o Simple("guid", "g2") \o Simple("pubDate", "old")
    \o <<Close("item"), Close("rss")>>

Feed2 ==
    <<Open("rss"), Open("item")>> \o Simple("guid", "g3") \o Simple("pubDate", "new")
    \o Simple("link", "l3")
    \o <<Open("description"), Text("d3"), Text("long"), Text("d4"), Text("d5"),
         Close("description"), Close("item"), Close("rss")>>

\* Without a guid, and without a description after an item without a date.
Feed3 == <<Open("rss"), Open("item")>> \o Simple("description", "d6")
         \o <<Close("item"), Close("rss")>>
Feed4 == <<Open("rss"), Open("item")>> \o Simple("guid", "g6")
         \o <<Close("item"), Open("item")>> \o Simple("guid", "g7")
         \o Simple("pubDate", "new") \o <<Close("item"), Close("rss")>>

\* An item within an item's subelement.
Feed5 == <<Open("rss"), Open("item"), Open("guid"), Open("item"), Close("item"),
           Text("g8"), Close("guid"), Close("item"), Close("rss")>>
\* With a guid of its own, and nothing after it.
Feed6 == <<Open("rss"), Open("item"), Open("guid"), Open("item")>>
         \o Simple("guid", "g9") \o Simple("pubDate", "old")
         \o <<Close("item"), Close("guid"), Close("item"), Close("rss")>>

\* A first line that does not fit into process_item()'s buffer.
Feed7 == <<Open("rss"), Open("item")>> \o Simple("guid", "g7")
         \o Simple("pubDate", "new")
         \o <<Open("description"), Text("long"), Text("d7"), Close("description"),
              Close("item"), Close("rss")>>

LongLead == {<<Feed7>>}
MCFeeds == {<<Feed1, Feed2>>, <<Feed3>>, <<Feed4>>, <<Feed5>>, <<Feed6>>}
MCDateOf == [text \in {<<"old">>, <<"new">>} |-> IF text = <<"new">> THEN 2 ELSE 1]
================================================================================
