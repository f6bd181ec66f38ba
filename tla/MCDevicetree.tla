---------------------------- MODULE MCDevicetree ----------------------------
(***************************************************************************)
(* Small device trees, flattened here from nested records: which word is a *)
(* token, and of which node, is known from the construction and not found  *)
(* by scanning.                                                            *)
(***************************************************************************)
EXTENDS Devicetree

Name(base, unit) == [base |-> base, unit |-> unit]
Prop(name, len, value) == [name |-> name, len |-> len, value |-> value]
\* "long": the name's last character is the last byte of a word.
Node(name, long, props, kids, after) ==
    [name |-> name, long |-> long, props |-> props, kids |-> kids, after |-> after]

Cell(word, what, depth, name) ==
    [word |-> word, what |-> what, depth |-> depth, name |-> name, made |-> NULL]
Raw(words) == [i \in 1 .. Len(words) |-> Cell(words[i], "raw", 0, NULL)]
PropCells(prop, depth) ==
    <<[Cell(FDT_PROP, "prop", depth, prop.name) EXCEPT !.made = prop]>> \o Raw(<<prop.len, 0>> \o prop.value)

RECURSIVE Cells(_, _)
Cells(n, depth) ==
    LET each(s, Op(_)) == FlattenSeq([i \in 1 .. Len(s) |-> Op(s[i])])
        prop(q) == PropCells(q, depth + 1)
        kid(k) == Cells(k, depth + 1)
        nop == <<Cell(FDT_NOP, "nop", depth + 1, NULL)>>
    IN  <<Cell(FDT_BEGIN_NODE, "node", depth, n.name)>>
        \o Raw(IF n.long THEN <<NO_NUL, 0>> ELSE <<5>>)
        \o each(n.props, prop) \o nop \o each(n.kids, kid)
        \o each(n.after, prop)
        \o <<Cell(FDT_END_NODE, "end", depth + 1, NULL)>>

\* A reservation map: an entry for each reservation, one of zeros, and what
\* happens to follow.
Rsv(address, size) == [address |-> address, size |-> size]
Map(reserved) == reserved \o <<Rsv(0, 0), Rsv(9, 9)>>

\* The blob made of a sequence of cells.
Blob(cells) ==
    LET at(q) == cells[q + 1]
        all == 0 .. Len(cells) - 1
        tokens == {q \in all : at(q).what # "raw"}
        nodes == {q \in all : at(q).what = "node"}
        props == {q \in all : at(q).what = "prop"}
        Around(q) == {n \in nodes : n < q /\ at(n).depth = at(q).depth - 1}
        parent(q) == IF Around(q) = {} THEN NULL ELSE Max(Around(q))
    IN  [words |-> [q \in all |-> at(q).word], magic |-> TRUE, version |-> FDT_VERSION,
         damaged |-> FALSE, reserved |-> <<>>, rsvmap |-> Map(<<>>), tokens |-> tokens, nodes |-> nodes,
         depth |-> [q \in tokens |-> at(q).depth],
         name |-> [q \in nodes |-> at(q).name], propname |-> [q \in props |-> at(q).name],
         value |-> [q \in props |-> at(q).made],
         parent |-> [q \in nodes |-> parent(q)], owner |-> [q \in props |-> parent(q)]]

Flat(root) == Blob(<<Cell(FDT_NOP, "nop", 0, NULL)>> \o Cells(root, 0)
                   \o <<Cell(FDT_END, "end", 0, NULL)>>)

\* Values that look like tokens, that are empty, that end inside a word, or that
\* are strings.
Values == { Prop("reg", 4, <<FDT_BEGIN_NODE>>), Prop("reg", 5, <<FDT_PROP, FDT_END_NODE>>),
            Prop("reg", 1, <<FDT_BEGIN_NODE>>), Prop("reg", 0, <<>>),
            Prop("reg", 5, <<65, 0>>) }

Tree(value, long, after) ==
    LET status == Prop("status", 8, <<FDT_END_NODE, FDT_END>>)
        cpu(unit, kids) == Node(Name("cpu", unit), long, <<status, value>>, kids, <<>>)
        cache == Node(Name("cache", NULL), FALSE, <<value>>, <<>>, <<>>)
    IN  Flat(Node(Name("", NULL), FALSE, IF after THEN <<>> ELSE <<status>>,
                  << cpu("0", <<>>), cpu("1", <<cache>>),
                     Node(Name("soc", NULL), long, <<>>, <<cache, cpu("1", <<>>)>>, <<value>>) >>,
                  IF after THEN <<status, value>> ELSE <<>>))

Whole == {Tree(v, long, after) : v \in Values, long \in BOOLEAN, after \in BOOLEAN}

Base == Tree(Prop("reg", 5, <<FDT_PROP, FDT_END_NODE>>), TRUE, FALSE)

\* One token overwritten with an invalid one or with the end of the tree.
Damage(q, w) ==
    [Base EXCEPT !.damaged = TRUE, !.words = [@ EXCEPT ![q] = w],
                 !.nodes = @ \ {q}, !.owner = [r \in DOMAIN @ \ {q} |-> @[r]]]
Damaged == {Damage(q, w) : q \in Base.tokens, w \in {7, FDT_END}}

\* No structure, a foreign version, no device tree at all.
Refused == { Blob(<<Cell(FDT_NOP, "nop", 0, NULL), Cell(FDT_END, "end", 0, NULL)>>),
             [Base EXCEPT !.version = 16], [Base EXCEPT !.magic = FALSE] }

\* Reservations that start at address 0 or are empty.
Reserving == { [Base EXCEPT !.reserved = r, !.rsvmap = Map(r)] :
                 r \in { <<Rsv(0, 4)>>, <<Rsv(8, 0), Rsv(4, 4)>>, <<Rsv(8, 4), Rsv(0, 1), Rsv(2, 2)>> } }

MCTrees == Whole \union Damaged \union Refused \union Reserving

MCNames == {Name("cpu", NULL), Name("cpu", "1"), Name("cache", NULL), Name("none", NULL)}
MCPropNames == {"reg", "status", "none"}
MCPaths == { <<>>, <<Name("cpu", "1")>>, <<Name("cpu", NULL)>>, <<Name("none", NULL)>>,
             <<Name("cpu", "1"), Name("cache", NULL)>>, <<Name("soc", NULL), Name("cpu", "1")>>,
             <<Name("cpu", NULL), Name("cache", NULL)>>,
             <<Name("soc", NULL), Name("soc", NULL)>> }
=============================================================================
