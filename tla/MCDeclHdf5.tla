----------------------------- MODULE MCDeclHdf5 -----------------------------
(* Two files.  Events write the matrix a into a part of the dataset d under   *)
(* each policy and read it back into b, the size of d into s; sharing a also  *)
(* writes it to a dataset of its own and the scalar i to an attribute of it.  *)
EXTENDS DeclHdf5

Dim(size, start, subsize) == [size |-> size, start |-> start, subsize |-> subsize]

Tree(event, policy) ==
    [file |-> "f1", on_event |-> <<event>>, collision_policy |-> policy,
     datasets |-> {[names |-> {"d", "e"}, type |-> <<Dim(3, 0, 3), Dim(2, 0, 2)>>]}]

Each(name, config) == [each |-> <<<<name, <<config>>>>>>]
Start(at) == [start |-> at]

WriteA == [dataset |-> "d", memory_selection |-> Start(<<0, 1>>), dataset_selection |-> Start(<<1, 0>>)]
Stamp  == [attributes |-> <<<<"stamp", "i">>>>]
ReadB  == [dataset |-> "d", memory_selection |-> [size |-> <<2, 1>>] @@ Start(<<0, 1>>), dataset_selection |-> Start(<<1, 0>>)]
E      == [dataset |-> "e"]

MCTrees ==
    <<Tree("write", "write_into") @@ [write |-> Each("a", WriteA @@ Stamp)],
      Tree("skip", "write_into_and_warn") @@ [write |-> Each("a", [collision_policy |-> "skip_and_warn"] @@ WriteA @@ Stamp)],
      Tree("replace", "write_into") @@ [write |-> Each("a", [collision_policy |-> "replace", when |-> <<"i">>] @@ WriteA)],
      Tree("replace", "write_into") @@ [write |-> Each("a", [collision_policy |-> "replace_and_warn", dataset_selection |-> Start(<<1, 0>>)] @@ E)],
      Tree("outside", "write_into") @@ [write |-> Each("a", [dataset_selection |-> Start(<<2, 0>>)] @@ E)],
      Tree("error", "error") @@ [write |-> Each("a", E)],
      Tree("skip", "skip") @@ [write |-> Each("a", E)],
      Tree("update", "error") @@ [write |-> Each("a", [dataset_selection |-> [size |-> <<2, 1>>]] @@ E),
                                  read |-> Each("i", [attribute |-> <<"d", "stamp">>])],
      Tree("read", "write_into") @@ [read |-> [each |-> <<<<"b", <<ReadB>>>>, <<"s", <<[size_of |-> "d"], [size_of |-> "e"]>>>>>>]],
      [file |-> "f2", on_event |-> <<"outside">>, collision_policy |-> "replace_and_warn", write |-> [names |-> <<<<"a">>>>]],
      [file |-> "f2", collision_policy |-> "write_into_and_warn", write |-> [names |-> <<<<"a">>, <<"a", "i">>>>]]>>

Offer(type, value, rights) == [type |-> type, value |-> value, rights |-> rights]

MCOffers ==
    [n \in {"a", "b", "i", "s"} |->
        CASE n = "a" -> {Offer(<<Dim(3, 1, 2), Dim(2, 0, 1)>>, 10, {"r"}), Offer(<<Dim(3, 1, 2), Dim(2, 0, 1)>>, 20, {"r"}), Offer(<<>>, 5, {"w"})}
          [] n = "b" -> {Offer(<<Dim(2, 0, 2), Dim(2, 0, 2)>>, 0, {"r", "w"}), Offer(<<>>, 5, {"r"})}
          [] n = "i" -> {Offer(<<>>, 0, {"r", "w"}), Offer(<<>>, 1, {"r"}), Offer(<<>>, 1, {"w"})}
          [] n = "s" -> {Offer(<<Dim(2, 0, 2)>>, 0, {"r", "w"}), Offer(<<Dim(2, 0, 2)>>, 0, {"r"}), Offer(<<>>, 0, {"w"})}]
=============================================================================
