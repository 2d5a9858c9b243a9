---------------------------- MODULE PriceBuffer ----------------------------
(***************************************************************************)
(* The prices kept of one symbol (src/src/data/data_buffer.rs): a queue of *)
(* at most a given size that gives up its oldest price for a new one.      *)
(***************************************************************************)
EXTENDS Naturals, Sequences

\* The last n elements, or all of them when there are fewer.
Latest(seq, n) ==
  IF Len(seq) <= n THEN seq ELSE SubSeq(seq, Len(seq) - n + 1, Len(seq))

\* Mutated form of AddPrice: the size is compared before the price is added.
AddPriceUnlessLonger(prices, price, size) ==
  IF Len(prices) > size THEN Append(Tail(prices), price)
                        ELSE Append(prices, price)

\* Mutated form of AddPrice: a full buffer takes no more prices.
AddPriceUnlessFull(prices, price, size) ==
  IF Len(prices) >= size THEN prices ELSE Append(prices, price)

AddPrice(prices, price, size) ==
  LET longer == Append(prices, price)
  IN  IF Len(longer) > size THEN Tail(longer) ELSE longer

============================================================================
