------------------------------ MODULE Product ------------------------------
(***************************************************************************)
(* The Product aggregate (crates/products/src/product.rs) and its row in   *)
(* the catalog (crates/infra/src/projections/products.rs).  Texts are      *)
(* model values, Blank standing for every text trim leaves empty.          *)
(***************************************************************************)
EXTENDS Naturals

CONSTANTS Blank, NoPricing

ProductStatus == {"Draft", "Active", "Archived"}

EmptyProduct ==
    [created |-> FALSE, sku |-> Blank, name |-> Blank, status |-> "Draft", pricing |-> NoPricing]

ProductCreated(sku, name, pricing) ==
    [type |-> "ProductCreated", sku |-> sku, name |-> name, pricing |-> pricing]
ProductActivated == [type |-> "ProductActivated"]
ProductArchived == [type |-> "ProductArchived"]

(* Product::apply *)
ApplyProduct(product, event) ==
    CASE event.type = "ProductCreated" ->
             [created |-> TRUE, sku |-> event.sku, name |-> event.name, status |-> "Draft",
              pricing |-> event.pricing]
      [] event.type = "ProductActivated" -> [product EXCEPT !.status = "Active"]
      [] event.type = "ProductArchived"  -> [product EXCEPT !.status = "Archived"]

(* handle_create, handle_activate, handle_archive: when each is accepted.  *)
(* A SKU may be used twice: only the aggregate looks at it.                *)
CanCreateProduct(product, sku, name) == ~product.created /\ name # Blank /\ sku # Blank

CanActivate(product) == product.created /\ product.status \notin {"Active", "Archived"}

CanArchive(product) == product.created /\ product.status # "Archived"

(* The catalog row after an event; a missing row counts as an empty draft. *)
NoProductRow == [sku |-> Blank, name |-> Blank, status |-> "NoRow", pricing |-> NoPricing]

ProductRowAfter(row, event) ==
    CASE event.type = "ProductCreated" ->
             [sku |-> event.sku, name |-> event.name, status |-> "Draft", pricing |-> event.pricing]
      [] event.type = "ProductActivated" -> [row EXCEPT !.status = "Active"]
      [] event.type = "ProductArchived"  -> [row EXCEPT !.status = "Archived"]

=============================================================================
