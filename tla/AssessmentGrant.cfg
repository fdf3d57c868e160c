\* What Authorization::Allowed says, against a review that answers no.
SPECIFICATION Spec
CONSTANT
  Catalogue <- MCLeast
INVARIANT AllowedIsGranted
